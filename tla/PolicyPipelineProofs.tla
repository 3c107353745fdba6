------------------------ MODULE PolicyPipelineProofs ------------------------
(***************************************************************************)
(* Proofs about the background pipeline.  Inv is an inductive invariant of *)
(* Spec; the safety properties of PolicyPipeline follow from it.           *)
(***************************************************************************)
EXTENDS PolicyPipeline, FiniteSetTheorems, TLAPS

-----------------------------------------------------------------------------
\* Stages at which the extraction loop is over, at which the snapshot of the
\* peers has been taken, and at which the conflict rows have been committed.
PastExtraction == {"extracted", "compare", "peers", "detect", "compared", "sync",
                   "done"}
Snapped == {"peers", "detect", "compared", "sync", "done"}
Committed == {"compared", "sync", "done"}

\* Stages of an upload and of a thread that has not read its clauses yet.
Unread == {"absent", "unsegmented", "saved", "started"}

OwnClauses(p) == {c \in Clause : PolicyOf[c] = p}

\* One whole segmentation of p so far, or nothing of a deleted policy.
Whole(p, cs) ==
    \/ \E n \in 1 .. segmentations[p] : cs = ClausesOf(p, n)
    \/ cs = {} /\ row[p] = "deleted"

\* Re-segmentation replaces the clauses as a whole, and a thread reads whole
\* segmentations.
SegmentationOfPolicy(p) ==
    /\ pc[p] \notin {"absent", "unsegmented"} => Whole(p, visible[p])
    /\ pc[p] \notin Unread => Whole(p, clauses[p])

SegmentationInv == \A p \in Policy : SegmentationOfPolicy(p)

\* All the obligations of the clauses that were read, but for the one whose
\* mapping failed.
Extracted(p) ==
    LET lost == clauses[p] \ ObligationsOf(p)
    IN  /\ staged[p] = {}
        /\ ObligationsOf(p) \subseteq clauses[p]
        /\ \A c, d \in lost : c = d
        /\ lost # {} => "mapping" \in logged[p]

\* How far the extraction of p got with the clauses it read.
ExtractionOf(p) ==
    /\ pc[p] = "absent" <=> row[p] = "absent"
    /\ visible[p] \subseteq OwnClauses(p)
    /\ clauses[p] \subseteq OwnClauses(p)
    /\ todo[p] \subseteq clauses[p]
    /\ staged[p] \subseteq clauses[p] /\ \A c, d \in staged[p] : c = d
    /\ pc[p] \in Unread => clauses[p] = {} /\ ObligationsOf(p) = {}
    /\ pc[p] = "extract" /\ fate[p] = "running" =>
         ObligationsOf(p) \cup staged[p] \cup todo[p] = clauses[p]
    /\ pc[p] \in PastExtraction => Extracted(p)

ExtractionInv == \A p \in Policy : ExtractionOf(p)

\* What the state of a session's transaction tells of its log.
TransactionOf(p) ==
    /\ pc[p] \notin Snapped => "comparison" \notin logged[p]
    /\ fate[p] = "running" =>
         /\ pc[p] = "extract" /\ ~Healthy(p) => "mapping" \in logged[p]
         /\ pc[p] \in {"peers", "detect"} =>
              (Healthy(p) <=> "comparison" \notin logged[p])
         /\ pc[p] \notin {"extract", "peers", "compared"} => Healthy(p)

TransactionInv == \A p \in Policy : TransactionOf(p)

AuditOf(p) ==
    /\ Audited(p, "Obligation Extraction") =>
         pc[p] \in PastExtraction \ {"extracted"}
    /\ Audited(p, "Conflict Detection") => pc[p] \in {"sync", "done"}

AuditInv == \A p \in Policy : AuditOf(p)

\* A row that the thread of p may have recorded.
WellFounded(p, c) ==
    /\ c.source \in Policy /\ c.source # p /\ SameCompany(c.source, p)
    /\ c.target = p
    /\ c.a # NoClause => c.a \in ObligationsOf(c.source)
    /\ c.b # NoClause => c.b \in ObligationsOf(p)
    /\ c.a # NoClause \/ c.b # NoClause

\* The comparison loop of p: what it has visited, read and recorded.
LoopOf(p) ==
    /\ \A q \in peers[p] : q # p /\ SameCompany(q, p)
    /\ pc[p] \notin Snapped => peers[p] = {} /\ found[p] = {}
    /\ pc[p] \in Committed => peers[p] = {}
    /\ pc[p] = "detect" =>
         /\ peer[p] # p /\ SameCompany(peer[p], p) /\ peer[p] \notin peers[p]

ReadOf(p) ==
    pc[p] = "detect" =>
        /\ read[p].a \subseteq ObligationsOf(peer[p])
        /\ read[p].b = ObligationsOf(p)

FoundOf(p) ==
    \A c \in found[p] :
        /\ WellFounded(p, c)
        /\ c.source \notin peers[p]
        /\ pc[p] = "detect" => c.source # peer[p]

ComparisonInv == \A p \in Policy : LoopOf(p) /\ ReadOf(p) /\ FoundOf(p)

\* Committed rows are those of finished comparisons without a failed query.
RowsOfTarget(p) == {c \in conflicts : c.target = p}

CommitOf(p) ==
    RowsOfTarget(p) = IF pc[p] \in Committed /\ "comparison" \notin logged[p]
                      THEN found[p] ELSE {}

CommitInv == \A p \in Policy : CommitOf(p)

\* The comparison of p covers, or will cover, the final obligations of q.
CompleteView(p, q) ==
    \/ q \in peers[p]
    \/ pc[p] = "detect" /\ peer[p] = q /\ read[p].a = ObligationsOf(q)
    \/ /\ q \notin peers[p] /\ ~ (pc[p] = "detect" /\ peer[p] = q)
       /\ {c \in found[p] : c.source = q} = Reference(q, p)

\* Of two live policies of a company, the one that takes its snapshot last
\* finds the other with its extraction over.
ViewInv ==
    \A p, q \in Policy :
        /\ p # q /\ SameCompany(p, q)
        /\ row[p] = "live" /\ row[q] = "live"
        /\ pc[p] \in Snapped /\ pc[q] \in Snapped
        /\ "comparison" \notin logged[p] /\ "comparison" \notin logged[q]
        => CompleteView(p, q) \/ CompleteView(q, p)

Inv ==
    /\ TypeOK /\ SegmentationInv /\ ExtractionInv /\ TransactionInv
    /\ AuditInv /\ ComparisonInv /\ CommitInv /\ ViewInv

-----------------------------------------------------------------------------
\* Conflict derivation yields well-typed rows that name the two policies
\* compared and cite only obligations of the sets it was given.
LEMMA DerivedRows ==
    ASSUME NEW q \in Policy, NEW p \in Policy,
           NEW As \in SUBSET Clause, NEW Bs \in SUBSET Clause,
           NEW A \in SUBSET Clause, NEW B \in SUBSET Clause,
           NEW c \in DetectConflicts(q, p, As, Bs, A, B)
    PROVE  /\ c \in Conflict
           /\ c.source = q /\ c.target = p
           /\ c.a # NoClause => c.a \in A
           /\ c.b # NoClause => c.b \in B
           /\ c.a # NoClause \/ c.b # NoClause
<1>1. As \X Bs \subseteq A \X B /\ c \in Derived(q, p, As, Bs, A, B)
  BY DEF DetectConflicts
<1>2. CASE \E x \in As \X Bs :
             \/ c = ConflictRow(q, p, "duplicate", x[1], x[2])
             \/ c = ConflictRow(q, p, "contradiction", x[1], x[2])
  <2>1. PICK x \in As \X Bs :
             \/ c = ConflictRow(q, p, "duplicate", x[1], x[2])
             \/ c = ConflictRow(q, p, "contradiction", x[1], x[2])
    BY <1>2
  <2>2. x[1] \in A /\ x[2] \in B
    BY <1>1
  <2>3. x[1] # NoClause /\ x[2] # NoClause
    BY <2>2, ClauseAssumption
  <2> QED
    BY <2>1, <2>2, <2>3 DEF ConflictRow, Conflict, ConflictType
<1>3. CASE \E x \in A : c = ConflictRow(q, p, "missing", x, NoClause)
  BY <1>3, ClauseAssumption DEF ConflictRow, Conflict, ConflictType
<1>4. CASE \E x \in B : c = ConflictRow(q, p, "missing", NoClause, x)
  BY <1>4, ClauseAssumption DEF ConflictRow, Conflict, ConflictType
<1>5. \/ \E x \in As \X Bs :
           \/ c = ConflictRow(q, p, "duplicate", x[1], x[2])
           \/ c = ConflictRow(q, p, "contradiction", x[1], x[2])
      \/ \E x \in A : c = ConflictRow(q, p, "missing", x, NoClause)
      \/ \E x \in B : c = ConflictRow(q, p, "missing", NoClause, x)
  BY <1>1 DEF Derived
<1> QED
  BY <1>2, <1>3, <1>4, <1>5

\* Types hold initially ...
LEMMA InitTypeOK == Init => TypeOK
BY DEF Init, TypeOK, Stage, AuditEvent

\* ... and every step keeps them.
LEMMA NextTypeOK == TypeOK /\ [Next]_vars => TypeOK'
<1> SUFFICES ASSUME TypeOK, [Next]_vars PROVE TypeOK'
  OBVIOUS
<1> USE DEF TypeOK, Stage, LoggedFailure, PassOver, clauseVars, compareVars, txVars
<1>1. ASSUME NEW p \in Policy, Upload(p) PROVE TypeOK'
  BY <1>1 DEF Upload, StoreClauses, ClausesOf, Advance
<1>2. ASSUME NEW p \in Policy, UploadUnsegmented(p) PROVE TypeOK'
  BY <1>2 DEF UploadUnsegmented, Advance
<1>3. ASSUME NEW p \in Policy, StartThread(p) PROVE TypeOK'
  BY <1>3 DEF StartThread, Advance
<1>4. ASSUME NEW p \in Policy, DeletePolicy(p) PROVE TypeOK'
  BY <1>4 DEF DeletePolicy
<1>5. ASSUME NEW p \in Policy, ReadClauses(p) PROVE TypeOK'
  BY <1>5 DEF ReadClauses, Advance
<1>6. ASSUME NEW p \in Policy, StageObligation(p) PROVE TypeOK'
  BY <1>6 DEF StageObligation, Advance
<1>7. ASSUME NEW p \in Policy, SeedCommit(p) PROVE TypeOK'
  BY <1>7 DEF SeedCommit, Advance
<1>8. ASSUME NEW p \in Policy, FinishExtraction(p) PROVE TypeOK'
  BY <1>8 DEF FinishExtraction, Advance
<1>9. ASSUME NEW p \in Policy, AuditExtraction(p) PROVE TypeOK'
  <2>1. audit' \subseteq Policy \X AuditEvent
    <3>1. <<p, "Obligation Extraction">> \in Policy \X AuditEvent
      BY DEF AuditEvent
    <3> QED
      BY <1>9, <3>1 DEF AuditExtraction
  <2> QED
    BY <1>9, <2>1 DEF AuditExtraction, Advance
<1>10. ASSUME NEW p \in Policy, SnapshotPeers(p) PROVE TypeOK'
  BY <1>10 DEF SnapshotPeers, Advance, ActivePeers
<1>11. ASSUME NEW p \in Policy, CompareVersions(p) PROVE TypeOK'
  BY <1>11 DEF CompareVersions, Advance, ObligationsOf
<1>12. ASSUME NEW p \in Policy, RecordConflicts(p) PROVE TypeOK'
  <2>1. DetectConflicts(peer[p], p, read[p].a, read[p].b,
                        ObligationsOf(peer[p]), ObligationsOf(p)) \subseteq Conflict
    BY DerivedRows DEF ObligationsOf
  <2> QED
    BY <1>12, <2>1 DEF RecordConflicts, Advance
<1>13. ASSUME NEW p \in Policy, CommitConflicts(p) PROVE TypeOK'
  BY <1>13 DEF CommitConflicts, Advance
<1>14. ASSUME NEW p \in Policy, AuditComparison(p) PROVE TypeOK'
  <2>1. audit' \subseteq Policy \X AuditEvent
    <3>1. /\ <<p, "Conflict Detection">> \in Policy \X AuditEvent
          /\ <<p, "Recommendation Generation">> \in Policy \X AuditEvent
      BY DEF AuditEvent
    <3> QED
      BY <1>14, <3>1 DEF AuditComparison
  <2> QED
    BY <1>14, <2>1 DEF AuditComparison, Advance
<1>15. ASSUME NEW p \in Policy, SyncGraph(p) PROVE TypeOK'
  BY <1>15 DEF SyncGraph, Advance
<1>16. ASSUME NEW p \in Policy, DbFailure(p) PROVE TypeOK'
  BY <1>16 DEF DbFailure
<1>17. CASE Crash
  BY <1>17 DEF Crash
<1>18. CASE UNCHANGED vars
  BY <1>18 DEF vars
<1>19. ASSUME NEW p \in Policy, Resegment(p) PROVE TypeOK'
  BY <1>19 DEF Resegment, StoreClauses, ClausesOf
<1>20. ASSUME NEW p \in Policy, MappingFails(p) PROVE TypeOK'
  BY <1>20 DEF MappingFails, Advance
<1>21. ASSUME NEW p \in Policy, SkipPeer(p) PROVE TypeOK'
  BY <1>21 DEF SkipPeer, Advance
<1>22. ASSUME NEW p \in Policy, RecordFewerConflicts(p) PROVE TypeOK'
  <2>1. DetectConflicts(peer[p], p, read[p].a, read[p].b,
                        ObligationsOf(peer[p]), ObligationsOf(p)) \subseteq Conflict
    BY DerivedRows DEF ObligationsOf
  <2> QED
    BY <1>22, <2>1 DEF RecordFewerConflicts, Advance
<1> QED
  BY <1>1, <1>2, <1>3, <1>4, <1>5, <1>6, <1>7, <1>8, <1>9, <1>10, <1>11, <1>12,
     <1>13, <1>14, <1>15, <1>16, <1>17, <1>18, <1>19, <1>20, <1>21, <1>22
     DEF Next, Thread, Failure, HitAbortedTransaction

-----------------------------------------------------------------------------
\* No policy has obligations before its upload ...
LEMMA InitExtraction == Init => ExtractionInv
BY DEF Init, ExtractionInv, ExtractionOf, ObligationsOf, Unread, PastExtraction,
       Extracted

\* ... and every step keeps each extraction between "none yet" and "all there".
LEMMA NextExtraction ==
    TypeOK /\ ExtractionInv /\ TransactionInv /\ [Next]_vars => ExtractionInv'
<1> SUFFICES ASSUME TypeOK, ExtractionInv, TransactionInv, [Next]_vars,
                    NEW r \in Policy
             PROVE  ExtractionOf(r)'
  BY DEF ExtractionInv
<1> USE DEF PastExtraction, Unread, Advance, Extracted, clauseVars, txVars
<1>r. ExtractionOf(r)
  BY DEF ExtractionInv
<1>t. TransactionOf(r)
  BY DEF TransactionInv
<1>c. OwnClauses(r)' = OwnClauses(r)
  BY DEF OwnClauses
<1>n. \A n : ClausesOf(r, n) \subseteq OwnClauses(r)
  BY DEF ClausesOf, OwnClauses
<1>o. ASSUME obligations' = obligations PROVE ObligationsOf(r)' = ObligationsOf(r)
  BY <1>o DEF ObligationsOf
<1>1. ASSUME NEW p \in Policy, Upload(p) PROVE ExtractionOf(r)'
  BY <1>1, <1>r, <1>c, <1>o, <1>n DEF Upload, StoreClauses, ExtractionOf, TypeOK
<1>2. ASSUME NEW p \in Policy, UploadUnsegmented(p) PROVE ExtractionOf(r)'
  BY <1>2, <1>r, <1>c, <1>o DEF UploadUnsegmented, ExtractionOf, TypeOK
<1>3. ASSUME NEW p \in Policy, StartThread(p) PROVE ExtractionOf(r)'
  BY <1>3, <1>r, <1>c, <1>o DEF StartThread, ExtractionOf, TypeOK
<1>4. ASSUME NEW p \in Policy, DeletePolicy(p) PROVE ExtractionOf(r)'
  BY <1>4, <1>r, <1>c, <1>o DEF DeletePolicy, ExtractionOf, TypeOK
<1>5. ASSUME NEW p \in Policy, ReadClauses(p) PROVE ExtractionOf(r)'
  BY <1>5, <1>r, <1>c, <1>o DEF ReadClauses, ExtractionOf, TypeOK
<1>6. ASSUME NEW p \in Policy, StageObligation(p) PROVE ExtractionOf(r)'
  BY <1>6, <1>r, <1>c, <1>o DEF StageObligation, ExtractionOf, TypeOK
<1>7. ASSUME NEW p \in Policy, SeedCommit(p) PROVE ExtractionOf(r)'
  <2>1. staged[p] \subseteq OwnClauses(p)
    BY DEF ExtractionInv, ExtractionOf
  <2>2. CASE p = r
    <3>1. ObligationsOf(r)' = ObligationsOf(r) \cup staged[r]
      BY <1>7, <2>1, <2>2 DEF SeedCommit, ObligationsOf, OwnClauses
    <3> QED
      BY <1>7, <1>r, <1>c, <2>2, <3>1 DEF SeedCommit, ExtractionOf, TypeOK
  <2>3. CASE p # r
    <3>1. ObligationsOf(r)' = ObligationsOf(r)
      BY <1>7, <2>1, <2>3 DEF SeedCommit, ObligationsOf, OwnClauses
    <3> QED
      BY <1>7, <1>r, <1>c, <2>3, <3>1 DEF SeedCommit, ExtractionOf, TypeOK
  <2> QED
    BY <2>2, <2>3
<1>8. ASSUME NEW p \in Policy, FinishExtraction(p) PROVE ExtractionOf(r)'
  <2>1. CASE p = r
    <3>1. /\ ObligationsOf(r) \cup staged[r] = clauses[r]
          /\ \A c, d \in staged[r] : c = d
          /\ staged[r] # {} => "mapping" \in logged[r]
      BY <1>8, <1>r, <1>t, <2>1 DEF FinishExtraction, TransactionOf, ExtractionOf
    <3>2. /\ pc'[r] = "extracted" /\ staged'[r] = {} /\ logged' = logged
          /\ clauses' = clauses /\ ObligationsOf(r)' = ObligationsOf(r)
      BY <1>8, <1>o, <2>1 DEF FinishExtraction, TypeOK
    <3>3. Extracted(r)'
      BY <3>1, <3>2
    <3> HIDE DEF Extracted
    <3> QED
      BY <1>8, <1>r, <1>c, <2>1, <3>2, <3>3 DEF FinishExtraction, ExtractionOf
  <2>2. CASE p # r
    BY <1>8, <1>r, <1>c, <1>o, <2>2 DEF FinishExtraction, ExtractionOf, TypeOK
  <2> QED
    BY <2>1, <2>2
<1>9. ASSUME NEW p \in Policy, AuditExtraction(p) PROVE ExtractionOf(r)'
  BY <1>9, <1>r, <1>c, <1>o DEF AuditExtraction, ExtractionOf, TypeOK
<1>10. ASSUME NEW p \in Policy, SnapshotPeers(p) PROVE ExtractionOf(r)'
  BY <1>10, <1>r, <1>c, <1>o DEF SnapshotPeers, ExtractionOf, TypeOK
<1>11. ASSUME NEW p \in Policy, CompareVersions(p) PROVE ExtractionOf(r)'
  BY <1>11, <1>r, <1>c, <1>o DEF CompareVersions, ExtractionOf, TypeOK
<1>12. ASSUME NEW p \in Policy, RecordConflicts(p) PROVE ExtractionOf(r)'
  BY <1>12, <1>r, <1>c, <1>o DEF RecordConflicts, ExtractionOf, TypeOK
<1>13. ASSUME NEW p \in Policy, CommitConflicts(p) PROVE ExtractionOf(r)'
  BY <1>13, <1>r, <1>c, <1>o DEF CommitConflicts, ExtractionOf, TypeOK
<1>14. ASSUME NEW p \in Policy, AuditComparison(p) PROVE ExtractionOf(r)'
  BY <1>14, <1>r, <1>c, <1>o DEF AuditComparison, ExtractionOf, TypeOK
<1>15. ASSUME NEW p \in Policy, SyncGraph(p) PROVE ExtractionOf(r)'
  BY <1>15, <1>r, <1>c, <1>o DEF SyncGraph, ExtractionOf, TypeOK
<1>16. ASSUME NEW p \in Policy, DbFailure(p) PROVE ExtractionOf(r)'
  BY <1>16, <1>r, <1>c, <1>o DEF DbFailure, Working, ExtractionOf, TypeOK
<1>17. CASE Crash
  BY <1>17, <1>r, <1>c, <1>o DEF Crash, Working, ExtractionOf, TypeOK
<1>18. CASE UNCHANGED vars
  BY <1>18, <1>r, <1>c, <1>o DEF vars, compareVars, ExtractionOf
<1>19. ASSUME NEW p \in Policy, Resegment(p) PROVE ExtractionOf(r)'
  BY <1>19, <1>r, <1>c, <1>o, <1>n DEF Resegment, StoreClauses, ExtractionOf, TypeOK
<1>20. ASSUME NEW p \in Policy, MappingFails(p) PROVE ExtractionOf(r)'
  BY <1>20, <1>r, <1>c, <1>o DEF MappingFails, PassOver, ExtractionOf, TypeOK
<1>21. ASSUME NEW p \in Policy, SkipPeer(p) PROVE ExtractionOf(r)'
  BY <1>21, <1>r, <1>c, <1>o DEF SkipPeer, PassOver, ExtractionOf, TypeOK
<1>22. ASSUME NEW p \in Policy, RecordFewerConflicts(p) PROVE ExtractionOf(r)'
  BY <1>22, <1>r, <1>c, <1>o DEF RecordFewerConflicts, PassOver, ExtractionOf, TypeOK
<1> QED
  BY <1>1, <1>2, <1>3, <1>4, <1>5, <1>6, <1>7, <1>8, <1>9, <1>10, <1>11, <1>12,
     <1>13, <1>14, <1>15, <1>16, <1>17, <1>18, <1>19, <1>20, <1>21, <1>22
     DEF Next, Thread, Failure, HitAbortedTransaction

-----------------------------------------------------------------------------
\* Initially nothing has been segmented ...
LEMMA InitSegmentation == Init => SegmentationInv
<1> SUFFICES ASSUME Init, NEW p \in Policy PROVE SegmentationOfPolicy(p)
  BY DEF SegmentationInv
<1>1. pc[p] = "absent"
  BY DEF Init
<1> QED
  BY <1>1 DEF SegmentationOfPolicy, Unread

\* ... and what is visible, or was read, stays one whole segmentation.
LEMMA NextSegmentation ==
    TypeOK /\ ExtractionInv /\ SegmentationInv /\ [Next]_vars => SegmentationInv'
<1> SUFFICES ASSUME TypeOK, ExtractionInv, SegmentationInv, [Next]_vars,
                    NEW r \in Policy
             PROVE  SegmentationOfPolicy(r)'
  BY DEF SegmentationInv
<1> USE DEF Unread, Advance, Whole, clauseVars
<1>r. SegmentationOfPolicy(r)
  BY DEF SegmentationInv
<1>e. pc[r] = "absent" <=> row[r] = "absent"
  BY DEF ExtractionInv, ExtractionOf
<1>n. \A n : ClausesOf(r, n)' = ClausesOf(r, n)
  BY DEF ClausesOf
<1>1. ASSUME NEW p \in Policy, Upload(p) PROVE SegmentationOfPolicy(r)'
  <2>1. CASE p = r
    <3>1. /\ pc'[r] = "saved" /\ segmentations'[r] = segmentations[r] + 1
          /\ visible'[r] = ClausesOf(r, segmentations'[r])
      BY <1>1, <2>1 DEF Upload, StoreClauses, TypeOK
    <3>2. segmentations'[r] \in 1 .. segmentations'[r]
      BY <3>1 DEF TypeOK
    <3>3. Whole(r, visible[r])'
      BY <1>n, <3>1, <3>2
    <3> QED
      BY <3>1, <3>3 DEF SegmentationOfPolicy
  <2>2. CASE p # r
    BY <1>1, <1>r, <1>n, <2>2 DEF Upload, StoreClauses, SegmentationOfPolicy, TypeOK
  <2> QED
    BY <2>1, <2>2
<1>2. ASSUME NEW p \in Policy, UploadUnsegmented(p) PROVE SegmentationOfPolicy(r)'
  BY <1>2, <1>r, <1>e, <1>n DEF UploadUnsegmented, SegmentationOfPolicy, TypeOK
<1>3. ASSUME NEW p \in Policy, StartThread(p) PROVE SegmentationOfPolicy(r)'
  BY <1>3, <1>r, <1>e, <1>n DEF StartThread, SegmentationOfPolicy, TypeOK
<1>4. ASSUME NEW p \in Policy, DeletePolicy(p) PROVE SegmentationOfPolicy(r)'
  BY <1>4, <1>r, <1>e, <1>n DEF DeletePolicy, SegmentationOfPolicy, TypeOK
<1>5. ASSUME NEW p \in Policy, ReadClauses(p) PROVE SegmentationOfPolicy(r)'
  BY <1>5, <1>r, <1>e, <1>n DEF ReadClauses, SegmentationOfPolicy, TypeOK
<1>6. ASSUME NEW p \in Policy, StageObligation(p) PROVE SegmentationOfPolicy(r)'
  BY <1>6, <1>r, <1>e, <1>n DEF StageObligation, SegmentationOfPolicy, TypeOK
<1>7. ASSUME NEW p \in Policy, SeedCommit(p) PROVE SegmentationOfPolicy(r)'
  BY <1>7, <1>r, <1>e, <1>n DEF SeedCommit, SegmentationOfPolicy, TypeOK
<1>8. ASSUME NEW p \in Policy, FinishExtraction(p) PROVE SegmentationOfPolicy(r)'
  BY <1>8, <1>r, <1>e, <1>n DEF FinishExtraction, SegmentationOfPolicy, TypeOK
<1>9. ASSUME NEW p \in Policy, AuditExtraction(p) PROVE SegmentationOfPolicy(r)'
  BY <1>9, <1>r, <1>e, <1>n DEF AuditExtraction, SegmentationOfPolicy, TypeOK
<1>10. ASSUME NEW p \in Policy, SnapshotPeers(p) PROVE SegmentationOfPolicy(r)'
  BY <1>10, <1>r, <1>e, <1>n DEF SnapshotPeers, SegmentationOfPolicy, TypeOK
<1>11. ASSUME NEW p \in Policy, CompareVersions(p) PROVE SegmentationOfPolicy(r)'
  BY <1>11, <1>r, <1>e, <1>n DEF CompareVersions, SegmentationOfPolicy, TypeOK
<1>12. ASSUME NEW p \in Policy, RecordConflicts(p) PROVE SegmentationOfPolicy(r)'
  BY <1>12, <1>r, <1>e, <1>n DEF RecordConflicts, SegmentationOfPolicy, TypeOK
<1>13. ASSUME NEW p \in Policy, CommitConflicts(p) PROVE SegmentationOfPolicy(r)'
  BY <1>13, <1>r, <1>e, <1>n DEF CommitConflicts, SegmentationOfPolicy, TypeOK
<1>14. ASSUME NEW p \in Policy, AuditComparison(p) PROVE SegmentationOfPolicy(r)'
  BY <1>14, <1>r, <1>e, <1>n DEF AuditComparison, SegmentationOfPolicy, TypeOK
<1>15. ASSUME NEW p \in Policy, SyncGraph(p) PROVE SegmentationOfPolicy(r)'
  BY <1>15, <1>r, <1>e, <1>n DEF SyncGraph, SegmentationOfPolicy, TypeOK
<1>16. ASSUME NEW p \in Policy, DbFailure(p) PROVE SegmentationOfPolicy(r)'
  BY <1>16, <1>r, <1>e, <1>n DEF DbFailure, Working, SegmentationOfPolicy, TypeOK
<1>17. CASE Crash
  BY <1>17, <1>r, <1>e, <1>n DEF Crash, Working, SegmentationOfPolicy, TypeOK
<1>18. CASE UNCHANGED vars
  BY <1>18, <1>r, <1>e, <1>n DEF vars, SegmentationOfPolicy, TypeOK
<1>19. ASSUME NEW p \in Policy, Resegment(p) PROVE SegmentationOfPolicy(r)'
  <2>1. CASE p = r
    <3>1. /\ pc' = pc /\ row' = row /\ clauses' = clauses
          /\ segmentations'[r] = segmentations[r] + 1
          /\ visible'[r] = ClausesOf(r, segmentations'[r])
      BY <1>19, <2>1 DEF Resegment, StoreClauses, TypeOK
    <3>2. /\ segmentations'[r] \in 1 .. segmentations'[r]
          /\ 1 .. segmentations[r] \subseteq 1 .. segmentations'[r]
      BY <3>1 DEF TypeOK
    <3>3. Whole(r, visible[r])'
      BY <1>n, <3>1, <3>2
    <3>4. Whole(r, clauses[r]) => Whole(r, clauses[r])'
      BY <1>n, <3>1, <3>2
    <3> QED
      BY <1>r, <3>1, <3>3, <3>4 DEF SegmentationOfPolicy
  <2>2. CASE p # r
    BY <1>19, <1>r, <1>n, <2>2 DEF Resegment, StoreClauses, SegmentationOfPolicy, TypeOK
  <2> QED
    BY <2>1, <2>2
<1>20. ASSUME NEW p \in Policy, MappingFails(p) PROVE SegmentationOfPolicy(r)'
  BY <1>20, <1>r, <1>e, <1>n DEF MappingFails, SegmentationOfPolicy, TypeOK
<1>21. ASSUME NEW p \in Policy, SkipPeer(p) PROVE SegmentationOfPolicy(r)'
  BY <1>21, <1>r, <1>e, <1>n DEF SkipPeer, SegmentationOfPolicy, TypeOK
<1>22. ASSUME NEW p \in Policy, RecordFewerConflicts(p) PROVE SegmentationOfPolicy(r)'
  BY <1>22, <1>r, <1>e, <1>n DEF RecordFewerConflicts, SegmentationOfPolicy, TypeOK
<1> QED
  BY <1>1, <1>2, <1>3, <1>4, <1>5, <1>6, <1>7, <1>8, <1>9, <1>10, <1>11, <1>12,
     <1>13, <1>14, <1>15, <1>16, <1>17, <1>18, <1>19, <1>20, <1>21, <1>22
     DEF Next, Thread, Failure, HitAbortedTransaction

-----------------------------------------------------------------------------
\* A transaction is aborted only by a failure that is logged, and no later than
\* the commit after the loop.
LEMMA NextTransaction ==
    TypeOK /\ TransactionInv /\ [Next]_vars => TransactionInv'
<1> SUFFICES ASSUME TypeOK, TransactionInv, [Next]_vars, NEW r \in Policy
             PROVE  TransactionOf(r)'
  BY DEF TransactionInv
<1> USE DEF Snapped, Advance, PassOver, Healthy, txVars
<1>r. TransactionOf(r)
  BY DEF TransactionInv
<1>1. ASSUME NEW p \in Policy, Upload(p) PROVE TransactionOf(r)'
  BY <1>1, <1>r DEF Upload, TransactionOf, TypeOK
<1>2. ASSUME NEW p \in Policy, UploadUnsegmented(p) PROVE TransactionOf(r)'
  BY <1>2, <1>r DEF UploadUnsegmented, TransactionOf, TypeOK
<1>3. ASSUME NEW p \in Policy, StartThread(p) PROVE TransactionOf(r)'
  BY <1>3, <1>r DEF StartThread, TransactionOf, TypeOK
<1>4. ASSUME NEW p \in Policy, DeletePolicy(p) PROVE TransactionOf(r)'
  BY <1>4, <1>r DEF DeletePolicy, TransactionOf, TypeOK
<1>5. ASSUME NEW p \in Policy, ReadClauses(p) PROVE TransactionOf(r)'
  BY <1>5, <1>r DEF ReadClauses, TransactionOf, TypeOK
<1>6. ASSUME NEW p \in Policy, StageObligation(p) PROVE TransactionOf(r)'
  BY <1>6, <1>r DEF StageObligation, TransactionOf, TypeOK
<1>7. ASSUME NEW p \in Policy, SeedCommit(p) PROVE TransactionOf(r)'
  BY <1>7, <1>r DEF SeedCommit, TransactionOf, TypeOK
<1>8. ASSUME NEW p \in Policy, FinishExtraction(p) PROVE TransactionOf(r)'
  BY <1>8, <1>r DEF FinishExtraction, TransactionOf, TypeOK
<1>9. ASSUME NEW p \in Policy, AuditExtraction(p) PROVE TransactionOf(r)'
  BY <1>9, <1>r DEF AuditExtraction, TransactionOf, TypeOK
<1>10. ASSUME NEW p \in Policy, SnapshotPeers(p) PROVE TransactionOf(r)'
  BY <1>10, <1>r DEF SnapshotPeers, TransactionOf, TypeOK
<1>11. ASSUME NEW p \in Policy, CompareVersions(p) PROVE TransactionOf(r)'
  BY <1>11, <1>r DEF CompareVersions, TransactionOf, TypeOK
<1>12. ASSUME NEW p \in Policy, RecordConflicts(p) PROVE TransactionOf(r)'
  BY <1>12, <1>r DEF RecordConflicts, TransactionOf, TypeOK
<1>13. ASSUME NEW p \in Policy, CommitConflicts(p) PROVE TransactionOf(r)'
  BY <1>13, <1>r DEF CommitConflicts, TransactionOf, TypeOK
<1>14. ASSUME NEW p \in Policy, AuditComparison(p) PROVE TransactionOf(r)'
  BY <1>14, <1>r DEF AuditComparison, TransactionOf, TypeOK
<1>15. ASSUME NEW p \in Policy, SyncGraph(p) PROVE TransactionOf(r)'
  BY <1>15, <1>r DEF SyncGraph, TransactionOf, TypeOK
<1>16. ASSUME NEW p \in Policy, DbFailure(p) PROVE TransactionOf(r)'
  BY <1>16, <1>r DEF DbFailure, TransactionOf, TypeOK, Working
<1>17. CASE Crash
  BY <1>17, <1>r DEF Crash, Working, TransactionOf, TypeOK
<1>18. CASE UNCHANGED vars
  BY <1>18, <1>r DEF vars, TransactionOf, TypeOK
<1>19. ASSUME NEW p \in Policy, Resegment(p) PROVE TransactionOf(r)'
  BY <1>19, <1>r DEF Resegment, TransactionOf, TypeOK
<1>20. ASSUME NEW p \in Policy, MappingFails(p) PROVE TransactionOf(r)'
  BY <1>20, <1>r DEF MappingFails, TransactionOf, TypeOK
<1>21. ASSUME NEW p \in Policy, SkipPeer(p) PROVE TransactionOf(r)'
  BY <1>21, <1>r DEF SkipPeer, TransactionOf, TypeOK
<1>22. ASSUME NEW p \in Policy, RecordFewerConflicts(p) PROVE TransactionOf(r)'
  BY <1>22, <1>r DEF RecordFewerConflicts, TransactionOf, TypeOK
<1> QED
  BY <1>1, <1>2, <1>3, <1>4, <1>5, <1>6, <1>7, <1>8, <1>9, <1>10, <1>11, <1>12,
     <1>13, <1>14, <1>15, <1>16, <1>17, <1>18, <1>19, <1>20, <1>21, <1>22
     DEF Next, Thread, Failure, HitAbortedTransaction

\* Audit rows appear only at the stages that write them.
LEMMA NextAudit == TypeOK /\ AuditInv /\ [Next]_vars => AuditInv'
<1> SUFFICES ASSUME TypeOK, AuditInv, [Next]_vars, NEW r \in Policy
             PROVE  AuditOf(r)'
  BY DEF AuditInv
<1> USE DEF PastExtraction, Advance
<1>r. AuditOf(r)
  BY DEF AuditInv
<1>1. ASSUME NEW p \in Policy, Upload(p) PROVE AuditOf(r)'
  BY <1>1, <1>r DEF Upload, AuditOf, Audited, TypeOK
<1>2. ASSUME NEW p \in Policy, UploadUnsegmented(p) PROVE AuditOf(r)'
  BY <1>2, <1>r DEF UploadUnsegmented, AuditOf, Audited, TypeOK
<1>3. ASSUME NEW p \in Policy, StartThread(p) PROVE AuditOf(r)'
  BY <1>3, <1>r DEF StartThread, AuditOf, Audited, TypeOK
<1>4. ASSUME NEW p \in Policy, DeletePolicy(p) PROVE AuditOf(r)'
  BY <1>4, <1>r DEF DeletePolicy, AuditOf, Audited, TypeOK
<1>5. ASSUME NEW p \in Policy, ReadClauses(p) PROVE AuditOf(r)'
  BY <1>5, <1>r DEF ReadClauses, AuditOf, Audited, TypeOK
<1>6. ASSUME NEW p \in Policy, StageObligation(p) PROVE AuditOf(r)'
  BY <1>6, <1>r DEF StageObligation, AuditOf, Audited, TypeOK
<1>7. ASSUME NEW p \in Policy, SeedCommit(p) PROVE AuditOf(r)'
  BY <1>7, <1>r DEF SeedCommit, AuditOf, Audited, TypeOK
<1>8. ASSUME NEW p \in Policy, FinishExtraction(p) PROVE AuditOf(r)'
  BY <1>8, <1>r DEF FinishExtraction, AuditOf, Audited, TypeOK
<1>9. ASSUME NEW p \in Policy, AuditExtraction(p) PROVE AuditOf(r)'
  BY <1>9, <1>r DEF AuditExtraction, AuditOf, Audited, TypeOK
<1>10. ASSUME NEW p \in Policy, SnapshotPeers(p) PROVE AuditOf(r)'
  BY <1>10, <1>r DEF SnapshotPeers, AuditOf, Audited, TypeOK
<1>11. ASSUME NEW p \in Policy, CompareVersions(p) PROVE AuditOf(r)'
  BY <1>11, <1>r DEF CompareVersions, AuditOf, Audited, TypeOK
<1>12. ASSUME NEW p \in Policy, RecordConflicts(p) PROVE AuditOf(r)'
  BY <1>12, <1>r DEF RecordConflicts, AuditOf, Audited, TypeOK
<1>13. ASSUME NEW p \in Policy, CommitConflicts(p) PROVE AuditOf(r)'
  BY <1>13, <1>r DEF CommitConflicts, AuditOf, Audited, TypeOK
<1>14. ASSUME NEW p \in Policy, AuditComparison(p) PROVE AuditOf(r)'
  BY <1>14, <1>r DEF AuditComparison, AuditOf, Audited, TypeOK
<1>15. ASSUME NEW p \in Policy, SyncGraph(p) PROVE AuditOf(r)'
  BY <1>15, <1>r DEF SyncGraph, AuditOf, Audited, TypeOK
<1>16. ASSUME NEW p \in Policy, DbFailure(p) PROVE AuditOf(r)'
  BY <1>16, <1>r DEF DbFailure, AuditOf, Audited, TypeOK, Working
<1>17. CASE Crash
  BY <1>17, <1>r DEF Crash, Working, AuditOf, Audited, TypeOK
<1>18. CASE UNCHANGED vars
  BY <1>18, <1>r DEF vars, AuditOf, Audited, TypeOK
<1>19. ASSUME NEW p \in Policy, Resegment(p) PROVE AuditOf(r)'
  BY <1>19, <1>r DEF Resegment, AuditOf, Audited, TypeOK
<1>20. ASSUME NEW p \in Policy, MappingFails(p) PROVE AuditOf(r)'
  BY <1>20, <1>r DEF MappingFails, AuditOf, Audited, TypeOK
<1>21. ASSUME NEW p \in Policy, SkipPeer(p) PROVE AuditOf(r)'
  BY <1>21, <1>r DEF SkipPeer, AuditOf, Audited, TypeOK
<1>22. ASSUME NEW p \in Policy, RecordFewerConflicts(p) PROVE AuditOf(r)'
  BY <1>22, <1>r DEF RecordFewerConflicts, AuditOf, Audited, TypeOK
<1> QED
  BY <1>1, <1>2, <1>3, <1>4, <1>5, <1>6, <1>7, <1>8, <1>9, <1>10, <1>11, <1>12,
     <1>13, <1>14, <1>15, <1>16, <1>17, <1>18, <1>19, <1>20, <1>21, <1>22
     DEF Next, Thread, Failure, HitAbortedTransaction

-----------------------------------------------------------------------------
\* No step removes an obligation, and only the thread of p, in its extraction
\* loop, adds one to p.
LEMMA ObligationsGrow == 
    TypeOK /\ ExtractionInv /\ [Next]_vars =>
        \A p \in Policy :
            /\ ObligationsOf(p) \subseteq ObligationsOf(p)'
            /\ pc[p] # "extract" => ObligationsOf(p)' = ObligationsOf(p)
<1> SUFFICES ASSUME TypeOK, ExtractionInv, [Next]_vars, NEW r \in Policy
             PROVE  /\ ObligationsOf(r) \subseteq ObligationsOf(r)'
                    /\ pc[r] # "extract" => ObligationsOf(r)' = ObligationsOf(r)
  OBVIOUS
<1> DEFINE Goal == /\ ObligationsOf(r) \subseteq ObligationsOf(r)'
                   /\ pc[r] # "extract" => ObligationsOf(r)' = ObligationsOf(r)
<1>same. ASSUME obligations' = obligations PROVE Goal
  BY <1>same DEF ObligationsOf
<1>1. ASSUME NEW p \in Policy, Upload(p) PROVE Goal
  BY <1>1, <1>same DEF Upload, ObligationsOf
<1>2. ASSUME NEW p \in Policy, UploadUnsegmented(p) PROVE Goal
  BY <1>2, <1>same DEF UploadUnsegmented, ObligationsOf
<1>3. ASSUME NEW p \in Policy, StartThread(p) PROVE Goal
  BY <1>3, <1>same DEF StartThread, ObligationsOf
<1>4. ASSUME NEW p \in Policy, DeletePolicy(p) PROVE Goal
  BY <1>4, <1>same DEF DeletePolicy, ObligationsOf
<1>5. ASSUME NEW p \in Policy, ReadClauses(p) PROVE Goal
  BY <1>5, <1>same DEF ReadClauses, ObligationsOf
<1>6. ASSUME NEW p \in Policy, StageObligation(p) PROVE Goal
  BY <1>6, <1>same DEF StageObligation, ObligationsOf
<1>7. ASSUME NEW p \in Policy, SeedCommit(p) PROVE Goal
  <2>1. staged[p] \subseteq OwnClauses(p)
    BY DEF ExtractionInv, ExtractionOf
  <2> QED
    BY <1>7, <2>1 DEF SeedCommit, Advance, ObligationsOf, OwnClauses
<1>8. ASSUME NEW p \in Policy, FinishExtraction(p) PROVE Goal
  BY <1>8, <1>same DEF FinishExtraction, ObligationsOf
<1>9. ASSUME NEW p \in Policy, AuditExtraction(p) PROVE Goal
  BY <1>9, <1>same DEF AuditExtraction, ObligationsOf
<1>10. ASSUME NEW p \in Policy, SnapshotPeers(p) PROVE Goal
  BY <1>10, <1>same DEF SnapshotPeers, ObligationsOf
<1>11. ASSUME NEW p \in Policy, CompareVersions(p) PROVE Goal
  BY <1>11, <1>same DEF CompareVersions, ObligationsOf
<1>12. ASSUME NEW p \in Policy, RecordConflicts(p) PROVE Goal
  BY <1>12, <1>same DEF RecordConflicts, ObligationsOf
<1>13. ASSUME NEW p \in Policy, CommitConflicts(p) PROVE Goal
  BY <1>13, <1>same DEF CommitConflicts, ObligationsOf
<1>14. ASSUME NEW p \in Policy, AuditComparison(p) PROVE Goal
  BY <1>14, <1>same DEF AuditComparison, ObligationsOf
<1>15. ASSUME NEW p \in Policy, SyncGraph(p) PROVE Goal
  BY <1>15, <1>same DEF SyncGraph, ObligationsOf
<1>16. ASSUME NEW p \in Policy, DbFailure(p) PROVE Goal
  BY <1>16, <1>same DEF DbFailure, ObligationsOf, Working
<1>17. CASE Crash
  BY <1>17, <1>same DEF Crash, Working, ObligationsOf
<1>18. CASE UNCHANGED vars
  BY <1>18, <1>same DEF vars, ObligationsOf
<1>19. ASSUME NEW p \in Policy, Resegment(p) PROVE Goal
  BY <1>19, <1>same DEF Resegment, ObligationsOf
<1>20. ASSUME NEW p \in Policy, MappingFails(p) PROVE Goal
  BY <1>20, <1>same DEF MappingFails, ObligationsOf
<1>21. ASSUME NEW p \in Policy, SkipPeer(p) PROVE Goal
  BY <1>21, <1>same DEF SkipPeer, ObligationsOf
<1>22. ASSUME NEW p \in Policy, RecordFewerConflicts(p) PROVE Goal
  BY <1>22, <1>same DEF RecordFewerConflicts, ObligationsOf
<1> QED
  BY <1>1, <1>2, <1>3, <1>4, <1>5, <1>6, <1>7, <1>8, <1>9, <1>10, <1>11, <1>12,
     <1>13, <1>14, <1>15, <1>16, <1>17, <1>18, <1>19, <1>20, <1>21, <1>22
     DEF Next, Thread, Failure, HitAbortedTransaction

-----------------------------------------------------------------------------
\* The loop over the peers keeps to other policies of the company.
LEMMA NextLoop == TypeOK /\ ComparisonInv /\ [Next]_vars => \A r \in Policy : LoopOf(r)'
<1> SUFFICES ASSUME TypeOK, ComparisonInv, [Next]_vars, NEW r \in Policy
             PROVE  LoopOf(r)'
  OBVIOUS
<1> USE DEF Snapped, Committed, Advance, clauseVars, compareVars, SameCompany
<1>r. LoopOf(r)
  BY DEF ComparisonInv
<1>1. ASSUME NEW p \in Policy, Upload(p) PROVE LoopOf(r)'
  BY <1>1, <1>r DEF Upload, LoopOf, TypeOK
<1>2. ASSUME NEW p \in Policy, UploadUnsegmented(p) PROVE LoopOf(r)'
  BY <1>2, <1>r DEF UploadUnsegmented, LoopOf, TypeOK
<1>3. ASSUME NEW p \in Policy, StartThread(p) PROVE LoopOf(r)'
  BY <1>3, <1>r DEF StartThread, LoopOf, TypeOK
<1>4. ASSUME NEW p \in Policy, DeletePolicy(p) PROVE LoopOf(r)'
  BY <1>4, <1>r DEF DeletePolicy, LoopOf, TypeOK
<1>5. ASSUME NEW p \in Policy, ReadClauses(p) PROVE LoopOf(r)'
  BY <1>5, <1>r DEF ReadClauses, LoopOf, TypeOK
<1>6. ASSUME NEW p \in Policy, StageObligation(p) PROVE LoopOf(r)'
  BY <1>6, <1>r DEF StageObligation, LoopOf, TypeOK
<1>7. ASSUME NEW p \in Policy, SeedCommit(p) PROVE LoopOf(r)'
  BY <1>7, <1>r DEF SeedCommit, LoopOf, TypeOK
<1>8. ASSUME NEW p \in Policy, FinishExtraction(p) PROVE LoopOf(r)'
  BY <1>8, <1>r DEF FinishExtraction, LoopOf, TypeOK
<1>9. ASSUME NEW p \in Policy, AuditExtraction(p) PROVE LoopOf(r)'
  BY <1>9, <1>r DEF AuditExtraction, LoopOf, TypeOK
<1>10. ASSUME NEW p \in Policy, SnapshotPeers(p) PROVE LoopOf(r)'
  BY <1>10, <1>r DEF SnapshotPeers, ActivePeers, LoopOf, SameCompany, TypeOK
<1>11. ASSUME NEW p \in Policy, CompareVersions(p) PROVE LoopOf(r)'
  BY <1>11, <1>r DEF CompareVersions, LoopOf, SameCompany, TypeOK
<1>12. ASSUME NEW p \in Policy, RecordConflicts(p) PROVE LoopOf(r)'
  BY <1>12, <1>r DEF RecordConflicts, LoopOf, TypeOK
<1>13. ASSUME NEW p \in Policy, CommitConflicts(p) PROVE LoopOf(r)'
  BY <1>13, <1>r DEF CommitConflicts, LoopOf, TypeOK
<1>14. ASSUME NEW p \in Policy, AuditComparison(p) PROVE LoopOf(r)'
  BY <1>14, <1>r DEF AuditComparison, LoopOf, TypeOK
<1>15. ASSUME NEW p \in Policy, SyncGraph(p) PROVE LoopOf(r)'
  BY <1>15, <1>r DEF SyncGraph, LoopOf, TypeOK
<1>16. ASSUME NEW p \in Policy, DbFailure(p) PROVE LoopOf(r)'
  BY <1>16, <1>r DEF DbFailure, LoopOf, TypeOK, Working
<1>17. CASE Crash
  BY <1>17, <1>r DEF Crash, Working, LoopOf, TypeOK
<1>18. CASE UNCHANGED vars
  BY <1>18, <1>r DEF vars, LoopOf, TypeOK
<1>19. ASSUME NEW p \in Policy, Resegment(p) PROVE LoopOf(r)'
  BY <1>19, <1>r DEF Resegment, LoopOf, TypeOK
<1>20. ASSUME NEW p \in Policy, MappingFails(p) PROVE LoopOf(r)'
  BY <1>20, <1>r DEF MappingFails, LoopOf, TypeOK
<1>21. ASSUME NEW p \in Policy, SkipPeer(p) PROVE LoopOf(r)'
  BY <1>21, <1>r DEF SkipPeer, LoopOf, TypeOK
<1>22. ASSUME NEW p \in Policy, RecordFewerConflicts(p) PROVE LoopOf(r)'
  BY <1>22, <1>r DEF RecordFewerConflicts, LoopOf, TypeOK
<1> QED
  BY <1>1, <1>2, <1>3, <1>4, <1>5, <1>6, <1>7, <1>8, <1>9, <1>10, <1>11, <1>12,
     <1>13, <1>14, <1>15, <1>16, <1>17, <1>18, <1>19, <1>20, <1>21, <1>22
     DEF Next, Thread, Failure, HitAbortedTransaction

\* What compare_versions read stays a part of what is stored.
LEMMA NextRead == 
    TypeOK /\ ExtractionInv /\ ComparisonInv /\ [Next]_vars =>
        \A r \in Policy : ReadOf(r)'

<1> SUFFICES ASSUME TypeOK, ExtractionInv, ComparisonInv, [Next]_vars, NEW r \in Policy
             PROVE  ReadOf(r)'
  OBVIOUS
<1> USE DEF Advance, clauseVars, compareVars
<1>r. ReadOf(r)
  BY DEF ComparisonInv
<1>g. /\ \A q \in Policy : ObligationsOf(q) \subseteq ObligationsOf(q)'
      /\ pc[r] # "extract" => ObligationsOf(r)' = ObligationsOf(r)
  BY ObligationsGrow
<1>1. ASSUME NEW p \in Policy, Upload(p) PROVE ReadOf(r)'
  BY <1>1, <1>r, <1>g DEF Upload, ReadOf, TypeOK
<1>2. ASSUME NEW p \in Policy, UploadUnsegmented(p) PROVE ReadOf(r)'
  BY <1>2, <1>r, <1>g DEF UploadUnsegmented, ReadOf, TypeOK
<1>3. ASSUME NEW p \in Policy, StartThread(p) PROVE ReadOf(r)'
  BY <1>3, <1>r, <1>g DEF StartThread, ReadOf, TypeOK
<1>4. ASSUME NEW p \in Policy, DeletePolicy(p) PROVE ReadOf(r)'
  BY <1>4, <1>r, <1>g DEF DeletePolicy, ReadOf, TypeOK
<1>5. ASSUME NEW p \in Policy, ReadClauses(p) PROVE ReadOf(r)'
  BY <1>5, <1>r, <1>g DEF ReadClauses, ReadOf, TypeOK
<1>6. ASSUME NEW p \in Policy, StageObligation(p) PROVE ReadOf(r)'
  BY <1>6, <1>r, <1>g DEF StageObligation, ReadOf, TypeOK
<1>7. ASSUME NEW p \in Policy, SeedCommit(p) PROVE ReadOf(r)'
  BY <1>7, <1>r, <1>g DEF SeedCommit, ReadOf, TypeOK
<1>8. ASSUME NEW p \in Policy, FinishExtraction(p) PROVE ReadOf(r)'
  BY <1>8, <1>r, <1>g DEF FinishExtraction, ReadOf, TypeOK
<1>9. ASSUME NEW p \in Policy, AuditExtraction(p) PROVE ReadOf(r)'
  BY <1>9, <1>r, <1>g DEF AuditExtraction, ReadOf, TypeOK
<1>10. ASSUME NEW p \in Policy, SnapshotPeers(p) PROVE ReadOf(r)'
  BY <1>10, <1>r, <1>g DEF SnapshotPeers, ReadOf, TypeOK
<1>11. ASSUME NEW p \in Policy, CompareVersions(p) PROVE ReadOf(r)'
  <2>1. CASE p = r
    <3>1. PICK q \in peers[p] : /\ peer' = [peer EXCEPT ![p] = q]
                                /\ read' = [read EXCEPT ![p] =
                                      [a |-> ObligationsOf(q), b |-> ObligationsOf(p)]]
      BY <1>11 DEF CompareVersions
    <3>2. \A x \in Policy : ObligationsOf(x)' = ObligationsOf(x)
      BY <1>11 DEF CompareVersions, ObligationsOf
    <3>3. /\ peer'[r] = q /\ q \in Policy
          /\ read'[r].a = ObligationsOf(q) /\ read'[r].b = ObligationsOf(r)
      BY <2>1, <3>1 DEF TypeOK
    <3> QED
      BY <3>2, <3>3 DEF ReadOf
  <2>2. CASE p # r
    BY <1>11, <1>r, <1>g, <2>2 DEF CompareVersions, ReadOf, TypeOK
  <2> QED
    BY <2>1, <2>2
<1>12. ASSUME NEW p \in Policy, RecordConflicts(p) PROVE ReadOf(r)'
  BY <1>12, <1>r, <1>g DEF RecordConflicts, ReadOf, TypeOK
<1>13. ASSUME NEW p \in Policy, CommitConflicts(p) PROVE ReadOf(r)'
  BY <1>13, <1>r, <1>g DEF CommitConflicts, ReadOf, TypeOK
<1>14. ASSUME NEW p \in Policy, AuditComparison(p) PROVE ReadOf(r)'
  BY <1>14, <1>r, <1>g DEF AuditComparison, ReadOf, TypeOK
<1>15. ASSUME NEW p \in Policy, SyncGraph(p) PROVE ReadOf(r)'
  BY <1>15, <1>r, <1>g DEF SyncGraph, ReadOf, TypeOK
<1>16. ASSUME NEW p \in Policy, DbFailure(p) PROVE ReadOf(r)'
  BY <1>16, <1>r, <1>g DEF DbFailure, ReadOf, TypeOK, Working
<1>17. CASE Crash
  BY <1>17, <1>r, <1>g DEF Crash, Working, ReadOf, TypeOK
<1>18. CASE UNCHANGED vars
  BY <1>18, <1>r, <1>g DEF vars, ReadOf, TypeOK
<1>19. ASSUME NEW p \in Policy, Resegment(p) PROVE ReadOf(r)'
  BY <1>19, <1>r, <1>g DEF Resegment, ReadOf, TypeOK
<1>20. ASSUME NEW p \in Policy, MappingFails(p) PROVE ReadOf(r)'
  BY <1>20, <1>r, <1>g DEF MappingFails, ReadOf, TypeOK
<1>21. ASSUME NEW p \in Policy, SkipPeer(p) PROVE ReadOf(r)'
  BY <1>21, <1>r, <1>g DEF SkipPeer, ReadOf, TypeOK
<1>22. ASSUME NEW p \in Policy, RecordFewerConflicts(p) PROVE ReadOf(r)'
  BY <1>22, <1>r, <1>g DEF RecordFewerConflicts, ReadOf, TypeOK
<1> QED
  BY <1>1, <1>2, <1>3, <1>4, <1>5, <1>6, <1>7, <1>8, <1>9, <1>10, <1>11, <1>12,
     <1>13, <1>14, <1>15, <1>16, <1>17, <1>18, <1>19, <1>20, <1>21, <1>22
     DEF Next, Thread, Failure, HitAbortedTransaction

\* What the thread of p recorded stays well founded: the obligations a row
\* cites are never removed.
LEMMA WellFoundedStays ==
    ASSUME TypeOK, ExtractionInv, [Next]_vars, NEW p \in Policy, NEW c,
           WellFounded(p, c)
    PROVE  WellFounded(p, c)'
BY ObligationsGrow DEF WellFounded, SameCompany

\* The rows a session has collected stay well founded.
LEMMA NextFound == 
    TypeOK /\ ExtractionInv /\ ComparisonInv /\ [Next]_vars =>
        \A r \in Policy : FoundOf(r)'

<1> SUFFICES ASSUME TypeOK, ExtractionInv, ComparisonInv, [Next]_vars, NEW r \in Policy
             PROVE  FoundOf(r)'
  OBVIOUS
<1> USE DEF Advance, clauseVars, compareVars
<1>r. FoundOf(r)
  BY DEF ComparisonInv
<1>w. \A c \in found[r] : WellFounded(r, c)'
  BY <1>r, WellFoundedStays DEF FoundOf
<1>1. ASSUME NEW p \in Policy, Upload(p) PROVE FoundOf(r)'
  BY <1>1, <1>r, <1>w DEF Upload, FoundOf, TypeOK
<1>2. ASSUME NEW p \in Policy, UploadUnsegmented(p) PROVE FoundOf(r)'
  BY <1>2, <1>r, <1>w DEF UploadUnsegmented, FoundOf, TypeOK
<1>3. ASSUME NEW p \in Policy, StartThread(p) PROVE FoundOf(r)'
  BY <1>3, <1>r, <1>w DEF StartThread, FoundOf, TypeOK
<1>4. ASSUME NEW p \in Policy, DeletePolicy(p) PROVE FoundOf(r)'
  BY <1>4, <1>r, <1>w DEF DeletePolicy, FoundOf, TypeOK
<1>5. ASSUME NEW p \in Policy, ReadClauses(p) PROVE FoundOf(r)'
  BY <1>5, <1>r, <1>w DEF ReadClauses, FoundOf, TypeOK
<1>6. ASSUME NEW p \in Policy, StageObligation(p) PROVE FoundOf(r)'
  BY <1>6, <1>r, <1>w DEF StageObligation, FoundOf, TypeOK
<1>7. ASSUME NEW p \in Policy, SeedCommit(p) PROVE FoundOf(r)'
  BY <1>7, <1>r, <1>w DEF SeedCommit, FoundOf, TypeOK
<1>8. ASSUME NEW p \in Policy, FinishExtraction(p) PROVE FoundOf(r)'
  BY <1>8, <1>r, <1>w DEF FinishExtraction, FoundOf, TypeOK
<1>9. ASSUME NEW p \in Policy, AuditExtraction(p) PROVE FoundOf(r)'
  BY <1>9, <1>r, <1>w DEF AuditExtraction, FoundOf, TypeOK
<1>10. ASSUME NEW p \in Policy, SnapshotPeers(p) PROVE FoundOf(r)'
  <2>1. found[p] = {}
    BY <1>10 DEF SnapshotPeers, ComparisonInv, LoopOf, Snapped
  <2> QED
    BY <1>10, <1>r, <1>w, <2>1 DEF SnapshotPeers, FoundOf, TypeOK
<1>11. ASSUME NEW p \in Policy, CompareVersions(p) PROVE FoundOf(r)'
  BY <1>11, <1>r, <1>w DEF CompareVersions, FoundOf, TypeOK
<1>12. ASSUME NEW p \in Policy, RecordConflicts(p) PROVE FoundOf(r)'
  <2> DEFINE q == peer[p]
             new == DetectConflicts(q, p, read[p].a, read[p].b,
                                    ObligationsOf(q), ObligationsOf(p))
  <2>1. q # p /\ SameCompany(q, p) /\ q \notin peers[p]
    BY <1>12 DEF RecordConflicts, ComparisonInv, LoopOf
  <2>2. \A x \in Policy : ObligationsOf(x)' = ObligationsOf(x)
    BY <1>12 DEF RecordConflicts, ObligationsOf
  <2>3. ASSUME NEW c \in new PROVE WellFounded(p, c)' /\ c.source = q
    <3>1. /\ c.source = q /\ c.target = p
          /\ c.a # NoClause => c.a \in ObligationsOf(q)
          /\ c.b # NoClause => c.b \in ObligationsOf(p)
          /\ c.a # NoClause \/ c.b # NoClause
      <4>1. /\ q \in Policy /\ read[p].a \in SUBSET Clause
            /\ read[p].b \in SUBSET Clause
            /\ ObligationsOf(q) \in SUBSET Clause
            /\ ObligationsOf(p) \in SUBSET Clause
        BY DEF TypeOK, ObligationsOf
      <4> QED
        BY <4>1, DerivedRows
    <3> QED
      BY <2>1, <2>2, <3>1 DEF WellFounded, TypeOK
  <2>4. CASE p = r
    <3>1. found'[r] = found[r] \cup new /\ peers' = peers /\ pc'[r] = "peers"
      BY <1>12, <2>4 DEF RecordConflicts, TypeOK
    <3> HIDE DEF new
    <3> QED
      BY <1>r, <1>w, <2>1, <2>3, <2>4, <3>1 DEF FoundOf
  <2>5. CASE p # r
    BY <1>12, <1>r, <1>w, <2>5 DEF RecordConflicts, FoundOf, TypeOK
  <2> QED
    BY <2>4, <2>5
<1>13. ASSUME NEW p \in Policy, CommitConflicts(p) PROVE FoundOf(r)'
  BY <1>13, <1>r, <1>w DEF CommitConflicts, FoundOf, TypeOK
<1>14. ASSUME NEW p \in Policy, AuditComparison(p) PROVE FoundOf(r)'
  BY <1>14, <1>r, <1>w DEF AuditComparison, FoundOf, TypeOK
<1>15. ASSUME NEW p \in Policy, SyncGraph(p) PROVE FoundOf(r)'
  BY <1>15, <1>r, <1>w DEF SyncGraph, FoundOf, TypeOK
<1>16. ASSUME NEW p \in Policy, DbFailure(p) PROVE FoundOf(r)'
  BY <1>16, <1>r, <1>w DEF DbFailure, FoundOf, TypeOK, Working
<1>17. CASE Crash
  BY <1>17, <1>r, <1>w DEF Crash, Working, FoundOf, TypeOK
<1>18. CASE UNCHANGED vars
  BY <1>18, <1>r, <1>w DEF vars, FoundOf, TypeOK
<1>19. ASSUME NEW p \in Policy, Resegment(p) PROVE FoundOf(r)'
  BY <1>19, <1>r, <1>w DEF Resegment, FoundOf, TypeOK
<1>20. ASSUME NEW p \in Policy, MappingFails(p) PROVE FoundOf(r)'
  BY <1>20, <1>r, <1>w DEF MappingFails, FoundOf, TypeOK
<1>21. ASSUME NEW p \in Policy, SkipPeer(p) PROVE FoundOf(r)'
  BY <1>21, <1>r, <1>w DEF SkipPeer, FoundOf, TypeOK
<1>22. ASSUME NEW p \in Policy, RecordFewerConflicts(p) PROVE FoundOf(r)'
  <2> DEFINE q == peer[p]
             new == DetectConflicts(q, p, read[p].a, read[p].b,
                                    ObligationsOf(q), ObligationsOf(p))
  <2>1. q # p /\ SameCompany(q, p) /\ q \notin peers[p]
    BY <1>22 DEF RecordFewerConflicts, ComparisonInv, LoopOf
  <2>2. \A x \in Policy : ObligationsOf(x)' = ObligationsOf(x)
    BY <1>22 DEF RecordFewerConflicts, ObligationsOf
  <2>3. ASSUME NEW c \in new PROVE WellFounded(p, c)' /\ c.source = q
    <3>1. /\ c.source = q /\ c.target = p
          /\ c.a # NoClause => c.a \in ObligationsOf(q)
          /\ c.b # NoClause => c.b \in ObligationsOf(p)
          /\ c.a # NoClause \/ c.b # NoClause
      <4>1. /\ q \in Policy /\ read[p].a \in SUBSET Clause
            /\ read[p].b \in SUBSET Clause
            /\ ObligationsOf(q) \in SUBSET Clause
            /\ ObligationsOf(p) \in SUBSET Clause
        BY DEF TypeOK, ObligationsOf
      <4> QED
        BY <4>1, DerivedRows
    <3> QED
      BY <2>1, <2>2, <3>1 DEF WellFounded, TypeOK
  <2>4. CASE p = r
    <3>1. /\ \E some \in SUBSET new : found'[r] = found[r] \cup some
          /\ peers' = peers /\ pc'[r] = "peers"
      <4>1. PICK some \in SUBSET new : found' = [found EXCEPT ![p] = @ \cup some]
        BY <1>22 DEF RecordFewerConflicts
      <4>2. peers' = peers /\ pc' = [pc EXCEPT ![p] = "peers"]
        BY <1>22 DEF RecordFewerConflicts
      <4> HIDE DEF new
      <4> QED
        BY <2>4, <4>1, <4>2 DEF TypeOK
    <3> HIDE DEF new
    <3> QED
      BY <1>r, <1>w, <2>1, <2>3, <2>4, <3>1 DEF FoundOf
  <2>5. CASE p # r
    BY <1>22, <1>r, <1>w, <2>5 DEF RecordFewerConflicts, FoundOf, TypeOK
  <2> QED
    BY <2>4, <2>5
<1> QED
  BY <1>1, <1>2, <1>3, <1>4, <1>5, <1>6, <1>7, <1>8, <1>9, <1>10, <1>11, <1>12,
     <1>13, <1>14, <1>15, <1>16, <1>17, <1>18, <1>19, <1>20, <1>21, <1>22
     DEF Next, Thread, Failure, HitAbortedTransaction

-----------------------------------------------------------------------------
\* Nothing of a comparison is stored before its commit, all of it after.
LEMMA NextCommit == 
    TypeOK /\ TransactionInv /\ ComparisonInv /\ CommitInv /\ [Next]_vars => CommitInv'

<1> SUFFICES ASSUME TypeOK, TransactionInv, ComparisonInv, CommitInv, [Next]_vars,
                    NEW r \in Policy
             PROVE  CommitOf(r)'
  BY DEF CommitInv
<1> USE DEF Advance, clauseVars, compareVars, txVars, Committed
<1>r. CommitOf(r)
  BY DEF CommitInv
<1>same. ASSUME conflicts' = conflicts PROVE RowsOfTarget(r)' = RowsOfTarget(r)
  BY <1>same DEF RowsOfTarget
<1>1. ASSUME NEW p \in Policy, Upload(p) PROVE CommitOf(r)'
  BY <1>1, <1>r, <1>same DEF Upload, CommitOf, TypeOK
<1>2. ASSUME NEW p \in Policy, UploadUnsegmented(p) PROVE CommitOf(r)'
  BY <1>2, <1>r, <1>same DEF UploadUnsegmented, CommitOf, TypeOK
<1>3. ASSUME NEW p \in Policy, StartThread(p) PROVE CommitOf(r)'
  BY <1>3, <1>r, <1>same DEF StartThread, CommitOf, TypeOK
<1>4. ASSUME NEW p \in Policy, DeletePolicy(p) PROVE CommitOf(r)'
  BY <1>4, <1>r, <1>same DEF DeletePolicy, CommitOf, TypeOK
<1>5. ASSUME NEW p \in Policy, ReadClauses(p) PROVE CommitOf(r)'
  BY <1>5, <1>r, <1>same DEF ReadClauses, CommitOf, TypeOK
<1>6. ASSUME NEW p \in Policy, StageObligation(p) PROVE CommitOf(r)'
  BY <1>6, <1>r, <1>same DEF StageObligation, CommitOf, TypeOK
<1>7. ASSUME NEW p \in Policy, SeedCommit(p) PROVE CommitOf(r)'
  BY <1>7, <1>r, <1>same DEF SeedCommit, CommitOf, TypeOK
<1>8. ASSUME NEW p \in Policy, FinishExtraction(p) PROVE CommitOf(r)'
  BY <1>8, <1>r, <1>same DEF FinishExtraction, CommitOf, TypeOK
<1>9. ASSUME NEW p \in Policy, AuditExtraction(p) PROVE CommitOf(r)'
  BY <1>9, <1>r, <1>same DEF AuditExtraction, CommitOf, TypeOK
<1>10. ASSUME NEW p \in Policy, SnapshotPeers(p) PROVE CommitOf(r)'
  BY <1>10, <1>r, <1>same DEF SnapshotPeers, CommitOf, TypeOK
<1>11. ASSUME NEW p \in Policy, CompareVersions(p) PROVE CommitOf(r)'
  BY <1>11, <1>r, <1>same DEF CompareVersions, CommitOf, TypeOK
<1>12. ASSUME NEW p \in Policy, RecordConflicts(p) PROVE CommitOf(r)'
  BY <1>12, <1>r, <1>same DEF RecordConflicts, CommitOf, TypeOK
<1>13. ASSUME NEW p \in Policy, CommitConflicts(p) PROVE CommitOf(r)'
  <2>1. \A c \in found[p] : c.target = p
    BY DEF ComparisonInv, FoundOf, WellFounded
  <2>2. pc[p] = "peers" /\ (Healthy(p) <=> "comparison" \notin logged[p])
    BY <1>13 DEF CommitConflicts, TransactionInv, TransactionOf
  <2>3. CASE p = r
    <3>1. RowsOfTarget(r) = {}
      BY <1>r, <2>2, <2>3 DEF CommitOf
    <3>2. RowsOfTarget(r)' = IF Healthy(r) THEN found[r] ELSE {}
      BY <1>13, <2>1, <2>3, <3>1 DEF CommitConflicts, RowsOfTarget
    <3> QED
      BY <1>13, <2>2, <2>3, <3>2 DEF CommitConflicts, CommitOf, TypeOK
  <2>4. CASE p # r
    <3>1. RowsOfTarget(r)' = RowsOfTarget(r)
      BY <1>13, <2>1, <2>4 DEF CommitConflicts, RowsOfTarget
    <3> QED
      BY <1>13, <1>r, <2>4, <3>1 DEF CommitConflicts, CommitOf, TypeOK
  <2> QED
    BY <2>3, <2>4
<1>14. ASSUME NEW p \in Policy, AuditComparison(p) PROVE CommitOf(r)'
  BY <1>14, <1>r, <1>same DEF AuditComparison, CommitOf, TypeOK
<1>15. ASSUME NEW p \in Policy, SyncGraph(p) PROVE CommitOf(r)'
  BY <1>15, <1>r, <1>same DEF SyncGraph, CommitOf, TypeOK
<1>16. ASSUME NEW p \in Policy, DbFailure(p) PROVE CommitOf(r)'
  BY <1>16, <1>r, <1>same DEF DbFailure, CommitOf, TypeOK, Working
<1>17. CASE Crash
  BY <1>17, <1>r, <1>same DEF Crash, Working, CommitOf, TypeOK
<1>18. CASE UNCHANGED vars
  BY <1>18, <1>r, <1>same DEF vars, CommitOf, TypeOK
<1>19. ASSUME NEW p \in Policy, Resegment(p) PROVE CommitOf(r)'
  BY <1>19, <1>r, <1>same DEF Resegment, CommitOf, TypeOK
<1>20. ASSUME NEW p \in Policy, MappingFails(p) PROVE CommitOf(r)'
  BY <1>20, <1>r, <1>same DEF MappingFails, PassOver, CommitOf, TypeOK
<1>21. ASSUME NEW p \in Policy, SkipPeer(p) PROVE CommitOf(r)'
  BY <1>21, <1>r, <1>same DEF SkipPeer, PassOver, CommitOf, TypeOK
<1>22. ASSUME NEW p \in Policy, RecordFewerConflicts(p) PROVE CommitOf(r)'
  BY <1>22, <1>r, <1>same DEF RecordFewerConflicts, PassOver, CommitOf, TypeOK
<1> QED
  BY <1>1, <1>2, <1>3, <1>4, <1>5, <1>6, <1>7, <1>8, <1>9, <1>10, <1>11, <1>12,
     <1>13, <1>14, <1>15, <1>16, <1>17, <1>18, <1>19, <1>20, <1>21, <1>22
     DEF Next, Thread, Failure, HitAbortedTransaction

-----------------------------------------------------------------------------
\* What a pair of policies calls for is settled once both are extracted.
LEMMA ReferenceStays ==
    ASSUME TypeOK, ExtractionInv, [Next]_vars, NEW p \in Policy, NEW q \in Policy,
           pc[p] # "extract", pc[q] # "extract"
    PROVE  /\ ObligationsOf(q)' = ObligationsOf(q)
           /\ Reference(q, p)' = Reference(q, p)
<1>1. ObligationsOf(q)' = ObligationsOf(q) /\ ObligationsOf(p)' = ObligationsOf(p)
  BY ObligationsGrow
<1> QED
  BY <1>1 DEF Reference, Derived

\* When both reads return all there is, the rows are the reference.
LEMMA CompleteDetection ==
    ASSUME NEW p \in Policy, NEW q \in Policy
    PROVE  DetectConflicts(q, p, ObligationsOf(q), ObligationsOf(p),
                           ObligationsOf(q), ObligationsOf(p)) = Reference(q, p)
BY DEF DetectConflicts, Reference

\* A comparison that covers the final obligations of a live peer goes on
\* covering them, as long as none of its queries fails.
LEMMA ViewStays == 
    ASSUME TypeOK, ExtractionInv, ComparisonInv, [Next]_vars,
           NEW r \in Policy, NEW s \in Policy, r # s,
           row[r] = "live", row[s] = "live", pc[r] \in Snapped, pc[s] \in Snapped,
           "comparison" \notin logged'[r], CompleteView(r, s)
    PROVE  CompleteView(r, s)'

<1> USE DEF Advance, clauseVars, compareVars, Snapped
<1>k. ObligationsOf(s)' = ObligationsOf(s) /\ Reference(s, r)' = Reference(s, r)
  BY ReferenceStays
<1>1. ASSUME NEW p \in Policy, Upload(p) PROVE CompleteView(r, s)'
  BY <1>1, <1>k DEF Upload, CompleteView, TypeOK
<1>2. ASSUME NEW p \in Policy, UploadUnsegmented(p) PROVE CompleteView(r, s)'
  BY <1>2, <1>k DEF UploadUnsegmented, CompleteView, TypeOK
<1>3. ASSUME NEW p \in Policy, StartThread(p) PROVE CompleteView(r, s)'
  BY <1>3, <1>k DEF StartThread, CompleteView, TypeOK
<1>4. ASSUME NEW p \in Policy, DeletePolicy(p) PROVE CompleteView(r, s)'
  BY <1>4, <1>k DEF DeletePolicy, CompleteView, TypeOK
<1>5. ASSUME NEW p \in Policy, ReadClauses(p) PROVE CompleteView(r, s)'
  BY <1>5, <1>k DEF ReadClauses, CompleteView, TypeOK
<1>6. ASSUME NEW p \in Policy, StageObligation(p) PROVE CompleteView(r, s)'
  BY <1>6, <1>k DEF StageObligation, CompleteView, TypeOK
<1>7. ASSUME NEW p \in Policy, SeedCommit(p) PROVE CompleteView(r, s)'
  BY <1>7, <1>k DEF SeedCommit, CompleteView, TypeOK
<1>8. ASSUME NEW p \in Policy, FinishExtraction(p) PROVE CompleteView(r, s)'
  BY <1>8, <1>k DEF FinishExtraction, CompleteView, TypeOK
<1>9. ASSUME NEW p \in Policy, AuditExtraction(p) PROVE CompleteView(r, s)'
  BY <1>9, <1>k DEF AuditExtraction, CompleteView, TypeOK
<1>10. ASSUME NEW p \in Policy, SnapshotPeers(p) PROVE CompleteView(r, s)'
  BY <1>10, <1>k DEF SnapshotPeers, CompleteView, TypeOK
<1>11. ASSUME NEW p \in Policy, CompareVersions(p) PROVE CompleteView(r, s)'
  <2>1. CASE p = r
    <3>1. PICK q \in peers[r] : /\ peer' = [peer EXCEPT ![r] = q]
                                /\ peers' = [peers EXCEPT ![r] = @ \ {q}]
                                /\ read' = [read EXCEPT ![r] =
                                      [a |-> ObligationsOf(q), b |-> ObligationsOf(r)]]
      BY <1>11, <2>1 DEF CompareVersions
    <3>2. /\ pc[r] = "peers" /\ pc'[r] = "detect" /\ found' = found /\ q \in Policy
          /\ peer'[r] = q /\ peers'[r] = peers[r] \ {q}
          /\ read'[r].a = ObligationsOf(q)
      BY <1>11, <2>1, <3>1 DEF CompareVersions, TypeOK
    <3>3. CASE q = s
      BY <1>k, <3>2, <3>3 DEF CompleteView
    <3>4. CASE q # s
      BY <1>k, <3>2, <3>4 DEF CompleteView
    <3> QED
      BY <3>3, <3>4
  <2>2. CASE p # r
    BY <1>11, <1>k, <2>2 DEF CompareVersions, CompleteView, TypeOK
  <2> QED
    BY <2>1, <2>2
<1>12. ASSUME NEW p \in Policy, RecordConflicts(p) PROVE CompleteView(r, s)'
  <2>1. CASE p = r
    <3> DEFINE q == peer[r]
               new == DetectConflicts(q, r, read[r].a, read[r].b,
                                      ObligationsOf(q), ObligationsOf(r))
    <3>1. /\ pc[r] = "detect" /\ pc'[r] = "peers" /\ peers' = peers /\ peer' = peer
          /\ found'[r] = found[r] \cup new /\ q \in Policy
      BY <1>12, <2>1 DEF RecordConflicts, TypeOK
    <3>2. \A c \in new : c.source = q
      <4>1. /\ read[r].a \in SUBSET Clause /\ read[r].b \in SUBSET Clause
            /\ ObligationsOf(q) \in SUBSET Clause
            /\ ObligationsOf(r) \in SUBSET Clause
        BY DEF TypeOK, ObligationsOf
      <4> QED
        BY <3>1, <4>1, DerivedRows
    <3>3. CASE q = s
      <4>1. q \notin peers[r] /\ \A c \in found[r] : c.source # q
        BY <3>1 DEF ComparisonInv, LoopOf, FoundOf
      <4>2. read[r].a = ObligationsOf(s)
        BY <3>1, <3>3, <4>1 DEF CompleteView
      <4>3. read[r].b = ObligationsOf(r)
        BY <3>1 DEF ComparisonInv, ReadOf
      <4>4. new = Reference(s, r)
        BY <3>3, <4>2, <4>3, CompleteDetection
      <4> HIDE DEF new
      <4>5. {c \in found'[r] : c.source = s} = Reference(s, r)
        BY <3>1, <3>2, <3>3, <4>1, <4>4
      <4> QED
        BY <1>k, <3>1, <3>3, <4>1, <4>5 DEF CompleteView
    <3>4. CASE q # s
      <4> HIDE DEF new
      <4>1. {c \in found'[r] : c.source = s} = {c \in found[r] : c.source = s}
        BY <3>1, <3>2, <3>4
      <4> QED
        BY <1>k, <3>1, <3>4, <4>1 DEF CompleteView
    <3> QED
      BY <3>3, <3>4
  <2>2. CASE p # r
    BY <1>12, <1>k, <2>2 DEF RecordConflicts, CompleteView, TypeOK
  <2> QED
    BY <2>1, <2>2
<1>13. ASSUME NEW p \in Policy, CommitConflicts(p) PROVE CompleteView(r, s)'
  BY <1>13, <1>k DEF CommitConflicts, CompleteView, TypeOK
<1>14. ASSUME NEW p \in Policy, AuditComparison(p) PROVE CompleteView(r, s)'
  BY <1>14, <1>k DEF AuditComparison, CompleteView, TypeOK
<1>15. ASSUME NEW p \in Policy, SyncGraph(p) PROVE CompleteView(r, s)'
  BY <1>15, <1>k DEF SyncGraph, CompleteView, TypeOK
<1>16. ASSUME NEW p \in Policy, DbFailure(p) PROVE CompleteView(r, s)'
  BY <1>16, <1>k DEF DbFailure, CompleteView, TypeOK, Working
<1>17. CASE Crash
  BY <1>17, <1>k DEF Crash, Working, CompleteView, TypeOK
<1>18. CASE UNCHANGED vars
  BY <1>18, <1>k DEF vars, CompleteView, TypeOK
<1>19. ASSUME NEW p \in Policy, Resegment(p) PROVE CompleteView(r, s)'
  BY <1>19, <1>k DEF Resegment, CompleteView, TypeOK
<1>20. ASSUME NEW p \in Policy, MappingFails(p) PROVE CompleteView(r, s)'
  BY <1>20, <1>k DEF MappingFails, CompleteView, TypeOK
<1>21. ASSUME NEW p \in Policy, SkipPeer(p) PROVE CompleteView(r, s)'
  <2>1. p # r
    BY <1>21 DEF SkipPeer, PassOver, TypeOK
  <2> QED
    BY <1>21, <1>k, <2>1 DEF SkipPeer, CompleteView, TypeOK
<1>22. ASSUME NEW p \in Policy, RecordFewerConflicts(p) PROVE CompleteView(r, s)'
  <2>1. p # r
    BY <1>22 DEF RecordFewerConflicts, PassOver, TypeOK
  <2> QED
    BY <1>22, <1>k, <2>1 DEF RecordFewerConflicts, CompleteView, TypeOK
<1> QED
  BY <1>1, <1>2, <1>3, <1>4, <1>5, <1>6, <1>7, <1>8, <1>9, <1>10, <1>11, <1>12,
     <1>13, <1>14, <1>15, <1>16, <1>17, <1>18, <1>19, <1>20, <1>21, <1>22
     DEF Next, Thread, Failure, HitAbortedTransaction

\* Only a snapshot brings a thread among those that have taken one, and a log
\* only grows.
LEMMA OnlySnapshotSnaps == 
    ASSUME TypeOK, [Next]_vars, NEW r \in Policy, pc'[r] \in Snapped
    PROVE  /\ row'[r] = "live" => row[r] = "live"
           /\ pc[r] \in Snapped \/ SnapshotPeers(r)
           /\ logged[r] \subseteq logged'[r]

<1> DEFINE Goal == /\ row'[r] = "live" => row[r] = "live"
                   /\ pc[r] \in Snapped \/ SnapshotPeers(r)
                   /\ logged[r] \subseteq logged'[r]
<1> USE DEF Advance, PassOver, Snapped, txVars
<1>h. pc'[r] \in Snapped
  OBVIOUS
<1>1. ASSUME NEW p \in Policy, Upload(p) PROVE Goal
  BY <1>1, <1>h DEF Upload, TypeOK
<1>2. ASSUME NEW p \in Policy, UploadUnsegmented(p) PROVE Goal
  BY <1>2, <1>h DEF UploadUnsegmented, TypeOK
<1>3. ASSUME NEW p \in Policy, StartThread(p) PROVE Goal
  BY <1>3, <1>h DEF StartThread, TypeOK
<1>4. ASSUME NEW p \in Policy, DeletePolicy(p) PROVE Goal
  BY <1>4, <1>h DEF DeletePolicy, TypeOK
<1>5. ASSUME NEW p \in Policy, ReadClauses(p) PROVE Goal
  BY <1>5, <1>h DEF ReadClauses, TypeOK
<1>6. ASSUME NEW p \in Policy, StageObligation(p) PROVE Goal
  BY <1>6, <1>h DEF StageObligation, TypeOK
<1>7. ASSUME NEW p \in Policy, SeedCommit(p) PROVE Goal
  BY <1>7, <1>h DEF SeedCommit, TypeOK
<1>8. ASSUME NEW p \in Policy, FinishExtraction(p) PROVE Goal
  BY <1>8, <1>h DEF FinishExtraction, TypeOK
<1>9. ASSUME NEW p \in Policy, AuditExtraction(p) PROVE Goal
  BY <1>9, <1>h DEF AuditExtraction, TypeOK
<1>10. ASSUME NEW p \in Policy, SnapshotPeers(p) PROVE Goal
  BY <1>10, <1>h DEF SnapshotPeers, TypeOK
<1>11. ASSUME NEW p \in Policy, CompareVersions(p) PROVE Goal
  BY <1>11, <1>h DEF CompareVersions, TypeOK
<1>12. ASSUME NEW p \in Policy, RecordConflicts(p) PROVE Goal
  BY <1>12, <1>h DEF RecordConflicts, TypeOK
<1>13. ASSUME NEW p \in Policy, CommitConflicts(p) PROVE Goal
  BY <1>13, <1>h DEF CommitConflicts, TypeOK
<1>14. ASSUME NEW p \in Policy, AuditComparison(p) PROVE Goal
  BY <1>14, <1>h DEF AuditComparison, TypeOK
<1>15. ASSUME NEW p \in Policy, SyncGraph(p) PROVE Goal
  BY <1>15, <1>h DEF SyncGraph, TypeOK
<1>16. ASSUME NEW p \in Policy, DbFailure(p) PROVE Goal
  BY <1>16, <1>h DEF DbFailure, TypeOK, Working
<1>17. CASE Crash
  BY <1>17, <1>h DEF Crash, Working, TypeOK
<1>18. CASE UNCHANGED vars
  BY <1>18, <1>h DEF vars, TypeOK
<1>19. ASSUME NEW p \in Policy, Resegment(p) PROVE Goal
  BY <1>19, <1>h DEF Resegment, TypeOK
<1>20. ASSUME NEW p \in Policy, MappingFails(p) PROVE Goal
  BY <1>20, <1>h DEF MappingFails, TypeOK
<1>21. ASSUME NEW p \in Policy, SkipPeer(p) PROVE Goal
  BY <1>21, <1>h DEF SkipPeer, TypeOK
<1>22. ASSUME NEW p \in Policy, RecordFewerConflicts(p) PROVE Goal
  BY <1>22, <1>h DEF RecordFewerConflicts, TypeOK
<1> QED
  BY <1>1, <1>2, <1>3, <1>4, <1>5, <1>6, <1>7, <1>8, <1>9, <1>10, <1>11, <1>12,
     <1>13, <1>14, <1>15, <1>16, <1>17, <1>18, <1>19, <1>20, <1>21, <1>22
     DEF Next, Thread, Failure, HitAbortedTransaction

\* Whoever takes its snapshot finds a live, settled policy of its company.
LEMMA SnapshotSees ==
    ASSUME TypeOK, NEW r \in Policy, NEW s \in Policy, r # s, SameCompany(r, s),
           row[s] = "live", SnapshotPeers(r)
    PROVE  CompleteView(r, s)'
<1>1. s \in ActivePeers(r)
  BY DEF ActivePeers
<1>2. s \in peers'[r]
  BY <1>1 DEF SnapshotPeers, TypeOK
<1> QED
  BY <1>2 DEF CompleteView

\* Of two threads that have taken their snapshots, one has the other in view.
LEMMA NextView ==
    TypeOK /\ ExtractionInv /\ ComparisonInv /\ ViewInv /\ [Next]_vars => ViewInv'
<1> SUFFICES ASSUME TypeOK, ExtractionInv, ComparisonInv, ViewInv, [Next]_vars,
                    NEW r \in Policy, NEW s \in Policy, r # s, SameCompany(r, s),
                    row'[r] = "live", row'[s] = "live",
                    pc'[r] \in Snapped, pc'[s] \in Snapped,
                    "comparison" \notin logged'[r], "comparison" \notin logged'[s]
             PROVE  CompleteView(r, s)' \/ CompleteView(s, r)'
  BY DEF ViewInv, SameCompany
<1>1. /\ row[r] = "live" /\ row[s] = "live"
      /\ pc[r] \in Snapped \/ SnapshotPeers(r)
      /\ pc[s] \in Snapped \/ SnapshotPeers(s)
      /\ "comparison" \notin logged[r] /\ "comparison" \notin logged[s]
  BY OnlySnapshotSnaps
<1>2. CASE SnapshotPeers(r)
  BY <1>1, <1>2, SnapshotSees
<1>3. CASE SnapshotPeers(s)
  <2>1. SameCompany(s, r)
    BY DEF SameCompany
  <2> QED
    BY <1>1, <1>3, <2>1, SnapshotSees
<1>4. CASE pc[r] \in Snapped /\ pc[s] \in Snapped
  <2>1. CompleteView(r, s) \/ CompleteView(s, r)
    BY <1>1, <1>4 DEF ViewInv
  <2>2. CASE CompleteView(r, s)
    BY <1>1, <1>4, <2>2, ViewStays
  <2>3. CASE CompleteView(s, r)
    BY <1>1, <1>4, <2>3, ViewStays
  <2> QED
    BY <2>1, <2>2, <2>3
<1> QED
  BY <1>1, <1>2, <1>3, <1>4

-----------------------------------------------------------------------------
\* The inductive invariant holds initially ...
LEMMA InitInv == Init => Inv
<1> SUFFICES ASSUME Init PROVE Inv
  OBVIOUS
<1>1. TypeOK /\ SegmentationInv /\ ExtractionInv
  BY InitTypeOK, InitSegmentation, InitExtraction
<1>2. AuditInv /\ TransactionInv
  BY DEF Init, AuditInv, AuditOf, Audited, TransactionInv, TransactionOf, Healthy
<1>3. ComparisonInv
  BY DEF Init, ComparisonInv, LoopOf, ReadOf, FoundOf, Snapped, Committed
<1>4. CommitInv
  BY DEF Init, CommitInv, CommitOf, RowsOfTarget, Committed
<1>5. ViewInv
  BY DEF Init, ViewInv
<1> QED
  BY <1>1, <1>2, <1>3, <1>4, <1>5 DEF Inv

\* ... every step keeps it ...
LEMMA NextInv == Inv /\ [Next]_vars => Inv'
<1> SUFFICES ASSUME Inv, [Next]_vars PROVE Inv'
  OBVIOUS
<1>0. /\ TypeOK /\ SegmentationInv /\ ExtractionInv /\ TransactionInv /\ AuditInv
      /\ ComparisonInv /\ CommitInv /\ ViewInv
  BY DEF Inv
<1>1. TypeOK' /\ SegmentationInv' /\ ExtractionInv' /\ TransactionInv' /\ AuditInv'
  BY <1>0, NextTypeOK, NextSegmentation, NextExtraction, NextTransaction, NextAudit
<1>2. ComparisonInv'
  <2>1. \A r \in Policy : LoopOf(r)' /\ ReadOf(r)' /\ FoundOf(r)'
    BY <1>0, NextLoop, NextRead, NextFound
  <2> QED
    BY <2>1 DEF ComparisonInv
<1>3. CommitInv' /\ ViewInv'
  BY <1>0, NextCommit, NextView
<1> QED
  BY <1>1, <1>2, <1>3 DEF Inv

\* ... so it always holds.
LEMMA Invariance == Spec => []Inv
BY InitInv, NextInv, PTL DEF Spec

-----------------------------------------------------------------------------
\* The rows, columns and thread-local values have their kinds, whatever the
\* policies, clauses, companies and similarity scores.
THEOREM TypeCorrect == Spec => []TypeOK
<1>1. Inv => TypeOK
  BY DEF Inv
<1> QED
  BY <1>1, Invariance, PTL

\* The KeyError of detect_conflicts cannot occur: the second read returns all
\* that the first one did.
THEOREM RereadIsSafe == Spec => []RereadCoversRead
<1>1. Inv => RereadCoversRead
  BY DEF Inv, ComparisonInv, ReadOf, RereadCoversRead
<1> QED
  BY <1>1, Invariance, PTL

\* An audited extraction has the obligations of one segmentation, of which the
\* silent rollback after a logged failure of the mapping may have taken one.
THEOREM ExtractionAuditIsTrue == Spec => []AuditedExtractionIsComplete
<1>1. Inv => AuditedExtractionIsComplete
  <2> SUFFICES ASSUME Inv, NEW p \in Policy, Audited(p, "Obligation Extraction")
               PROVE  \/ \E n \in 1 .. segmentations[p] :
                           LET lost == ClausesOf(p, n) \ ObligationsOf(p)
                           IN  /\ ObligationsOf(p) \subseteq ClausesOf(p, n)
                               /\ \A c, d \in lost : c = d
                               /\ lost # {} => "mapping" \in logged[p]
                      \/ ObligationsOf(p) = {} /\ row[p] = "deleted"
    BY DEF AuditedExtractionIsComplete
  <2>1. pc[p] \in PastExtraction /\ pc[p] \notin Unread
    BY DEF Inv, AuditInv, AuditOf, PastExtraction, Unread
  <2>2. Extracted(p) /\ Whole(p, clauses[p])
    BY <2>1 DEF Inv, ExtractionInv, ExtractionOf, SegmentationInv, SegmentationOfPolicy
  <2>3. CASE \E n \in 1 .. segmentations[p] : clauses[p] = ClausesOf(p, n)
    <3>1. PICK n \in 1 .. segmentations[p] : clauses[p] = ClausesOf(p, n)
      BY <2>3
    <3>2. /\ ObligationsOf(p) \subseteq clauses[p]
          /\ \A c, d \in clauses[p] \ ObligationsOf(p) : c = d
          /\ clauses[p] \ ObligationsOf(p) # {} => "mapping" \in logged[p]
      BY <2>2 DEF Extracted
    <3>3. \A cs : clauses[p] = cs =>
              LET lost == cs \ ObligationsOf(p)
              IN  /\ ObligationsOf(p) \subseteq cs
                  /\ \A c, d \in lost : c = d
                  /\ lost # {} => "mapping" \in logged[p]
      BY <3>2
    <3> QED
      BY <3>1, <3>3
  <2>4. CASE clauses[p] = {} /\ row[p] = "deleted"
    BY <2>2, <2>4 DEF Extracted
  <2> QED
    BY <2>2, <2>3, <2>4 DEF Whole
<1> QED
  BY <1>1, Invariance, PTL

\* A comparison is stored whole or not at all, and an audited one is stored
\* unless one of its queries failed.
THEOREM ComparisonAtomicity == Spec => []ComparisonIsAtomic
<1>1. Inv => ComparisonIsAtomic
  <2> SUFFICES ASSUME Inv, NEW p \in Policy
               PROVE  LET mine == {c \in conflicts : c.target = p}
                      IN  /\ mine \in {{}, found[p]}
                          /\ mine # {} => /\ pc[p] \in {"compared", "sync", "done"}
                                          /\ "comparison" \notin logged[p]
                          /\ Audited(p, "Conflict Detection") /\ mine # found[p] =>
                               "comparison" \in logged[p]
    BY DEF ComparisonIsAtomic
  <2>1. CommitOf(p) /\ AuditOf(p)
    BY DEF Inv, CommitInv, AuditInv
  <2> QED
    BY <2>1 DEF CommitOf, AuditOf, RowsOfTarget, Committed
<1> QED
  BY <1>1, Invariance, PTL

\* Conflict rows stay within a company and cite stored obligations of the two
\* policies they name.
THEOREM ConflictsWellFounded == Spec => []ConflictsAreWellFounded
<1>1. Inv => ConflictsAreWellFounded
  <2> SUFFICES ASSUME Inv, NEW c \in conflicts
               PROVE  /\ c.source # c.target /\ SameCompany(c.source, c.target)
                      /\ c.a # NoClause => c.a \in ObligationsOf(c.source)
                      /\ c.b # NoClause => c.b \in ObligationsOf(c.target)
                      /\ c.a # NoClause \/ c.b # NoClause
    BY DEF ConflictsAreWellFounded
  <2> DEFINE p == c.target
  <2>1. p \in Policy
    BY DEF Inv, TypeOK, Conflict
  <2>2. c \in RowsOfTarget(p)
    BY DEF RowsOfTarget
  <2>3. c \in found[p]
    BY <2>1, <2>2 DEF Inv, CommitInv, CommitOf
  <2> QED
    BY <2>1, <2>3 DEF Inv, ComparisonInv, FoundOf, WellFounded
<1> QED
  BY <1>1, Invariance, PTL

\* Of two live policies of one company whose comparisons both completed with no
\* failed query, one is exact: concurrency never makes both miss something
\* between them.
THEOREM NoPairIsMissed == Spec => []OneOrientationExact
<1>1. Inv => OneOrientationExact
  <2> SUFFICES ASSUME Inv, NEW p \in Policy, NEW q \in Policy,
                      p # q, SameCompany(p, q), row[p] = "live", row[q] = "live",
                      Compared(p), Compared(q)
               PROVE  Rows(q, p) = Reference(q, p) \/ Rows(p, q) = Reference(p, q)
    BY DEF OneOrientationExact
  <2>1. /\ pc[p] \in {"sync", "done"} /\ pc[q] \in {"sync", "done"}
        /\ "comparison" \notin logged[p] /\ "comparison" \notin logged[q]
    BY DEF Inv, AuditInv, AuditOf, Compared
  <2>2. CompleteView(p, q) \/ CompleteView(q, p)
    BY <2>1 DEF Inv, ViewInv, Snapped
  <2>3. ASSUME NEW r \in {p, q}, NEW s \in {p, q}, CompleteView(r, s)
        PROVE  Rows(s, r) = Reference(s, r)
    <3>1. peers[r] = {} /\ pc[r] \in Committed
      BY <2>1 DEF Inv, ComparisonInv, LoopOf, Committed
    <3>2. {c \in found[r] : c.source = s} = Reference(s, r)
      BY <2>1, <2>3, <3>1 DEF CompleteView
    <3>3. RowsOfTarget(r) = found[r]
      BY <2>1, <3>1 DEF Inv, CommitInv, CommitOf
    <3> QED
      BY <3>2, <3>3 DEF Rows, RowsOfTarget
  <2> QED
    BY <2>2, <2>3
<1> QED
  BY <1>1, Invariance, PTL

\* Obligations settle once their extraction is audited.
THEOREM ObligationsAreSettled == Spec => ObligationsSettle
<1> DEFINE Stay == \A p \in Policy : Audited(p, "Obligation Extraction") =>
                      ObligationsOf(p)' = ObligationsOf(p)
<1>1. Inv /\ [Next]_vars => [Stay]_vars
  <2> SUFFICES ASSUME Inv, [Next]_vars, NEW p \in Policy,
                      Audited(p, "Obligation Extraction")
               PROVE  ObligationsOf(p)' = ObligationsOf(p)
    OBVIOUS
  <2>1. pc[p] # "extract"
    BY DEF Inv, AuditInv, AuditOf, PastExtraction
  <2> QED
    BY <2>1, ObligationsGrow DEF Inv
<1> QED
  BY <1>1, Invariance, PTL DEF Spec, ObligationsSettle

-----------------------------------------------------------------------------
(* Threads end.  At any time finitely many policies are listed and finitely
   many clauses are visible of each, so what a thread iterates over is finite
   however many policies and clauses there may ever be.  *)

Listed == {q \in Policy : row[q] # "absent"}

FiniteOf(p) ==
    IsFiniteSet(visible[p]) /\ IsFiniteSet(todo[p]) /\ IsFiniteSet(staged[p])
    /\ IsFiniteSet(peers[p])

FiniteInv == IsFiniteSet(Listed) /\ \A p \in Policy : FiniteOf(p)

\* One segmentation of a policy finds finitely many clauses.
LEMMA SegmentationIsFinite ==
    ASSUME NEW p \in Policy, NEW n PROVE IsFiniteSet(ClausesOf(p, n))
<1>1. CASE ClausesOf(p, n) = {}
  BY <1>1, FS_EmptySet
<1>2. ASSUME NEW d \in ClausesOf(p, n) PROVE IsFiniteSet(ClausesOf(p, n))
  <2>1. d \in Clause /\ PolicyOf[d] = p /\ SegmentationOf[d] = n
    BY DEF ClausesOf
  <2>2. ClausesOf(p, n) = {c \in Clause : PolicyOf[c] = PolicyOf[d]
                                           /\ SegmentationOf[c] = SegmentationOf[d]}
    BY <2>1 DEF ClausesOf
  <2> QED
    BY <2>1, <2>2, DocumentAssumption
<1> QED
  BY <1>1, <1>2

\* Where the sets of the next state come from.
Sources(r) ==
    /\ \E p \in Policy : Listed' \subseteq Listed \cup {p}
    /\ \/ visible'[r] = visible[r]
       \/ visible'[r] = {}
       \/ \E n : visible'[r] = ClausesOf(r, n)
    /\ todo'[r] = todo[r] \/ todo'[r] \subseteq todo[r] \/ todo'[r] = visible[r]
    /\ staged'[r] = staged[r] \/ staged'[r] = {} \/ \E c : staged'[r] = {c}
    /\ peers'[r] = peers[r] \/ peers'[r] \subseteq peers[r] \/ peers'[r] = ActivePeers(r)

\* No step takes the sets of a thread from anywhere else.
LEMMA SetsHaveSources ==
    ASSUME TypeOK, [Next]_vars, NEW r \in Policy PROVE Sources(r)
<1> USE DEF Sources, Listed, TypeOK, clauseVars, compareVars
<1>1. ASSUME NEW p \in Policy, Upload(p) PROVE Sources(r)
  BY <1>1 DEF Upload, StoreClauses
<1>2. ASSUME NEW p \in Policy, UploadUnsegmented(p) PROVE Sources(r)
  BY <1>2 DEF UploadUnsegmented
<1>3. ASSUME NEW p \in Policy, StartThread(p) PROVE Sources(r)
  BY <1>3 DEF StartThread
<1>4. ASSUME NEW p \in Policy, DeletePolicy(p) PROVE Sources(r)
  BY <1>4 DEF DeletePolicy
<1>5. ASSUME NEW p \in Policy, ReadClauses(p) PROVE Sources(r)
  BY <1>5 DEF ReadClauses
<1>6. ASSUME NEW p \in Policy, StageObligation(p) PROVE Sources(r)
  <2>1. PICK c \in todo[p] : /\ staged' = [staged EXCEPT ![p] = {c}]
                            /\ todo' = [todo EXCEPT ![p] = todo[p] \ {c}]
    BY <1>6 DEF StageObligation
  <2>2. UNCHANGED <<row, visible, peers>>
    BY <1>6 DEF StageObligation
  <2>3. CASE p = r
    BY <2>1, <2>2, <2>3
  <2>4. CASE p # r
    BY <2>1, <2>2, <2>4
  <2> QED
    BY <2>3, <2>4
<1>7. ASSUME NEW p \in Policy, SeedCommit(p) PROVE Sources(r)
  BY <1>7 DEF SeedCommit
<1>8. ASSUME NEW p \in Policy, FinishExtraction(p) PROVE Sources(r)
  BY <1>8 DEF FinishExtraction
<1>9. ASSUME NEW p \in Policy, AuditExtraction(p) PROVE Sources(r)
  BY <1>9 DEF AuditExtraction
<1>10. ASSUME NEW p \in Policy, SnapshotPeers(p) PROVE Sources(r)
  BY <1>10 DEF SnapshotPeers
<1>11. ASSUME NEW p \in Policy, CompareVersions(p) PROVE Sources(r)
  BY <1>11 DEF CompareVersions
<1>12. ASSUME NEW p \in Policy, RecordConflicts(p) PROVE Sources(r)
  BY <1>12 DEF RecordConflicts
<1>13. ASSUME NEW p \in Policy, CommitConflicts(p) PROVE Sources(r)
  BY <1>13 DEF CommitConflicts
<1>14. ASSUME NEW p \in Policy, AuditComparison(p) PROVE Sources(r)
  BY <1>14 DEF AuditComparison
<1>15. ASSUME NEW p \in Policy, SyncGraph(p) PROVE Sources(r)
  BY <1>15 DEF SyncGraph
<1>16. ASSUME NEW p \in Policy, DbFailure(p) PROVE Sources(r)
  BY <1>16 DEF DbFailure, Working
<1>17. ASSUME NEW p \in Policy, Resegment(p) PROVE Sources(r)
  BY <1>17 DEF Resegment, StoreClauses
<1>18. CASE Crash
  BY <1>18 DEF Crash, Working
<1>19. CASE UNCHANGED vars
  BY <1>19 DEF vars
<1>20. ASSUME NEW p \in Policy, MappingFails(p) PROVE Sources(r)
  BY <1>20 DEF MappingFails
<1>21. ASSUME NEW p \in Policy, SkipPeer(p) PROVE Sources(r)
  BY <1>21 DEF SkipPeer
<1>22. ASSUME NEW p \in Policy, RecordFewerConflicts(p) PROVE Sources(r)
  BY <1>22 DEF RecordFewerConflicts
<1> QED
  BY <1>1, <1>2, <1>3, <1>4, <1>5, <1>6, <1>7, <1>8, <1>9, <1>10, <1>11, <1>12,
     <1>13, <1>14, <1>15, <1>16, <1>17, <1>18, <1>19, <1>20, <1>21, <1>22
     DEF Next, Thread, Failure, HitAbortedTransaction

\* At first they are empty.
LEMMA InitFinite == Init => FiniteInv
<1> SUFFICES ASSUME Init PROVE FiniteInv
  OBVIOUS
<1>1. Listed = {}
  BY DEF Init, Listed
<1> QED
  BY <1>1, FS_EmptySet DEF Init, FiniteInv, FiniteOf

\* Nothing ever becomes infinite.
LEMMA NextFinite == TypeOK /\ FiniteInv /\ [Next]_vars => FiniteInv'
<1> SUFFICES ASSUME TypeOK, FiniteInv, [Next]_vars PROVE FiniteInv'
  OBVIOUS
<1>1. ASSUME NEW r \in Policy PROVE IsFiniteSet(Listed') /\ FiniteOf(r)'
  <2>1. Sources(r) /\ IsFiniteSet(Listed) /\ FiniteOf(r)
    BY SetsHaveSources DEF FiniteInv
  <2>2. IsFiniteSet(Listed')
    <3>1. PICK p \in Policy : Listed' \subseteq Listed \cup {p}
      BY <2>1 DEF Sources
    <3>2. IsFiniteSet(Listed \cup {p})
      BY <2>1, FS_AddElement
    <3> QED
      BY <3>1, <3>2, FS_Subset
  <2>3. IsFiniteSet(visible'[r])
    <3>1. \A n : IsFiniteSet(ClausesOf(r, n))
      BY SegmentationIsFinite
    <3> QED
      BY <2>1, <3>1, FS_EmptySet DEF Sources, FiniteOf
  <2>4. IsFiniteSet(todo'[r])
    <3>1. todo'[r] \subseteq todo[r] \/ todo'[r] = visible[r]
      BY <2>1 DEF Sources
    <3>2. IsFiniteSet(todo[r]) /\ IsFiniteSet(visible[r])
      BY <2>1 DEF FiniteOf
    <3> QED
      BY <3>1, <3>2, FS_Subset
  <2>5. IsFiniteSet(staged'[r])
    <3>1. staged'[r] = staged[r] \/ staged'[r] = {} \/ \E c : staged'[r] = {c}
      BY <2>1 DEF Sources
    <3>2. IsFiniteSet(staged[r])
      BY <2>1 DEF FiniteOf
    <3> QED
      BY <3>1, <3>2, FS_EmptySet, FS_Singleton
  <2>6. IsFiniteSet(peers'[r])
    <3>1. ActivePeers(r) \subseteq Listed
      BY DEF ActivePeers, Listed
    <3>2. peers'[r] \subseteq peers[r] \/ peers'[r] = ActivePeers(r)
      BY <2>1 DEF Sources
    <3>3. IsFiniteSet(peers[r]) /\ IsFiniteSet(Listed)
      BY <2>1 DEF FiniteOf
    <3> QED
      BY <3>1, <3>2, <3>3, FS_Subset
  <2> QED
    BY <2>2, <2>3, <2>4, <2>5, <2>6 DEF FiniteOf
<1>2. CASE Policy = {}
  <2>1. Listed' = {}
    BY <1>2 DEF Listed
  <2> QED
    BY <1>2, <2>1, FS_EmptySet DEF FiniteInv
<1> QED
  BY <1>1, <1>2 DEF FiniteInv

\* They are finite in every reachable state.
LEMMA FiniteHolds == Spec => [](Inv /\ FiniteInv)
<1>1. Inv => TypeOK
  BY DEF Inv
<1> QED
  BY <1>1, InitInv, NextInv, InitFinite, NextFinite, PTL DEF Spec

\* How a step changes the measure of one thread: not at all, by the end of its
\* session, by a stage, or by one turn of a loop.
Turn(r) ==
    \/ UNCHANGED <<pc[r], clauses[r], todo[r], staged[r], peers[r], peer[r], read[r], found[r]>>
    \/ UNCHANGED <<pc[r], clauses[r], todo[r], peers[r], peer[r], read[r], found[r]>>
       /\ staged'[r] = {} /\ staged[r] # {}
    \/ StagesAhead[pc'[r]] < StagesAhead[pc[r]]
    \/ /\ pc[r] = "extract" /\ pc'[r] = "extract" /\ peers'[r] = peers[r]
       /\ staged[r] = {}
       /\ \E c \in todo[r] : staged'[r] = {c} /\ todo'[r] = todo[r] \ {c}
    \/ /\ pc[r] = "peers" /\ pc'[r] \in {"peers", "detect"}
       /\ todo'[r] = todo[r] /\ staged'[r] = staged[r]
       /\ \E q \in peers[r] : peers'[r] = peers[r] \ {q}
    \/ /\ pc[r] = "detect" /\ pc'[r] = "peers"
       /\ todo'[r] = todo[r] /\ staged'[r] = staged[r] /\ peers'[r] = peers[r]

\* The values of StagesAhead.
LEMMA StageNumbers ==
    /\ StagesAhead["absent"] = 9 /\ StagesAhead["unsegmented"] = 8 /\ StagesAhead["saved"] = 8
    /\ StagesAhead["started"] = 7 /\ StagesAhead["extract"] = 6 /\ StagesAhead["extracted"] = 5
    /\ StagesAhead["compare"] = 4 /\ StagesAhead["peers"] = 3 /\ StagesAhead["detect"] = 3
    /\ StagesAhead["compared"] = 2 /\ StagesAhead["sync"] = 1 /\ StagesAhead["done"] = 0
BY DEF StagesAhead

\* Every step is, for every thread, one of these turns.
LEMMA StepsAreTurns ==
    ASSUME TypeOK, [Next]_vars, NEW r \in Policy PROVE Turn(r)
<1> USE DEF Turn, TypeOK, Advance, clauseVars, compareVars
<1>1. ASSUME NEW p \in Policy, Upload(p) PROVE Turn(r)
  BY <1>1, StageNumbers DEF Upload, StoreClauses
<1>2. ASSUME NEW p \in Policy, UploadUnsegmented(p) PROVE Turn(r)
  BY <1>2, StageNumbers DEF UploadUnsegmented
<1>3. ASSUME NEW p \in Policy, StartThread(p) PROVE Turn(r)
  BY <1>3, StageNumbers DEF StartThread
<1>4. ASSUME NEW p \in Policy, DeletePolicy(p) PROVE Turn(r)
  BY <1>4, StageNumbers DEF DeletePolicy
<1>5. ASSUME NEW p \in Policy, ReadClauses(p) PROVE Turn(r)
  BY <1>5, StageNumbers DEF ReadClauses
<1>6. ASSUME NEW p \in Policy, StageObligation(p) PROVE Turn(r)
  BY <1>6, StageNumbers DEF StageObligation
<1>7. ASSUME NEW p \in Policy, SeedCommit(p) PROVE Turn(r)
  BY <1>7, StageNumbers DEF SeedCommit
<1>8. ASSUME NEW p \in Policy, FinishExtraction(p) PROVE Turn(r)
  BY <1>8, StageNumbers DEF FinishExtraction
<1>9. ASSUME NEW p \in Policy, AuditExtraction(p) PROVE Turn(r)
  <2>1. /\ pc[p] = "extracted" /\ pc' = [pc EXCEPT ![p] = "compare"]
        /\ UNCHANGED <<clauses, todo, staged, peers, peer, read, found>>
    BY <1>9 DEF AuditExtraction
  <2> QED
    BY <2>1, StageNumbers
<1>10. ASSUME NEW p \in Policy, SnapshotPeers(p) PROVE Turn(r)
  BY <1>10, StageNumbers DEF SnapshotPeers
<1>11. ASSUME NEW p \in Policy, CompareVersions(p) PROVE Turn(r)
  BY <1>11, StageNumbers DEF CompareVersions
<1>12. ASSUME NEW p \in Policy, RecordConflicts(p) PROVE Turn(r)
  BY <1>12, StageNumbers DEF RecordConflicts
<1>13. ASSUME NEW p \in Policy, CommitConflicts(p) PROVE Turn(r)
  BY <1>13, StageNumbers DEF CommitConflicts
<1>14. ASSUME NEW p \in Policy, AuditComparison(p) PROVE Turn(r)
  <2>1. /\ pc[p] = "compared" /\ pc' = [pc EXCEPT ![p] = "sync"]
        /\ UNCHANGED <<clauses, todo, staged, peers, peer, read, found>>
    BY <1>14 DEF AuditComparison
  <2> QED
    BY <2>1, StageNumbers
<1>15. ASSUME NEW p \in Policy, SyncGraph(p) PROVE Turn(r)
  BY <1>15, StageNumbers DEF SyncGraph
<1>16. ASSUME NEW p \in Policy, DbFailure(p) PROVE Turn(r)
  BY <1>16, StageNumbers DEF DbFailure, Working
<1>17. ASSUME NEW p \in Policy, Resegment(p) PROVE Turn(r)
  BY <1>17, StageNumbers DEF Resegment, StoreClauses
<1>18. CASE Crash
  BY <1>18, StageNumbers DEF Crash, Working
<1>19. CASE UNCHANGED vars
  BY <1>19, StageNumbers DEF vars
<1>20. ASSUME NEW p \in Policy, MappingFails(p) PROVE Turn(r)
  BY <1>20, StageNumbers DEF MappingFails
<1>21. ASSUME NEW p \in Policy, SkipPeer(p) PROVE Turn(r)
  BY <1>21, StageNumbers DEF SkipPeer
<1>22. ASSUME NEW p \in Policy, RecordFewerConflicts(p) PROVE Turn(r)
  BY <1>22, StageNumbers DEF RecordFewerConflicts
<1> QED
  BY <1>1, <1>2, <1>3, <1>4, <1>5, <1>6, <1>7, <1>8, <1>9, <1>10, <1>11, <1>12,
     <1>13, <1>14, <1>15, <1>16, <1>17, <1>18, <1>19, <1>20, <1>21, <1>22
     DEF Next, Thread, Failure, HitAbortedTransaction

\* A turn lowers the stages ahead or, within a stage, the turns ahead.
LEMMA TurnsBringNearer ==
    ASSUME TypeOK, FiniteInv, NEW r \in Policy, Turn(r)
    PROVE  \/ Nearer(r)
           \/ UNCHANGED <<pc[r], clauses[r], todo[r], staged[r], peers[r],
                          peer[r], read[r], found[r]>>
<1> DEFINE t == Cardinality(todo[r])  s == Cardinality(staged[r])  q == Cardinality(peers[r])
<1>0. IsFiniteSet(todo[r]) /\ IsFiniteSet(staged[r]) /\ IsFiniteSet(peers[r])
  BY DEF FiniteInv, FiniteOf
<1>1. t \in Nat /\ s \in Nat /\ q \in Nat
  BY <1>0, FS_CardinalityType
<1>2. CASE /\ UNCHANGED <<pc[r], todo[r], peers[r]>>
           /\ staged'[r] = {} /\ staged[r] # {}
  <2>1. Cardinality({}) = 0 /\ s # 0
    BY <1>0, <1>2, FS_EmptySet
  <2>2. TurnsAhead(r)' < TurnsAhead(r)
    BY <1>1, <1>2, <2>1 DEF TurnsAhead
  <2> QED
    BY <1>2, <2>2 DEF Nearer
<1>3. CASE StagesAhead[pc'[r]] < StagesAhead[pc[r]]
  BY <1>3 DEF Nearer
<1>4. CASE /\ pc[r] = "extract" /\ pc'[r] = "extract" /\ peers'[r] = peers[r]
           /\ staged[r] = {}
           /\ \E c \in todo[r] : staged'[r] = {c} /\ todo'[r] = todo[r] \ {c}
  <2>1. PICK c \in todo[r] : staged'[r] = {c} /\ todo'[r] = todo[r] \ {c}
    BY <1>4
  <2>2. Cardinality(todo[r] \ {c}) = t - 1 /\ Cardinality({c}) = 1 /\ s = 0
    BY <1>0, <1>4, FS_RemoveElement, FS_Singleton, FS_EmptySet
  <2>3. TurnsAhead(r)' = TurnsAhead(r) - 1
    <3>1. TurnsAhead(r)' = 2 * (t - 1) + 1 + 2 * q + 0
      BY <1>4, <2>1, <2>2 DEF TurnsAhead
    <3>2. TurnsAhead(r) = 2 * t + 0 + 2 * q + 0
      BY <1>4, <2>2 DEF TurnsAhead
    <3> QED
      BY <1>1, <3>1, <3>2
  <2>4. TurnsAhead(r) \in Int
    BY <1>1 DEF TurnsAhead
  <2> QED
    BY <1>4, <2>3, <2>4 DEF Nearer
<1>5. CASE /\ pc[r] = "peers" /\ pc'[r] \in {"peers", "detect"}
           /\ todo'[r] = todo[r] /\ staged'[r] = staged[r]
           /\ \E x \in peers[r] : peers'[r] = peers[r] \ {x}
  <2>1. PICK x \in peers[r] : peers'[r] = peers[r] \ {x}
    BY <1>5
  <2>2. Cardinality(peers[r] \ {x}) = q - 1
    BY <1>0, FS_RemoveElement
  <2>3. TurnsAhead(r)' < TurnsAhead(r)
    <3>1. TurnsAhead(r)' = 2 * t + s + 2 * (q - 1) + IF pc'[r] = "detect" THEN 1 ELSE 0
      BY <1>5, <2>1, <2>2 DEF TurnsAhead
    <3>2. TurnsAhead(r) = 2 * t + s + 2 * q + 0
      BY <1>5 DEF TurnsAhead
    <3> QED
      BY <1>1, <3>1, <3>2
  <2> QED
    BY <1>5, <2>3, StageNumbers DEF Nearer
<1>6. CASE /\ pc[r] = "detect" /\ pc'[r] = "peers"
           /\ todo'[r] = todo[r] /\ staged'[r] = staged[r] /\ peers'[r] = peers[r]
  <2>1. TurnsAhead(r)' = TurnsAhead(r) - 1
    BY <1>1, <1>6 DEF TurnsAhead
  <2>2. TurnsAhead(r) \in Int
    BY <1>1 DEF TurnsAhead
  <2> QED
    BY <1>6, <2>1, <2>2, StageNumbers DEF Nearer
<1> QED
  BY <1>2, <1>3, <1>4, <1>5, <1>6 DEF Turn

\* Whatever a thread does takes one of finitely many steps off what it has
\* ahead, and nobody adds any: its loops over clauses and peers end, although
\* clauses are replaced and policies uploaded without limit (the loops of both
\* run_pipeline methods go over lists that were read once).
THEOREM ThreadsGetNearer == Spec => ThreadsWindDown
<1> DEFINE Nears == \A p \in Policy :
              Nearer(p) \/ UNCHANGED <<pc[p], clauses[p], todo[p], staged[p], peers[p],
                                      peer[p], read[p], found[p]>>
<1>1. Inv /\ FiniteInv /\ [Next]_vars => Nears
  BY StepsAreTurns, TurnsBringNearer DEF Inv
<1>2. Inv /\ FiniteInv /\ [Next]_vars => [Nears]_vars
  BY <1>1
<1> QED
  BY <1>2, FiniteHolds, PTL DEF Spec, ThreadsWindDown

=============================================================================
