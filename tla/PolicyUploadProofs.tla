------------------------- MODULE PolicyUploadProofs -------------------------
(***************************************************************************)
(* Proofs about persist: what is stored of an upload is stored whole, and  *)
(* PolicyUpload implements UploadAtomicity.                                *)
(***************************************************************************)
EXTENDS PolicyUpload, TLAPS

-----------------------------------------------------------------------------
\* Stages before anything is committed, between the two commits, and after
\* the last one.
Preparing == {"uploader", "policy", "store", "extract", "version", "audit", "commit",
              "segment", "clauses"}
Between == {"audit_segmentation", "commit_again", "launch"}
Ended == {"respond", "answered", "dead"}

Core == {"policy", "stored_files", "version", "policy_upload"}

CompanyRow(u) == Row("company", company[u], company[u][2])

\* No row of u is committed.
NothingOf(u) == \A r \in db : r.by # u

\* The rows S hold a whole upload: its four rows, and what they refer to.
WholeIn(u, S) ==
    /\ \A t \in Core : Own(t, u) \in S
    /\ CompanyRow(u) \in S /\ uploader[u] \in S
    /\ Own("clause_segmentation", u) \in S => Own("clauses", u) \in S

\* What the transaction of u has gathered so far.
PreparedOf(u) ==
    /\ NothingOf(u)
    /\ CompanyRow(u) \in db \cup tx[u]
    /\ pc[u] # "uploader" => uploader[u] \in db \cup tx[u]
    /\ pc[u] \notin {"uploader", "policy"} => Own("policy", u) \in tx[u]
    /\ pc[u] \notin {"uploader", "policy", "store"} => Own("stored_files", u) \in tx[u]
    /\ pc[u] \in {"audit", "commit", "segment", "clauses"} => Own("version", u) \in tx[u]
    /\ pc[u] \in {"commit", "segment", "clauses"} => Own("policy_upload", u) \in tx[u]
    /\ Own("clauses", u) \notin tx[u]
    /\ Own("clause_segmentation", u) \notin tx[u]

\* What the inner handler finds: nothing stored and nothing or everything in the
\* transaction, or everything stored.
SalvageableOf(u) ==
    \/ NothingOf(u) /\ tx[u] = {}
    \/ /\ NothingOf(u) /\ WholeIn(u, db \cup tx[u])
       /\ Own("clauses", u) \notin tx[u]
    \/ WholeIn(u, db) /\ tx[u] = {}

\* What is committed and what is pending of the call of u, stage by stage.
CallOf(u) ==
    /\ \A r \in tx[u] : r.by = u
    /\ pc[u] \in {"idle", "company"} => NothingOf(u) /\ tx[u] = {}
    /\ pc[u] \in Preparing => PreparedOf(u)
    /\ pc[u] \in Between => WholeIn(u, db) /\ Own("clauses", u) \in db
    /\ pc[u] \in {"audit_segmentation", "launch"} => tx[u] = {}
    /\ pc[u] = "commit_again" => tx[u] = {Own("clause_segmentation", u)}
    /\ pc[u] = "launch" => Own("clause_segmentation", u) \in db
    /\ pc[u] = "salvage" => SalvageableOf(u)
    /\ pc[u] \in Ended => tx[u] = {} /\ (NothingOf(u) \/ WholeIn(u, db))
    /\ u \in threads =>
         /\ pc[u] \in Ended
         /\ WholeIn(u, db) /\ Own("clauses", u) \in db
         /\ Own("clause_segmentation", u) \in db
    /\ answer[u] # "none" => pc[u] = "answered"

CallInv == \A u \in Upload : CallOf(u)

\* The endpoint runs one call at a time.
Serial ==
    \A u, v \in Upload : pc[u] \notin Resting /\ pc[v] \notin Resting => u = v

Companies(S) == {r \in S : r.table = "company"}

\* Each company is created by the request its key names, and no two, stored or
\* pending, have one name.
NamesOf(u) ==
    /\ \A r \in Companies(db \cup tx[u]) : r = Row("company", r.key, r.key[2])
    /\ \A r, s \in Companies(db \cup tx[u]) : r.key[1] = s.key[1] => r = s

NameInv == Serial /\ \A u \in Upload : NamesOf(u)

\* One step of the call of u.
Step(u) ==
    \/ Begin(u)
    \/ FindCompany(u) \/ CreateCompany(u)
    \/ FindUploader(u) \/ CreateUploader(u)
    \/ AddPolicy(u) \/ StoreFile(u) \/ ExtractText(u) \/ AddVersion(u)
    \/ AuditUpload(u) \/ CommitBare(u)
    \/ Segment(u) \/ SegmentFails(u)
    \/ SaveClauses(u) \/ SaveClausesRejected(u)
    \/ ReadBackFails(u) \/ AuditSegmentation(u) \/ SecondCommit(u)
    \/ LaunchThread(u) \/ LaunchFails(u) \/ Salvage(u)
    \/ Respond(u) \/ Fail(u) \/ Crash(u)

LEMMA NextIsStep == Next => \E u \in Upload : Step(u)
BY DEF Next, Step

-----------------------------------------------------------------------------
\* Rows are well typed.
Rows0 == [table : Table, key : CompanyKey, by : Upload]

LEMMA RowTyped ==
    ASSUME NEW t \in Table, NEW k \in CompanyKey, NEW u \in Upload
    PROVE  Row(t, k, u) \in Rows0
BY DEF Row, Rows0

\* The types hold initially ...
LEMMA InitTyped == Init => TypeOK
<1> SUFFICES ASSUME Init PROVE TypeOK
  OBVIOUS
<1>1. \A u \in Upload : <<DefaultName, u>> \in CompanyKey
  BY UploadAssumption DEF CompanyKey
<1>2. \A u \in Upload : Own("user", u) \in Rows0
  BY <1>1, RowTyped DEF Init, Own, Table
<1> QED
  BY <1>1, <1>2 DEF Init, TypeOK, Rows0, Stage, Resting

\* ... and every step keeps them.
LEMMA StepTyped ==
    ASSUME TypeOK, NEW u \in Upload, Step(u)
    PROVE  TypeOK'
<1> USE DEF Stage, Resting, Fallible
<1>t. /\ pc \in [Upload -> Stage] /\ company \in [Upload -> CompanyKey]
      /\ uploader \in [Upload -> Rows0] /\ text \in [Upload -> BOOLEAN]
      /\ tx \in [Upload -> SUBSET Rows0] /\ db \subseteq Rows0
      /\ threads \subseteq Upload
      /\ answer \in [Upload -> {"none", "created", "failed"}]
  BY DEF TypeOK, Rows0
<1>g. ASSUME /\ pc' \in [Upload -> Stage] /\ company' \in [Upload -> CompanyKey]
             /\ uploader' \in [Upload -> Rows0] /\ text' \in [Upload -> BOOLEAN]
             /\ tx' \in [Upload -> SUBSET Rows0] /\ db' \subseteq Rows0
             /\ threads' \subseteq Upload
             /\ answer' \in [Upload -> {"none", "created", "failed"}]
      PROVE  TypeOK'
  BY <1>g DEF TypeOK, Rows0
<1>o. \A t \in Table : Own(t, u) \in Rows0
  BY <1>t, RowTyped DEF Own
<1>s. /\ "user" \in Table /\ "policy" \in Table /\ "stored_files" \in Table
      /\ "version" \in Table /\ "clauses" \in Table /\ "policy_upload" \in Table
      /\ "text_extraction" \in Table /\ "clause_segmentation" \in Table
      /\ "company" \in Table
  BY DEF Table
<1>1. CASE Begin(u)
  BY <1>1, <1>t, <1>g, <1>o, <1>s DEF Begin, Go
<1>2. CASE FindCompany(u)
  BY <1>2, <1>t, <1>g DEF FindCompany, Go, Candidates
<1>3. CASE CreateCompany(u)
  <2> DEFINE name == IF LookupOf[u] = "none" THEN DefaultName ELSE NameOf[u]
  <2>1. <<name, u>> \in CompanyKey
    BY UploadAssumption DEF CompanyKey
  <2>2. Row("company", <<name, u>>, u) \in Rows0
    BY <1>s, <2>1, RowTyped
  <2> HIDE DEF name
  <2>3. company' = [company EXCEPT ![u] = <<name, u>>]
        /\ tx' = [tx EXCEPT ![u] = @ \cup {Row("company", <<name, u>>, u)}]
    BY <1>3 DEF CreateCompany, Flush, name
  <2> QED
    BY <1>3, <1>t, <1>g, <2>1, <2>2, <2>3 DEF CreateCompany, Go
<1>4. CASE FindUploader(u)
  BY <1>4, <1>t, <1>g, <1>o, <1>s DEF FindUploader, Go
<1>5. CASE CreateUploader(u)
  BY <1>5, <1>t, <1>g, <1>o, <1>s DEF CreateUploader, Go, Flush
<1>6. CASE AddPolicy(u)
  BY <1>6, <1>t, <1>g, <1>o, <1>s DEF AddPolicy, Go, Flush
<1>7. CASE StoreFile(u)
  BY <1>7, <1>t, <1>g, <1>o, <1>s DEF StoreFile, Go, Flush
<1>8. CASE ExtractText(u)
  BY <1>8, <1>t, <1>g, <1>o, <1>s DEF ExtractText, Go
<1>9. CASE AddVersion(u)
  BY <1>9, <1>t, <1>g, <1>o, <1>s DEF AddVersion, Go, Flush
<1>10. CASE AuditUpload(u)
  BY <1>10, <1>t, <1>g, <1>o, <1>s DEF AuditUpload, Go, Flush
<1>11. CASE CommitBare(u)
  BY <1>11, <1>t, <1>g, <1>o, <1>s DEF CommitBare, Go, Commit
<1>12. CASE Segment(u)
  BY <1>12, <1>t, <1>g, <1>o, <1>s DEF Segment, Go
<1>13. CASE SegmentFails(u)
  BY <1>13, <1>t, <1>g, <1>o, <1>s DEF SegmentFails, Go
<1>14. CASE SaveClauses(u)
  BY <1>14, <1>t, <1>g, <1>o, <1>s DEF SaveClauses, Go, Commit
<1>15. CASE SaveClausesRejected(u)
  BY <1>15, <1>t, <1>g, <1>o, <1>s DEF SaveClausesRejected, Go
<1>16. CASE ReadBackFails(u)
  BY <1>16, <1>t, <1>g, <1>o, <1>s DEF ReadBackFails, Go
<1>17. CASE AuditSegmentation(u)
  BY <1>17, <1>t, <1>g, <1>o, <1>s DEF AuditSegmentation, Go, Flush
<1>18. CASE SecondCommit(u)
  BY <1>18, <1>t, <1>g, <1>o, <1>s DEF SecondCommit, Go, Commit
<1>19. CASE LaunchThread(u)
  BY <1>19, <1>t, <1>g, <1>o, <1>s DEF LaunchThread, Go
<1>20. CASE LaunchFails(u)
  BY <1>20, <1>t, <1>g, <1>o, <1>s DEF LaunchFails, Go
<1>21. CASE Salvage(u)
  BY <1>21, <1>t, <1>g, <1>o, <1>s DEF Salvage, Go, Commit
<1>22. CASE Respond(u)
  BY <1>22, <1>t, <1>g, <1>o, <1>s DEF Respond, Go
<1>23. CASE Fail(u)
  BY <1>23, <1>t, <1>g, <1>o, <1>s DEF Fail
<1>24. CASE Crash(u)
  BY <1>24, <1>t, <1>g, <1>o, <1>s DEF Crash
<1> QED
  BY <1>1, <1>2, <1>3, <1>4, <1>5, <1>6, <1>7, <1>8, <1>9, <1>10, <1>11, <1>12,
     <1>13, <1>14, <1>15, <1>16, <1>17, <1>18, <1>19, <1>20, <1>21, <1>22,
     <1>23, <1>24 DEF Step

-----------------------------------------------------------------------------
\* A step of one call leaves the others alone, and commits only rows of its own.
Alone(u) ==
    /\ \A v \in Upload \ {u} :
          /\ pc'[v] = pc[v] /\ company'[v] = company[v] /\ uploader'[v] = uploader[v]
          /\ tx'[v] = tx[v] /\ answer'[v] = answer[v]
          /\ v \in threads' <=> v \in threads
    /\ db \subseteq db' /\ \A r \in db' \ db : r.by = u

LEMMA StepAlone ==
    ASSUME TypeOK, CallInv, NEW u \in Upload, Step(u)
    PROVE  Alone(u)
<1> USE DEF TypeOK, Alone
<1>t. \A r \in tx[u] : r.by = u
  BY DEF CallInv, CallOf
<1>o. Own("clauses", u).by = u
  BY DEF Own, Row
<1>1. CASE Begin(u)
  BY <1>1 DEF Begin, Go
<1>2. CASE FindCompany(u)
  BY <1>2 DEF FindCompany, Go
<1>3. CASE CreateCompany(u)
  BY <1>3 DEF CreateCompany, Go, Flush
<1>4. CASE FindUploader(u)
  BY <1>4 DEF FindUploader, Go
<1>5. CASE CreateUploader(u)
  BY <1>5 DEF CreateUploader, Go, Flush
<1>6. CASE AddPolicy(u)
  BY <1>6 DEF AddPolicy, Go, Flush
<1>7. CASE StoreFile(u)
  BY <1>7 DEF StoreFile, Go, Flush
<1>8. CASE ExtractText(u)
  BY <1>8 DEF ExtractText, Go
<1>9. CASE AddVersion(u)
  BY <1>9 DEF AddVersion, Go, Flush
<1>10. CASE AuditUpload(u)
  BY <1>10 DEF AuditUpload, Go, Flush
<1>11. CASE CommitBare(u)
  BY <1>11, <1>t, <1>o DEF CommitBare, Go, Commit
<1>12. CASE Segment(u)
  BY <1>12 DEF Segment, Go
<1>13. CASE SegmentFails(u)
  BY <1>13 DEF SegmentFails, Go
<1>14. CASE SaveClauses(u)
  BY <1>14, <1>t, <1>o DEF SaveClauses, Go, Commit
<1>15. CASE SaveClausesRejected(u)
  BY <1>15 DEF SaveClausesRejected, Go
<1>16. CASE ReadBackFails(u)
  BY <1>16 DEF ReadBackFails, Go
<1>17. CASE AuditSegmentation(u)
  BY <1>17 DEF AuditSegmentation, Go, Flush
<1>18. CASE SecondCommit(u)
  BY <1>18, <1>t, <1>o DEF SecondCommit, Go, Commit
<1>19. CASE LaunchThread(u)
  BY <1>19 DEF LaunchThread, Go
<1>20. CASE LaunchFails(u)
  BY <1>20 DEF LaunchFails, Go
<1>21. CASE Salvage(u)
  BY <1>21, <1>t, <1>o DEF Salvage, Go, Commit
<1>22. CASE Respond(u)
  BY <1>22 DEF Respond, Go
<1>23. CASE Fail(u)
  BY <1>23 DEF Fail
<1>24. CASE Crash(u)
  BY <1>24 DEF Crash
<1> QED
  BY <1>1, <1>2, <1>3, <1>4, <1>5, <1>6, <1>7, <1>8, <1>9, <1>10, <1>11, <1>12,
     <1>13, <1>14, <1>15, <1>16, <1>17, <1>18, <1>19, <1>20, <1>21, <1>22,
     <1>23, <1>24 DEF Step

\* So what the invariant says of the others remains true.
LEMMA OthersKeep ==
    ASSUME CallInv, NEW u \in Upload, Alone(u), NEW v \in Upload, v # u
    PROVE  CallOf(v)'
<1>1. CallOf(v)
  BY DEF CallInv
<1>2. /\ pc'[v] = pc[v] /\ company'[v] = company[v] /\ uploader'[v] = uploader[v]
      /\ tx'[v] = tx[v] /\ answer'[v] = answer[v]
      /\ v \in threads' <=> v \in threads
  BY DEF Alone
<1>3. \A t : Own(t, v)' = Own(t, v) /\ (Own(t, v) \in db' <=> Own(t, v) \in db)
  BY <1>2 DEF Alone, Own, Row
<1>4. CompanyRow(v)' = CompanyRow(v) /\ db \subseteq db'
  BY <1>2 DEF Alone, CompanyRow, Row
<1>5. NothingOf(v)' = NothingOf(v)
  BY DEF Alone, NothingOf
<1>6. WholeIn(v, db) => WholeIn(v, db)'
  BY <1>2, <1>3, <1>4 DEF WholeIn
<1>7. WholeIn(v, db \cup tx[v]) => WholeIn(v, db \cup tx[v])'
  BY <1>2, <1>3, <1>4 DEF WholeIn
<1>8. PreparedOf(v) => PreparedOf(v)'
  BY <1>2, <1>3, <1>4, <1>5 DEF PreparedOf
<1>9. SalvageableOf(v) => SalvageableOf(v)'
  BY <1>2, <1>3, <1>5, <1>6, <1>7 DEF SalvageableOf
<1> QED
  BY <1>1, <1>2, <1>3, <1>5, <1>6, <1>8, <1>9 DEF CallOf

-----------------------------------------------------------------------------
\* Nothing is stored before the first request ...
LEMMA InitCalls == Init => CallInv
BY DEF Init, CallInv, CallOf, NothingOf, Preparing, Between, Ended

\* ... and each step of a call keeps what is said of that call.
LEMMA StepKeepsOwn ==
    ASSUME TypeOK, CallInv, NEW u \in Upload, Step(u)
    PROVE  CallOf(u)'
<1> USE DEF Preparing, Between, Ended, Core
<1>c. CallOf(u)
  BY DEF CallInv
<1>t. /\ pc \in [Upload -> Stage] /\ tx \in [Upload -> SUBSET Rows0]
      /\ company \in [Upload -> CompanyKey] /\ uploader \in [Upload -> Rows0]
      /\ db \subseteq Rows0 /\ answer \in [Upload -> {"none", "created", "failed"}]
  BY DEF TypeOK, Rows0
<1>d. NothingOf(u) \/ WholeIn(u, db)
  BY <1>c, <1>t DEF CallOf, PreparedOf, SalvageableOf, Stage, Resting, Fallible
<1>1. CASE Begin(u)
  BY <1>1, <1>c, <1>t DEF Begin, Go, Own, Row, CompanyRow, NothingOf, WholeIn,
       PreparedOf, SalvageableOf, CallOf
<1>2. CASE FindCompany(u)
  BY <1>2, <1>c, <1>t DEF FindCompany, Go, Candidates, Own, Row, CompanyRow,
       NothingOf, WholeIn, PreparedOf, SalvageableOf, CallOf
<1>3. CASE CreateCompany(u)
  <2>1. PICK name \in CompanyName :
          /\ pc[u] = "company" /\ pc'[u] = "uploader"
          /\ company'[u] = <<name, u>>
          /\ tx'[u] = tx[u] \cup {Row("company", <<name, u>>, u)}
          /\ db' = db /\ threads' = threads /\ answer' = answer
    BY <1>3, <1>t, UploadAssumption DEF CreateCompany, Go, Flush
  <2>2. NothingOf(u) /\ tx[u] = {}
    BY <2>1, <1>c DEF CallOf
  <2>3. tx'[u] = {Row("company", <<name, u>>, u)} /\ CompanyRow(u)' \in tx'[u]
    BY <2>1, <2>2 DEF CompanyRow
  <2>4. PreparedOf(u)' /\ \A r \in tx'[u] : r.by = u
    BY <2>1, <2>2, <2>3 DEF PreparedOf, NothingOf, Own, Row
  <2> QED
    BY <2>1, <2>4, <1>c DEF CallOf
<1>4. CASE FindUploader(u)
  BY <1>4, <1>c, <1>t DEF FindUploader, Go, Own, Row, CompanyRow, NothingOf,
       WholeIn, PreparedOf, SalvageableOf, CallOf
<1>5. CASE CreateUploader(u)
  <2>1. /\ pc[u] = "uploader" /\ pc'[u] = "policy"
        /\ tx'[u] = tx[u] \cup {Own("user", u)}
        /\ db' = db /\ company' = company /\ uploader'[u] = Own("user", u)
        /\ threads' = threads /\ answer' = answer
    BY <1>5, <1>t DEF CreateUploader, Go, Flush
  <2>2. PreparedOf(u) /\ \A r \in tx[u] : r.by = u
    BY <2>1, <1>c DEF CallOf
  <2>3. PreparedOf(u)' /\ \A r \in tx'[u] : r.by = u
    BY <2>1, <2>2 DEF PreparedOf, NothingOf, CompanyRow, Own, Row
  <2> QED
    BY <2>1, <2>3, <1>c DEF CallOf
<1>6. CASE AddPolicy(u)
  <2>1. /\ pc[u] = "policy" /\ pc'[u] = "store"
        /\ tx'[u] = tx[u] \cup {Own("policy", u)}
        /\ db' = db /\ company' = company /\ uploader' = uploader
        /\ threads' = threads /\ answer' = answer
    BY <1>6, <1>t DEF AddPolicy, Go, Flush
  <2>2. PreparedOf(u) /\ \A r \in tx[u] : r.by = u
    BY <2>1, <1>c DEF CallOf
  <2>3. PreparedOf(u)' /\ \A r \in tx'[u] : r.by = u
    BY <2>1, <2>2 DEF PreparedOf, NothingOf, CompanyRow, Own, Row
  <2> QED
    BY <2>1, <2>3, <1>c DEF CallOf
<1>7. CASE StoreFile(u)
  <2>1. /\ pc[u] = "store" /\ pc'[u] = "extract"
        /\ tx'[u] = tx[u] \cup {Own("stored_files", u)}
        /\ db' = db /\ company' = company /\ uploader' = uploader
        /\ threads' = threads /\ answer' = answer
    BY <1>7, <1>t DEF StoreFile, Go, Flush
  <2>2. PreparedOf(u) /\ \A r \in tx[u] : r.by = u
    BY <2>1, <1>c DEF CallOf
  <2>3. PreparedOf(u)' /\ \A r \in tx'[u] : r.by = u
    BY <2>1, <2>2 DEF PreparedOf, NothingOf, CompanyRow, Own, Row
  <2> QED
    BY <2>1, <2>3, <1>c DEF CallOf
<1>8. CASE ExtractText(u)
  BY <1>8, <1>c, <1>t DEF ExtractText, Go, Own, Row, CompanyRow, NothingOf,
       WholeIn, PreparedOf, SalvageableOf, CallOf
<1>9. CASE AddVersion(u)
  <2>1. /\ pc[u] = "version" /\ pc'[u] = "audit"
        /\ tx'[u] = tx[u] \cup {Own("version", u)}
        /\ db' = db /\ company' = company /\ uploader' = uploader
        /\ threads' = threads /\ answer' = answer
    BY <1>9, <1>t DEF AddVersion, Go, Flush
  <2>2. PreparedOf(u) /\ \A r \in tx[u] : r.by = u
    BY <2>1, <1>c DEF CallOf
  <2>3. PreparedOf(u)' /\ \A r \in tx'[u] : r.by = u
    BY <2>1, <2>2 DEF PreparedOf, NothingOf, CompanyRow, Own, Row
  <2> QED
    BY <2>1, <2>3, <1>c DEF CallOf
<1>10. CASE AuditUpload(u)
  <2>1. /\ pc[u] = "audit" /\ pc'[u] \in {"segment", "commit"}
        /\ tx'[u] \in {tx[u] \cup {Own("policy_upload", u)},
                      tx[u] \cup {Own("policy_upload", u), Own("text_extraction", u)}}
        /\ db' = db /\ company' = company /\ uploader' = uploader
        /\ threads' = threads /\ answer' = answer
    BY <1>10, <1>t DEF AuditUpload, Go, Flush
  <2>2. PreparedOf(u) /\ \A r \in tx[u] : r.by = u
    BY <2>1, <1>c DEF CallOf
  <2>3. PreparedOf(u)' /\ \A r \in tx'[u] : r.by = u
    BY <2>1, <2>2 DEF PreparedOf, NothingOf, CompanyRow, Own, Row
  <2> QED
    BY <2>1, <2>3, <1>c DEF CallOf
<1>11. CASE CommitBare(u)
  BY <1>11, <1>c, <1>t DEF CommitBare, Go, Commit, Own, Row, CompanyRow,
       NothingOf, WholeIn, PreparedOf, SalvageableOf, CallOf
<1>12. CASE Segment(u)
  BY <1>12, <1>c, <1>t DEF Segment, Go, Own, Row, CompanyRow, NothingOf, WholeIn,
       PreparedOf, SalvageableOf, CallOf
<1>13. CASE SegmentFails(u)
  BY <1>13, <1>c, <1>t DEF SegmentFails, Go, Own, Row, CompanyRow, NothingOf,
       WholeIn, PreparedOf, SalvageableOf, CallOf
<1>14. CASE SaveClauses(u)
  BY <1>14, <1>c, <1>t DEF SaveClauses, Go, Commit, Own, Row, CompanyRow,
       NothingOf, WholeIn, PreparedOf, SalvageableOf, CallOf
<1>15. CASE SaveClausesRejected(u)
  BY <1>15, <1>c, <1>t DEF SaveClausesRejected, Go, Own, Row, CompanyRow,
       NothingOf, WholeIn, PreparedOf, SalvageableOf, CallOf
<1>16. CASE ReadBackFails(u)
  BY <1>16, <1>c, <1>t DEF ReadBackFails, Go, Own, Row, CompanyRow, NothingOf,
       WholeIn, PreparedOf, SalvageableOf, CallOf
<1>17. CASE AuditSegmentation(u)
  <2>1. /\ pc[u] = "audit_segmentation" /\ pc'[u] = "commit_again"
        /\ tx'[u] = tx[u] \cup {Own("clause_segmentation", u)}
        /\ db' = db /\ company' = company /\ uploader' = uploader
        /\ threads' = threads /\ answer' = answer
    BY <1>17, <1>t DEF AuditSegmentation, Go, Flush
  <2>2. tx[u] = {} /\ WholeIn(u, db) /\ Own("clauses", u) \in db
    BY <2>1, <1>c DEF CallOf
  <2>3. /\ WholeIn(u, db)' /\ Own("clauses", u)' \in db'
        /\ tx'[u] = {Own("clause_segmentation", u)'}
    BY <2>1, <2>2 DEF WholeIn, CompanyRow, Own, Row
  <2>4. \A r \in tx'[u] : r.by = u
    BY <2>3 DEF Own, Row
  <2> QED
    BY <2>1, <2>3, <2>4, <1>c DEF CallOf
<1>18. CASE SecondCommit(u)
  BY <1>18, <1>c, <1>t DEF SecondCommit, Go, Commit, Own, Row, CompanyRow,
       NothingOf, WholeIn, PreparedOf, SalvageableOf, CallOf
<1>19. CASE LaunchThread(u)
  BY <1>19, <1>c, <1>t DEF LaunchThread, Go, Own, Row, CompanyRow, NothingOf,
       WholeIn, PreparedOf, SalvageableOf, CallOf
<1>20. CASE LaunchFails(u)
  BY <1>20, <1>c, <1>t DEF LaunchFails, Go, Own, Row, CompanyRow, NothingOf,
       WholeIn, PreparedOf, SalvageableOf, CallOf
<1>21. CASE Salvage(u)
  BY <1>21, <1>c, <1>t DEF Salvage, Go, Commit, Own, Row, CompanyRow, NothingOf,
       WholeIn, PreparedOf, SalvageableOf, CallOf
<1>22. CASE Respond(u)
  BY <1>22, <1>c, <1>t DEF Respond, Go, Own, Row, CompanyRow, NothingOf, WholeIn,
       PreparedOf, SalvageableOf, CallOf
<1>23. CASE Fail(u)
  <2>1. /\ pc'[u] = "answered" /\ tx'[u] = {} /\ db' = db
        /\ company' = company /\ uploader' = uploader /\ threads' = threads
    BY <1>23, <1>t DEF Fail
  <2>2. (NothingOf(u) \/ WholeIn(u, db))'
    BY <1>d, <2>1 DEF NothingOf, WholeIn, CompanyRow, Own, Row
  <2>3. u \in threads' =>
          /\ WholeIn(u, db)' /\ (Own("clauses", u) \in db)'
          /\ (Own("clause_segmentation", u) \in db)'
    BY <2>1, <1>c DEF CallOf, WholeIn, CompanyRow, Own, Row
  <2>4. answer'[u] # "none" => pc'[u] = "answered"
    BY <1>23, <1>t, <1>c, <2>1 DEF Fail, CallOf, Resting
  <2> QED
    BY <2>1, <2>2, <2>3, <2>4 DEF CallOf
<1>24. CASE Crash(u)
  <2>1. /\ pc'[u] = "dead" /\ tx'[u] = {} /\ db' = db
        /\ company' = company /\ uploader' = uploader /\ threads' = threads
    BY <1>24, <1>t DEF Crash
  <2>2. (NothingOf(u) \/ WholeIn(u, db))'
    BY <1>d, <2>1 DEF NothingOf, WholeIn, CompanyRow, Own, Row
  <2>3. u \in threads' =>
          /\ WholeIn(u, db)' /\ (Own("clauses", u) \in db)'
          /\ (Own("clause_segmentation", u) \in db)'
    BY <2>1, <1>c DEF CallOf, WholeIn, CompanyRow, Own, Row
  <2>4. answer'[u] # "none" => pc'[u] = "answered"
    BY <1>24, <1>t, <1>c, <2>1 DEF Crash, CallOf, Resting
  <2> QED
    BY <2>1, <2>2, <2>3, <2>4 DEF CallOf
<1> QED
  BY <1>1, <1>2, <1>3, <1>4, <1>5, <1>6, <1>7, <1>8, <1>9, <1>10, <1>11, <1>12,
     <1>13, <1>14, <1>15, <1>16, <1>17, <1>18, <1>19, <1>20, <1>21, <1>22,
     <1>23, <1>24 DEF Step

-----------------------------------------------------------------------------
\* The inductive invariant.
IInv == TypeOK /\ CallInv

LEMMA NextIInv == IInv /\ [Next]_vars => IInv'
<1> SUFFICES ASSUME IInv, [Next]_vars PROVE IInv'
  OBVIOUS
<1>1. CASE Next
  <2>1. PICK u \in Upload : Step(u)
    BY <1>1, NextIsStep
  <2>2. TypeOK' /\ Alone(u) /\ CallOf(u)'
    BY <2>1, StepTyped, StepAlone, StepKeepsOwn DEF IInv
  <2>3. \A v \in Upload : v # u => CallOf(v)'
    BY <2>2, OthersKeep DEF IInv
  <2> QED
    BY <2>2, <2>3 DEF IInv, CallInv
<1>2. CASE UNCHANGED vars
  <2>1. TypeOK'
    BY <1>2 DEF IInv, TypeOK, vars
  <2>2. ASSUME NEW u \in Upload PROVE CallOf(u)'
    <3>1. CallOf(u)
      BY DEF IInv, CallInv
    <3>2. PreparedOf(u) => PreparedOf(u)'
      BY <1>2 DEF PreparedOf, NothingOf, CompanyRow, Own, vars
    <3>3. /\ NothingOf(u)' = NothingOf(u)
          /\ WholeIn(u, db) => WholeIn(u, db)'
          /\ WholeIn(u, db \cup tx[u]) => WholeIn(u, db \cup tx[u])'
      BY <1>2 DEF NothingOf, WholeIn, CompanyRow, Own, vars
    <3>4. SalvageableOf(u) => SalvageableOf(u)'
      BY <1>2, <3>3 DEF SalvageableOf, Own, vars
    <3> QED
      BY <1>2, <3>1, <3>2, <3>3, <3>4 DEF CallOf, Own, vars
  <2> QED
    BY <2>1, <2>2 DEF IInv, CallInv
<1> QED
  BY <1>1, <1>2

LEMMA InvHolds == Spec => []IInv
<1>1. Init => IInv
  BY InitTyped, InitCalls DEF IInv
<1> QED
  BY <1>1, NextIInv, PTL DEF Spec

\* The variables keep their types, whatever the requests and companies.
THEOREM Typed == Spec => []TypeOK
<1>1. IInv => TypeOK
  BY DEF IInv
<1> QED
  BY <1>1, InvHolds, PTL

\* An upload is stored whole or not at all.
LEMMA NothingOrWhole ==
    ASSUME IInv, NEW u \in Upload
    PROVE  NothingOf(u) \/ WholeIn(u, db)
BY DEF IInv, TypeOK, CallInv, CallOf, PreparedOf, SalvageableOf, Stage, Resting, Fallible,
       Preparing, Between, Ended

\* No failure, rollback, handler or crash leaves a part of an upload behind, for
\* any number of requests.
THEOREM UploadsAreWhole == Spec => []PublishedTogether
<1>1. IInv => PublishedTogether
  <2> SUFFICES ASSUME IInv, NEW u \in Upload, NEW t, Stored(t, u)
               PROVE  /\ \A s \in Core : Stored(s, u)
                      /\ Row("company", company[u], company[u][2]) \in db
                      /\ uploader[u] \in db
                      /\ t = "clause_segmentation" => Stored("clauses", u)
    BY DEF PublishedTogether, Core
  <2>1. ~ NothingOf(u)
    BY DEF NothingOf, Stored, Own, Row
  <2> QED
    BY <2>1, NothingOrWhole DEF WholeIn, Stored, CompanyRow
<1> QED
  BY <1>1, InvHolds, PTL

\* A started analysis thread can read all the rows it looks up.
THEOREM ThreadsFindTheirRows == Spec => []ThreadFindsItsRows
<1>1. IInv => ThreadFindsItsRows
  <2> SUFFICES ASSUME IInv, NEW u \in threads
               PROVE  /\ Row("company", company[u], company[u][2]) \in db
                      /\ \A t \in {"version", "clauses", "clause_segmentation"} :
                            Stored(t, u)
    BY DEF ThreadFindsItsRows
  <2>1. u \in Upload
    BY DEF IInv, TypeOK
  <2>2. /\ WholeIn(u, db) /\ Own("clauses", u) \in db
        /\ Own("clause_segmentation", u) \in db
    BY <2>1 DEF IInv, CallInv, CallOf
  <2> QED
    BY <2>2 DEF WholeIn, CompanyRow, Core, Stored
<1> QED
  BY <1>1, InvHolds, PTL

-----------------------------------------------------------------------------
\* Only the first step of a call is taken from rest.
LEMMA StepsOfRunning ==
    ASSUME TypeOK, NEW u \in Upload, Step(u), ~ Begin(u)
    PROVE  pc[u] \notin Resting
BY DEF Step, FindCompany, CreateCompany, FindUploader, CreateUploader, AddPolicy, StoreFile,
       ExtractText, AddVersion, AuditUpload, CommitBare, Segment, SegmentFails, SaveClauses,
       SaveClausesRejected, ReadBackFails, AuditSegmentation, SecondCommit, LaunchThread,
       LaunchFails, Salvage, Respond, Fail, Crash, Go, Resting, Fallible

\* So no two calls are under way together.
LEMMA StepSerial ==
    ASSUME IInv, Serial, NEW u \in Upload, Step(u)
    PROVE  Serial'
<1>1. Alone(u)
  BY StepAlone DEF IInv
<1>2. CASE Begin(u)
  BY <1>1, <1>2 DEF Begin, Serial, Alone, Resting
<1>3. CASE ~ Begin(u)
  BY <1>1, <1>3, StepsOfRunning DEF IInv, Serial, Alone, Resting
<1> QED
  BY <1>2, <1>3

\* A step other than CreateCompany brings no company that was not there.
LEMMA NoNewCompany ==
    ASSUME IInv, NEW u \in Upload, Step(u), ~ CreateCompany(u)
    PROVE  Companies(db' \cup tx'[u]) \subseteq Companies(db \cup tx[u])
<1> USE DEF Companies, Own, Row
<1>t. tx \in [Upload -> SUBSET Rows0]
  BY DEF IInv, TypeOK, Rows0
<1>1. CASE Begin(u) \/ FindCompany(u) \/ FindUploader(u) \/ ExtractText(u)
           \/ Segment(u) \/ SegmentFails(u) \/ ReadBackFails(u) \/ LaunchThread(u)
           \/ LaunchFails(u) \/ Respond(u)
  BY <1>1, <1>t DEF Begin, FindCompany, FindUploader, ExtractText, Segment,
     SegmentFails, ReadBackFails, LaunchThread, LaunchFails, Respond
<1>2. CASE CreateUploader(u) \/ AddPolicy(u) \/ StoreFile(u) \/ AddVersion(u)
           \/ AuditUpload(u) \/ AuditSegmentation(u)
  BY <1>2, <1>t DEF CreateUploader, AddPolicy, StoreFile, AddVersion, AuditUpload,
     AuditSegmentation, Flush
<1>3. CASE CommitBare(u) \/ SaveClauses(u) \/ SecondCommit(u) \/ Salvage(u)
  BY <1>3, <1>t DEF CommitBare, SaveClauses, SecondCommit, Salvage, Commit
<1>4. CASE SaveClausesRejected(u) \/ Fail(u) \/ Crash(u)
  BY <1>4, <1>t DEF SaveClausesRejected, Fail, Crash
<1> QED
  BY <1>1, <1>2, <1>3, <1>4 DEF Step

\* Names stay unique among the rows of the call that takes the step: it creates
\* a company only after finding none of that name ...
LEMMA StepNamesOwn ==
    ASSUME IInv, NEW u \in Upload, NamesOf(u), Step(u)
    PROVE  NamesOf(u)'
<1>1. CASE ~ CreateCompany(u)
  BY <1>1, NoNewCompany DEF NamesOf, Companies, Row
<1>2. CASE CreateCompany(u)
  <2> DEFINE name == IF LookupOf[u] = "none" THEN DefaultName ELSE NameOf[u]
             new == Row("company", <<name, u>>, u)
  <2>1. tx[u] = {} /\ db \subseteq Rows0
    <3>1. pc[u] = "company" /\ CallOf(u)
      BY <1>2 DEF CreateCompany, Go, IInv, CallInv
    <3> QED
      BY <3>1 DEF CallOf, IInv, TypeOK, Rows0
  <2>2. db' = db /\ tx'[u] = {new}
    BY <1>2, <2>1 DEF CreateCompany, Flush, IInv, TypeOK
  <2>3. \A r \in Companies(db) : r = Row("company", r.key, r.key[2])
    BY <2>1 DEF NamesOf, Companies
  <2>4. \A r \in Companies(db) : r.key[1] # name
    <3>1. SUFFICES ASSUME NEW r \in Companies(db), r.key[1] = name PROVE FALSE
      OBVIOUS
    <3>2. r.key \in CompanyKey /\ Row("company", r.key, r.key[2]) \in db
      BY <2>1, <2>3 DEF Companies, Rows0
    <3>3. r.key \in Candidates(u)
      BY <3>1, <3>2 DEF Candidates
    <3> QED
      BY <1>2, <3>3 DEF CreateCompany
  <2>5. new.key = <<name, u>> /\ new.by = u /\ new.table = "company"
    BY DEF Row
  <2>6. Companies(db' \cup tx'[u]) = Companies(db) \cup {new}
    BY <2>2, <2>5 DEF Companies
  <2>7. \A r, s \in Companies(db) : r.key[1] = s.key[1] => r = s
    BY <2>1 DEF NamesOf, Companies
  <2>8. new = Row("company", new.key, new.key[2]) /\ new.key[1] = name
    BY <2>5
  <2> HIDE DEF new, name
  <2>9. \A r \in Companies(db' \cup tx'[u]) : r = Row("company", r.key, r.key[2])
    BY <2>3, <2>6, <2>8
  <2>10. \A r, s \in Companies(db' \cup tx'[u]) : r.key[1] = s.key[1] => r = s
    BY <2>4, <2>6, <2>7, <2>8
  <2> QED
    BY <2>9, <2>10 DEF NamesOf, Companies, Row
<1> QED
  BY <1>1, <1>2

\* ... and among those of the other calls, which have nothing pending.
LEMMA StepNames ==
    ASSUME IInv, NameInv, NEW u \in Upload, Step(u)
    PROVE  NameInv'
<1>1. Serial' /\ Alone(u) /\ NamesOf(u)'
  BY StepSerial, StepAlone, StepNamesOwn DEF IInv, NameInv
<1>2. ASSUME NEW v \in Upload, v # u PROVE NamesOf(v)'
  <2>1. tx[v] = {}
    <3>1. pc[v] \in Resting
      BY <1>2, StepsOfRunning DEF IInv, NameInv, Serial, Begin
    <3> QED
      BY <3>1 DEF IInv, CallInv, CallOf, Resting, Ended
  <2>2. db' \cup tx'[v] \subseteq db' \cup tx'[u]
    BY <1>1, <1>2, <2>1 DEF Alone
  <2> QED
    BY <1>1, <2>2 DEF NamesOf, Companies, Row
<1> QED
  BY <1>1, <1>2 DEF NameInv

\* A company name is registered once, however many requests ask for it.
THEOREM NamesAreUnique == Spec => []OneCompanyPerName
<1>1. Init => NameInv
  BY DEF Init, NameInv, Serial, NamesOf, Companies, Resting
<1>2. IInv /\ NameInv /\ [Next]_vars => NameInv'
  <2> SUFFICES ASSUME IInv, NameInv, [Next]_vars PROVE NameInv'
    OBVIOUS
  <2>1. CASE Next
    BY <2>1, NextIsStep, StepNames
  <2>2. CASE UNCHANGED vars
    BY <2>2 DEF vars, NameInv, Serial, NamesOf, Companies, Row
  <2> QED
    BY <2>1, <2>2
<1>3. IInv /\ NameInv => OneCompanyPerName
  <2> SUFFICES ASSUME IInv, NameInv, NEW r \in db, NEW s \in db,
                      r.table = "company", s.table = "company",
                      r.key[1] = s.key[1]
               PROVE  r = s
    BY DEF OneCompanyPerName
  <2>1. PICK u \in Upload : r.by = u
    BY DEF IInv, TypeOK
  <2> QED
    BY <2>1 DEF NameInv, NamesOf, Companies
<1> QED
  BY <1>1, <1>2, <1>3, InvHolds, PTL DEF Spec

-----------------------------------------------------------------------------
\* What is shown of an upload depends on its policy and its clauses.
ShowsOf(u) ==
    IF ~ Stored("policy", u) THEN "nothing"
    ELSE IF Stored("clauses", u) THEN "document and clauses"
    ELSE "document"

LEMMA NothingShown ==
    ASSUME NEW u \in Upload, NothingOf(u)
    PROVE  ShowsOf(u) = "nothing"
BY DEF ShowsOf, Stored, NothingOf, Own, Row

\* What a step of the call of u may do to what is shown and answered of u: it
\* publishes, it answers, or it changes neither.
Publishes(u) ==
    /\ ShowsOf(u) = "nothing" /\ answer[u] = "none"
    /\ ShowsOf(u)' \in {"document", "document and clauses"}
    /\ answer' = answer

Answers(u) ==
    /\ answer[u] = "none" /\ ShowsOf(u)' = ShowsOf(u)
    /\ \E a \in {"created", "failed"} : answer' = [answer EXCEPT ![u] = a]

Keeps(u) == ShowsOf(u)' = ShowsOf(u) /\ answer' = answer

\* A step that commits nothing shows nothing new: the company of a request changes
\* only while nothing of it is stored.
LEMMA UncommittedShowsSame ==
    ASSUME NEW u \in Upload, db' = db, company'[u] = company[u] \/ NothingOf(u)
    PROVE  ShowsOf(u)' = ShowsOf(u)
<1>1. CASE company'[u] = company[u]
  BY <1>1 DEF ShowsOf, Stored, Own, Row
<1>2. CASE NothingOf(u)
  BY <1>2 DEF ShowsOf, Stored, NothingOf, Own, Row
<1> QED
  BY <1>1, <1>2

LEMMA StepShows ==
    ASSUME IInv, NEW u \in Upload, Step(u)
    PROVE  Publishes(u) \/ Answers(u) \/ Keeps(u)
<1>c. CallOf(u) /\ tx \in [Upload -> SUBSET Rows0]
  BY DEF IInv, CallInv, TypeOK, Rows0
<1>1. CASE FindCompany(u) \/ CreateCompany(u)
  BY <1>1, <1>c, UncommittedShowsSame DEF FindCompany, CreateCompany, Go, CallOf, Keeps
<1>2. CASE Begin(u) \/ FindUploader(u) \/ ExtractText(u) \/ Segment(u) \/ SegmentFails(u)
           \/ ReadBackFails(u) \/ LaunchThread(u) \/ LaunchFails(u)
  BY <1>2, UncommittedShowsSame DEF Begin, FindUploader, ExtractText, Segment,
     SegmentFails, ReadBackFails, LaunchThread, LaunchFails, Keeps
<1>3. CASE CreateUploader(u) \/ AddPolicy(u) \/ StoreFile(u) \/ AddVersion(u)
           \/ AuditUpload(u) \/ AuditSegmentation(u) \/ SaveClausesRejected(u) \/ Crash(u)
  BY <1>3, UncommittedShowsSame DEF CreateUploader, AddPolicy, StoreFile, AddVersion,
     AuditUpload, AuditSegmentation, SaveClausesRejected, Crash, Keeps
<1>4. CASE Respond(u) \/ Fail(u)
  <2>1. ShowsOf(u)' = ShowsOf(u)
    BY <1>4, UncommittedShowsSame DEF Respond, Fail
  <2>2. pc[u] # "answered"
    BY <1>4 DEF Respond, Fail, Go, Fallible
  <2>3. answer[u] = "none"
    BY <2>2, <1>c DEF CallOf
  <2> QED
    BY <1>4, <2>1, <2>3 DEF Respond, Fail, Answers
<1>5. CASE CommitBare(u) \/ SaveClauses(u)
  <2>1. /\ pc[u] \in {"commit", "clauses"} /\ tx[u] \subseteq db'
        /\ company' = company /\ answer' = answer
    BY <1>5 DEF CommitBare, SaveClauses, Commit, Go
  <2>2. PreparedOf(u) /\ answer[u] = "none"
    BY <2>1, <1>c DEF CallOf, Preparing
  <2>3. NothingOf(u) /\ Own("policy", u) \in tx[u]
    BY <2>1, <2>2 DEF PreparedOf
  <2>4. ShowsOf(u) = "nothing"
    BY <2>3, NothingShown
  <2>5. Stored("policy", u)'
    BY <2>1, <2>3 DEF Stored, Own
  <2> QED
    BY <2>1, <2>2, <2>4, <2>5 DEF ShowsOf, Publishes
<1>6. CASE SecondCommit(u)
  <2>1. /\ pc[u] = "commit_again" /\ db' = db \cup tx[u]
        /\ company' = company /\ answer' = answer
    BY <1>6 DEF SecondCommit, Commit, Go
  <2>2. tx[u] = {Own("clause_segmentation", u)}
    BY <2>1, <1>c DEF CallOf
  <2>3. \A t \in {"policy", "clauses"} : Stored(t, u)' = Stored(t, u)
    BY <2>1, <2>2 DEF Stored, Own, Row
  <2> QED
    BY <2>1, <2>3 DEF ShowsOf, Keeps
<1>7. CASE Salvage(u)
  <2>1. /\ pc[u] = "salvage" /\ db' = db \cup tx[u]
        /\ company' = company /\ answer' = answer
    BY <1>7 DEF Salvage, Commit, Go
  <2>2. SalvageableOf(u) /\ answer[u] = "none"
    BY <2>1, <1>c DEF CallOf
  <2>3. CASE tx[u] = {}
    BY <2>1, <2>3, UncommittedShowsSame DEF Keeps
  <2>4. CASE NothingOf(u) /\ WholeIn(u, db \cup tx[u])
    <3>1. Own("policy", u) \in db'
      BY <2>1, <2>4 DEF WholeIn, Core
    <3>2. ShowsOf(u) = "nothing" /\ Stored("policy", u)'
      BY <2>1, <2>4, <3>1, NothingShown DEF Stored, Own
    <3> QED
      BY <2>1, <2>2, <3>2 DEF ShowsOf, Publishes
  <2> QED
    BY <2>2, <2>3, <2>4 DEF SalvageableOf
<1> QED
  BY <1>1, <1>2, <1>3, <1>4, <1>5, <1>6, <1>7 DEF Step

\* PolicyUpload implements UploadAtomicity: readers see an upload appear in one
\* step, before its client is answered, and never see it change.
THEOREM Atomic == Spec => UploadIsAtomic
<1>1. Init => Atomicity!Init
  <2> SUFFICES ASSUME Init PROVE Atomicity!Init
    OBVIOUS
  <2>1. Shown = [u \in Upload |-> "nothing"]
    BY DEF Init, Shown, Stored
  <2> QED
    BY <2>1 DEF Init, Atomicity!Init
<1>2. IInv /\ [Next]_vars => [Atomicity!Next]_<<Shown, answer>>
  <2> SUFFICES ASSUME IInv, [Next]_vars
               PROVE  [Atomicity!Next]_<<Shown, answer>>
    OBVIOUS
  <2>s. Shown = [v \in Upload |-> ShowsOf(v)] /\ Shown' = [v \in Upload |-> ShowsOf(v)']
    BY DEF Shown, ShowsOf
  <2>1. CASE UNCHANGED vars
    BY <2>1 DEF vars, Shown, Stored, Own
  <2>2. CASE Next
    <3>1. PICK u \in Upload : Step(u)
      BY <2>2, NextIsStep
    <3>2. ASSUME NEW v \in Upload, v # u PROVE ShowsOf(v)' = ShowsOf(v)
      <4>1. Alone(u)
        BY <3>1, StepAlone DEF IInv
      <4>2. \A t \in {"policy", "clauses"} : Stored(t, v)' = Stored(t, v)
        BY <3>2, <4>1 DEF Alone, Stored, Own, Row
      <4> QED
        BY <4>2 DEF ShowsOf
    <3>3. Shown' = [Shown EXCEPT ![u] = ShowsOf(u)'] /\ Shown[u] = ShowsOf(u)
      BY <2>s, <3>2
    <3>4. CASE Publishes(u)
      BY <3>3, <3>4 DEF Publishes, Atomicity!Next, Atomicity!Publish
    <3>5. CASE Answers(u)
      <4>1. Shown' = Shown
        BY <2>s, <3>2, <3>5 DEF Answers
      <4> QED
        BY <4>1, <3>5 DEF Answers, Atomicity!Next, Atomicity!Answer
    <3>6. CASE Keeps(u)
      BY <2>s, <3>2, <3>6 DEF Keeps
    <3> QED
      BY <3>1, <3>4, <3>5, <3>6, StepShows
  <2> QED
    BY <2>1, <2>2
<1> QED
  BY <1>1, <1>2, InvHolds, PTL DEF Spec, UploadIsAtomic, Atomicity!Spec

=============================================================================
