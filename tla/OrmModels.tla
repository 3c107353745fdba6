------------------------------ MODULE OrmModels ------------------------------
(***************************************************************************)
(* The tables as the ORM models of backend/models declare them, and when a *)
(* schema serves a model: rows can be written and read through it.         *)
(***************************************************************************)
EXTENDS DatabaseSchema

-----------------------------------------------------------------------------
(* The Python enums, by their labels. *)

UserRole == {"admin", "compliance_officer", "department_head", "auditor", "viewer"}
PolicyStatus == {"draft", "active", "archived", "superseded"}
PolicyVersionStatus == {"draft", "under_review", "published", "superseded"}
ClauseType == {"obligation", "definition", "prohibition", "permission", "procedural"}
ExtractionMethod == {"ai", "manual", "rule_based"}
MappingType == {"satisfies", "partially_satisfies", "references"}
FindingType == {"conflict", "redundancy", "staleness", "gap", "breach"}
FindingSeverity == {"low", "medium", "high", "critical"}
FindingStatus == {"open", "under_review", "resolved", "dismissed"}
DetectionMethod == {"z3_formal_proof", "ai_inference", "rule_based"}
FindingClauseRole == {"primary", "counterpart"}
AuditAction == {"created", "updated", "uploaded", "approved", "resolved", "dismissed", "deleted", "login"}
AuditableEntityType ==
    {"company", "department", "user", "policy", "policy_version", "clause", "obligation",
     "regulatory_framework", "regulatory_clause", "clause_regulatory_mapping", "finding",
     "finding_clause_link"}
PolicyDocumentFileType == {"txt", "md", "pdf", "docx"}

-----------------------------------------------------------------------------
(* The model classes.  A statement writes the filled columns always, the free
   ones perhaps as null, and leaves the generated ones to the server; labels
   are what the enum columns may hold. *)

Model(filled, free, generated, labels, refs) ==
    [filled |-> filled, free |-> free, generated |-> generated, labels |-> labels, refs |-> refs]

NoLabels == [c \in {} |-> {}]

(* UUIDPrimaryKeyMixin, TimestampMixin and SoftDeleteMixin *)
Mixed(filled, free, labels, refs) ==
    Model(filled, free \cup {"deleted_at"}, {"id", "created_at", "updated_at"}, labels, refs)

Company ==
    Mixed({"name", "is_active"}, {"industry", "jurisdiction", "registration_number"}, NoLabels, {})
Department ==
    Mixed({"company_id", "name"}, {"parent_department_id", "code", "description"}, NoLabels,
          {<<"company_id", "companies">>, <<"parent_department_id", "departments">>})
User ==
    Mixed({"company_id", "email", "password_hash", "full_name", "role", "is_active"},
          {"department_id", "last_login_at"}, [role |-> UserRole],
          {<<"company_id", "companies">>, <<"department_id", "departments">>})
Policy ==
    Mixed({"company_id", "title", "status"},
          {"owning_department_id", "policy_code", "category", "current_version_id"},
          [status |-> PolicyStatus],
          {<<"company_id", "companies">>, <<"owning_department_id", "departments">>,
           <<"current_version_id", "policy_versions">>})
PolicyVersion ==
    Mixed({"policy_id", "version_number", "source_file_reference", "file_hash",
           "uploaded_by_user_id", "status", "uploaded_at", "original_filename", "size_bytes",
           "file_type"},
          {"effective_date", "superseded_by_version_id", "ai_summary", "extracted_text", "description"},
          [status |-> PolicyVersionStatus, file_type |-> PolicyDocumentFileType],
          {<<"policy_id", "policies">>, <<"uploaded_by_user_id", "users">>,
           <<"superseded_by_version_id", "policy_versions">>})
Clause ==
    Mixed({"policy_id", "policy_version_id", "text", "order_index", "extracted_by"},
          {"parent_clause_id", "clause_number", "heading", "clause_type"},
          [clause_type |-> ClauseType, extracted_by |-> ExtractionMethod],
          {<<"policy_id", "policies">>, <<"policy_version_id", "policy_versions">>,
           <<"parent_clause_id", "clauses">>})
Obligation ==
    Mixed({"clause_id", "policy_id", "subject", "action", "object", "modality",
           "compliance_category", "confidence_score", "ai_model"},
          {"conditions", "time_constraint"}, NoLabels,
          {<<"clause_id", "clauses">>, <<"policy_id", "policies">>})
RegulatoryFramework ==
    Mixed({"name"}, {"jurisdiction", "issuing_body", "edition_or_version", "effective_date",
                     "description"}, NoLabels, {})
RegulatoryClause ==
    Mixed({"regulatory_framework_id", "clause_reference", "title", "text"}, {"category"}, NoLabels,
          {<<"regulatory_framework_id", "regulatory_frameworks">>})
ClauseRegulatoryMapping ==
    Mixed({"clause_id", "regulatory_clause_id", "mapping_type"},
          {"confidence_score", "verified_by_user_id", "verified_at"}, [mapping_type |-> MappingType],
          {<<"clause_id", "clauses">>, <<"regulatory_clause_id", "regulatory_clauses">>,
           <<"verified_by_user_id", "users">>})
Finding ==
    Mixed({"company_id", "finding_type", "severity", "status", "title", "description",
           "detection_method", "detected_at"},
          {"proof_reference", "confidence_score", "regulatory_clause_id", "resolved_by_user_id",
           "resolved_at", "resolution_notes"},
          [finding_type |-> FindingType, severity |-> FindingSeverity, status |-> FindingStatus,
           detection_method |-> DetectionMethod],
          {<<"company_id", "companies">>, <<"regulatory_clause_id", "regulatory_clauses">>,
           <<"resolved_by_user_id", "users">>})
FindingClauseLink ==
    Mixed({"finding_id", "clause_id"}, {"role_in_finding"}, [role_in_finding |-> FindingClauseRole],
          {<<"finding_id", "findings">>, <<"clause_id", "clauses">>})
AuditLog ==
    Model({"company_id", "action", "entity_type", "entity_id", "occurred_at"},
          {"actor_user_id", "before_state", "after_state", "ip_address"}, {"id"},
          [action |-> AuditAction, entity_type |-> AuditableEntityType],
          {<<"company_id", "companies">>, <<"actor_user_id", "users">>})
Conflict ==
    Mixed({"source_policy_id", "target_policy_id", "conflict_type", "similarity_score", "severity",
           "status"},
          {"source_obligation_id", "target_obligation_id", "ai_explanation", "relationship_type",
           "explanation", "confidence_score", "temporal_conflict", "strength_conflict",
           "staleness_status", "detected_parameters"}, NoLabels,
          {<<"source_policy_id", "policies">>, <<"target_policy_id", "policies">>,
           <<"source_obligation_id", "obligations">>, <<"target_obligation_id", "obligations">>})
Recommendation ==
    Mixed({"conflict_id", "recommendation_summary", "suggested_action", "reason", "ai_model",
           "confidence_score", "status"},
          {"original_clause", "revised_clause", "reviewer_name", "reviewed_at", "review_comments"},
          NoLabels, {<<"conflict_id", "conflicts">>})
ComplianceAuditLog ==
    Model({"company_id", "event_type", "user_identifier", "description"}, {}, {"id", "occurred_at"},
          NoLabels, {<<"company_id", "companies">>})
RegulatoryMapping ==
    Mixed({"policy_id", "obligation_id", "framework_name", "regulation_id", "clause_number",
           "confidence_score", "ai_explanation"}, {}, NoLabels,
          {<<"policy_id", "policies">>, <<"obligation_id", "obligations">>})
FileBlob ==
    Model({"storage_path", "content", "size_bytes"}, {"content_type"}, {"created_at"}, NoLabels, {})

(* Base.metadata: every table a model declares. *)
Models ==
    [companies |-> Company, departments |-> Department, users |-> User,
     policies |-> Policy, policy_versions |-> PolicyVersion, clauses |-> Clause,
     obligations |-> Obligation, regulatory_frameworks |-> RegulatoryFramework,
     regulatory_clauses |-> RegulatoryClause,
     clause_regulatory_mappings |-> ClauseRegulatoryMapping, findings |-> Finding,
     finding_clause_links |-> FindingClauseLink, audit_logs |-> AuditLog,
     conflicts |-> Conflict, recommendations |-> Recommendation,
     compliance_audit_logs |-> ComplianceAuditLog,
     regulatory_mappings |-> RegulatoryMapping, stored_files |-> FileBlob]
AllTables == DOMAIN Models

-----------------------------------------------------------------------------
(* Every column of the model exists; what the model leaves out or may leave
   null, the table accepts without; every label is one of the column's type. *)
Serves(s, t) ==
    /\ t \in Tables(s)
    /\ LET table == s.tables[t]
           columns == DOMAIN table.cols
           model == Models[t]
       IN  /\ model.filled \cup model.free \cup model.generated \subseteq columns
           /\ model.free \subseteq Nullable(s, t)
           /\ \A c \in columns \ (model.filled \cup model.free) :
                 table.cols[c].null \/ table.cols[c].default
           /\ \A c \in DOMAIN model.labels :
                 c \in DOMAIN table.types /\ model.labels[c] \subseteq s.enums[table.types[c]]

ExpectedForeignKeys == UNION {{<<t, k[1], k[2]>> : k \in Models[t].refs} : t \in AllTables}

=============================================================================
