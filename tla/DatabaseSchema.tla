--------------------------- MODULE DatabaseSchema ---------------------------
(***************************************************************************)
(* The fourteen migrations of backend/alembic/versions as sequences of     *)
(* statements, and the tables the ORM models of backend/models declare.    *)
(***************************************************************************)
EXTENDS Ddl

Id == Dflt({"id"})
Timestamps == Dflt({"created_at", "updated_at"})
SoftDelete == Opt({"deleted_at"})
Standard == Id ++ Timestamps ++ SoftDelete
UpdatedAtTrigger(t) == Trigger(t, "set_updated_at")

-----------------------------------------------------------------------------
(* 517c2ef6e254, the initial schema: types and functions, then table by table. *)

AllEnums == <<
    CreateEnum("user_role", {"admin", "compliance_officer", "department_head", "auditor", "viewer"}),
    CreateEnum("policy_status", {"draft", "active", "archived", "superseded"}),
    CreateEnum("policy_version_status", {"draft", "under_review", "published", "superseded"}),
    CreateEnum("clause_type", {"obligation", "definition", "prohibition", "permission", "procedural"}),
    CreateEnum("extraction_method", {"ai", "manual"}),
    CreateEnum("obligation_deadline_type", {"one_time", "recurring", "conditional"}),
    CreateEnum("obligation_priority", {"low", "medium", "high", "critical"}),
    CreateEnum("obligation_status", {"active", "fulfilled", "breached"}),
    CreateEnum("mapping_type", {"satisfies", "partially_satisfies", "references"}),
    CreateEnum("finding_type", {"conflict", "redundancy", "staleness", "gap", "breach"}),
    CreateEnum("finding_severity", {"low", "medium", "high", "critical"}),
    CreateEnum("finding_status", {"open", "under_review", "resolved", "dismissed"}),
    CreateEnum("detection_method", {"z3_formal_proof", "ai_inference", "rule_based"}),
    CreateEnum("finding_clause_role", {"primary", "counterpart"}),
    CreateEnum("audit_action", {"created", "updated", "uploaded", "approved", "resolved",
                                "dismissed", "deleted", "login"}),
    CreateEnum("auditable_entity_type",
        {"company", "department", "user", "policy", "policy_version", "clause", "obligation",
         "regulatory_framework", "regulatory_clause", "clause_regulatory_mapping", "finding",
         "finding_clause_link"}) >>

Functions == <<CreateFunction("set_updated_at"), CreateFunction("prevent_mutation")>>

CreateCompanies == <<
    CreateTable("companies",
        Standard ++ Req({"name"}) ++ Dflt({"is_active"})
                 ++ Opt({"industry", "jurisdiction", "registration_number"}),
        NoTypes, {}),
    UniqueIndex("companies_registration_number_key", "companies", {"registration_number"}),
    Index("companies_active_idx", "companies", {"is_active"}),
    UpdatedAtTrigger("companies") >>

CreateDepartments == <<
    CreateTable("departments",
        Standard ++ Req({"company_id", "name"}) ++ Opt({"parent_department_id", "code", "description"}),
        NoTypes, {<<"company_id", "companies">>, <<"parent_department_id", "departments">>}),
    Index("departments_company_id_idx", "departments", {"company_id"}),
    Index("departments_parent_id_idx", "departments", {"parent_department_id"}),
    UniqueIndex("departments_company_code_key", "departments", {"company_id", "code"}),
    UpdatedAtTrigger("departments") >>

CreateUsers == <<
    CreateTable("users",
        Standard ++ Req({"company_id", "email", "password_hash", "full_name"})
                 ++ Dflt({"role", "is_active"}) ++ Opt({"department_id", "last_login_at"}),
        [role |-> "user_role"],
        {<<"company_id", "companies">>, <<"department_id", "departments">>}),
    UniqueIndex("users_email_key", "users", {"email"}),
    Index("users_company_id_idx", "users", {"company_id"}),
    Index("users_department_id_idx", "users", {"department_id"}),
    Index("users_role_idx", "users", {"role"}),
    UpdatedAtTrigger("users") >>

CreatePolicies == <<
    CreateTable("policies",
        Standard ++ Req({"company_id", "owning_department_id", "title"}) ++ Dflt({"status"})
                 ++ Opt({"policy_code", "category", "current_version_id"}),
        [status |-> "policy_status"],
        {<<"company_id", "companies">>, <<"owning_department_id", "departments">>}),
    Index("policies_company_id_idx", "policies", {"company_id"}),
    Index("policies_department_id_idx", "policies", {"owning_department_id"}),
    Index("policies_status_idx", "policies", {"status"}),
    UniqueIndex("policies_company_code_key", "policies", {"company_id", "policy_code"}),
    UpdatedAtTrigger("policies") >>

CreatePolicyVersions == <<
    CreateTable("policy_versions",
        Standard ++ Req({"policy_id", "version_number", "source_file_reference", "file_hash",
                         "uploaded_by_user_id"})
                 ++ Dflt({"status", "uploaded_at"})
                 ++ Opt({"effective_date", "superseded_by_version_id", "ai_summary"}),
        [status |-> "policy_version_status"],
        {<<"policy_id", "policies">>, <<"uploaded_by_user_id", "users">>,
         <<"superseded_by_version_id", "policy_versions">>}),
    Index("policy_versions_policy_id_idx", "policy_versions", {"policy_id"}),
    Index("policy_versions_uploaded_by_idx", "policy_versions", {"uploaded_by_user_id"}),
    Index("policy_versions_status_idx", "policy_versions", {"status"}),
    Index("policy_versions_superseded_by_idx", "policy_versions", {"superseded_by_version_id"}),
    UniqueIndex("policy_versions_policy_version_key", "policy_versions", {"policy_id", "version_number"}),
    UpdatedAtTrigger("policy_versions") >>

(* The other half of the circle between policies and policy_versions. *)
CloseCurrentVersion == <<
    ForeignKey("policies_current_version_fk", "policies", "current_version_id", "policy_versions"),
    Index("policies_current_version_id_idx", "policies", {"current_version_id"}) >>

CreateClauses == <<
    CreateTable("clauses",
        Standard ++ Req({"policy_version_id", "clause_number", "text", "clause_type"})
                 ++ Dflt({"order_index", "extracted_by"}) ++ Opt({"heading"}),
        [clause_type |-> "clause_type", extracted_by |-> "extraction_method"],
        {<<"policy_version_id", "policy_versions">>}),
    Index("clauses_policy_version_id_idx", "clauses", {"policy_version_id"}),
    Index("clauses_clause_type_idx", "clauses", {"clause_type"}),
    UniqueIndex("clauses_version_number_key", "clauses", {"policy_version_id", "clause_number"}),
    UpdatedAtTrigger("clauses") >>

CreateObligations == <<
    CreateTable("obligations",
        Standard ++ Req({"clause_id", "description", "action_required", "deadline_type"})
                 ++ Dflt({"priority", "status"})
                 ++ Opt({"responsible_department_id", "deadline_expression"}),
        [deadline_type |-> "obligation_deadline_type", priority |-> "obligation_priority",
         status |-> "obligation_status"],
        {<<"clause_id", "clauses">>, <<"responsible_department_id", "departments">>}),
    Index("obligations_clause_id_idx", "obligations", {"clause_id"}),
    Index("obligations_department_id_idx", "obligations", {"responsible_department_id"}),
    Index("obligations_status_idx", "obligations", {"status"}),
    UpdatedAtTrigger("obligations") >>

CreateRegulatoryFrameworks == <<
    CreateTable("regulatory_frameworks",
        Standard ++ Req({"name"})
                 ++ Opt({"jurisdiction", "issuing_body", "edition_or_version", "effective_date",
                         "description"}),
        NoTypes, {}),
    UniqueIndex("regulatory_frameworks_name_edition_key", "regulatory_frameworks",
                {"name", "edition_or_version"}),
    UpdatedAtTrigger("regulatory_frameworks") >>

CreateRegulatoryClauses == <<
    CreateTable("regulatory_clauses",
        Standard ++ Req({"regulatory_framework_id", "clause_reference", "title", "text"})
                 ++ Opt({"category"}),
        NoTypes, {<<"regulatory_framework_id", "regulatory_frameworks">>}),
    Index("regulatory_clauses_framework_id_idx", "regulatory_clauses", {"regulatory_framework_id"}),
    UniqueIndex("regulatory_clauses_framework_reference_key", "regulatory_clauses",
                {"regulatory_framework_id", "clause_reference"}),
    UpdatedAtTrigger("regulatory_clauses") >>

CreateClauseRegulatoryMappings == <<
    CreateTable("clause_regulatory_mappings",
        Standard ++ Req({"clause_id", "regulatory_clause_id", "mapping_type"})
                 ++ Opt({"confidence_score", "verified_by_user_id", "verified_at"}),
        [mapping_type |-> "mapping_type"],
        {<<"clause_id", "clauses">>, <<"regulatory_clause_id", "regulatory_clauses">>,
         <<"verified_by_user_id", "users">>}),
    Index("crm_clause_id_idx", "clause_regulatory_mappings", {"clause_id"}),
    Index("crm_regulatory_clause_id_idx", "clause_regulatory_mappings", {"regulatory_clause_id"}),
    Index("crm_verified_by_idx", "clause_regulatory_mappings", {"verified_by_user_id"}),
    UniqueIndex("crm_clause_regulatory_clause_key", "clause_regulatory_mappings",
                {"clause_id", "regulatory_clause_id"}),
    UpdatedAtTrigger("clause_regulatory_mappings") >>

CreateFindings == <<
    CreateTable("findings",
        Standard ++ Req({"company_id", "finding_type", "severity", "title", "description",
                         "detection_method"})
                 ++ Dflt({"status", "detected_at"})
                 ++ Opt({"proof_reference", "confidence_score", "regulatory_clause_id",
                         "resolved_by_user_id", "resolved_at", "resolution_notes"}),
        [finding_type |-> "finding_type", severity |-> "finding_severity", status |-> "finding_status",
         detection_method |-> "detection_method"],
        {<<"company_id", "companies">>, <<"regulatory_clause_id", "regulatory_clauses">>,
         <<"resolved_by_user_id", "users">>}),
    Index("findings_company_id_idx", "findings", {"company_id"}),
    Index("findings_status_idx", "findings", {"status"}),
    Index("findings_type_idx", "findings", {"finding_type"}),
    Index("findings_severity_idx", "findings", {"severity"}),
    Index("findings_regulatory_clause_id_idx", "findings", {"regulatory_clause_id"}),
    Index("findings_resolved_by_idx", "findings", {"resolved_by_user_id"}),
    UpdatedAtTrigger("findings") >>

CreateFindingClauseLinks == <<
    CreateTable("finding_clause_links",
        Standard ++ Req({"finding_id", "clause_id"}) ++ Opt({"role_in_finding"}),
        [role_in_finding |-> "finding_clause_role"],
        {<<"finding_id", "findings">>, <<"clause_id", "clauses">>}),
    Index("fcl_finding_id_idx", "finding_clause_links", {"finding_id"}),
    Index("fcl_clause_id_idx", "finding_clause_links", {"clause_id"}),
    UniqueIndex("fcl_finding_clause_key", "finding_clause_links", {"finding_id", "clause_id"}),
    UpdatedAtTrigger("finding_clause_links") >>

CreateAuditLogs == <<
    CreateTable("audit_logs",
        Id ++ Req({"company_id", "action", "entity_type", "entity_id"}) ++ Dflt({"occurred_at"})
           ++ Opt({"actor_user_id", "before_state", "after_state", "ip_address"}),
        [action |-> "audit_action", entity_type |-> "auditable_entity_type"],
        {<<"company_id", "companies">>, <<"actor_user_id", "users">>}),
    Index("audit_logs_company_id_idx", "audit_logs", {"company_id"}),
    Index("audit_logs_actor_id_idx", "audit_logs", {"actor_user_id"}),
    Index("audit_logs_entity_idx", "audit_logs", {"entity_type", "entity_id"}),
    Index("audit_logs_occurred_at_idx", "audit_logs", {"occurred_at"}),
    Trigger("audit_logs", "prevent_mutation") >>

InitialDowngrade ==
    <<DropConstraint("policies_current_version_fk", "policies")>>
    \o [i \in 1..13 |-> DropTable(
           <<"audit_logs", "finding_clause_links", "findings", "clause_regulatory_mappings",
             "regulatory_clauses", "regulatory_frameworks", "obligations", "clauses",
             "policy_versions", "policies", "users", "departments", "companies">>[i])]
    \o <<DropFunction("prevent_mutation"), DropFunction("set_updated_at")>>
    \o [i \in 1..Len(AllEnums) |-> DropEnum(Reverse(AllEnums)[i].name)]

-----------------------------------------------------------------------------
(* The thirteen migrations after it. *)

AddUploadMetadata == <<
    CreateEnum("policy_document_file_type", {"txt", "md", "pdf", "docx"}),
    AddColumn("policy_versions", "original_filename", FALSE, "plain"),
    AddColumn("policy_versions", "size_bytes", FALSE, "plain"),
    AddColumn("policy_versions", "file_type", FALSE, "policy_document_file_type"),
    AddNullable("policy_versions", "description"),
    Check("policy_versions_size_bytes_positive", "policy_versions"),
    SetNullable("policies", "owning_department_id", TRUE) >>

DropUploadMetadata == <<
    SetNullable("policies", "owning_department_id", FALSE),
    DropConstraint("policy_versions_size_bytes_positive", "policy_versions"),
    DropColumn("policy_versions", "description"),
    DropColumn("policy_versions", "file_type"),
    DropColumn("policy_versions", "size_bytes"),
    DropColumn("policy_versions", "original_filename"),
    DropEnum("policy_document_file_type") >>

(* A faulty variant: the columns keep demanding values. *)
AddClauseHierarchyStrict == <<
    AddLabel("extraction_method", "rule_based"),
    AddNullable("clauses", "policy_id"),
    Backfill("clauses", "policy_id"),
    SetNullable("clauses", "policy_id", FALSE),
    ForeignKey("clauses_policy_id_fkey", "clauses", "policy_id", "policies"),
    Index("clauses_policy_id_idx", "clauses", {"policy_id"}),
    AddNullable("clauses", "parent_clause_id"),
    ForeignKey("clauses_parent_clause_id_fkey", "clauses", "parent_clause_id", "clauses"),
    Check("clauses_parent_not_self", "clauses"),
    Index("clauses_parent_clause_id_idx", "clauses", {"parent_clause_id"}) >>

AddClauseHierarchy == <<
    AddLabel("extraction_method", "rule_based"),
    AddNullable("clauses", "policy_id"),
    Backfill("clauses", "policy_id"),
    SetNullable("clauses", "policy_id", FALSE),
    ForeignKey("clauses_policy_id_fkey", "clauses", "policy_id", "policies"),
    Index("clauses_policy_id_idx", "clauses", {"policy_id"}),
    AddNullable("clauses", "parent_clause_id"),
    ForeignKey("clauses_parent_clause_id_fkey", "clauses", "parent_clause_id", "clauses"),
    Check("clauses_parent_not_self", "clauses"),
    Index("clauses_parent_clause_id_idx", "clauses", {"parent_clause_id"}),
    SetNullable("clauses", "clause_number", TRUE),
    SetNullable("clauses", "clause_type", TRUE) >>

DropClauseHierarchy == <<      \* the label 'rule_based' stays
    SetNullable("clauses", "clause_type", FALSE),
    SetNullable("clauses", "clause_number", FALSE),
    DropIndex("clauses_parent_clause_id_idx", "clauses"),
    DropConstraint("clauses_parent_not_self", "clauses"),
    DropConstraint("clauses_parent_clause_id_fkey", "clauses"),
    DropColumn("clauses", "parent_clause_id"),
    DropIndex("clauses_policy_id_idx", "clauses"),
    DropConstraint("clauses_policy_id_fkey", "clauses"),
    DropColumn("clauses", "policy_id") >>

AddExtractedText == <<AddNullable("policy_versions", "extracted_text")>>
DropExtractedTextNot == <<>>   \* a faulty variant: the downgrade was left empty
DropExtractedText == <<DropColumn("policy_versions", "extracted_text")>>

RecreateObligations == <<
    DropTable("obligations"),
    CreateTable("obligations",
        Standard ++ Req({"clause_id", "policy_id", "subject", "action", "object", "modality",
                         "compliance_category", "confidence_score", "ai_model"})
                 ++ Opt({"conditions", "time_constraint"}),
        NoTypes, {<<"clause_id", "clauses">>, <<"policy_id", "policies">>}),
    Index("obligations_clause_id_idx", "obligations", {"clause_id"}),
    Index("obligations_policy_id_idx", "obligations", {"policy_id"}) >>

(* Not the inverse: the old table comes back without its server defaults,
   its indexes and its trigger. *)
RestoreObligations == <<
    DropIndex("obligations_policy_id_idx", "obligations"),
    DropIndex("obligations_clause_id_idx", "obligations"),
    DropTable("obligations"),
    CreateTable("obligations",
        SoftDelete ++ Req({"id", "clause_id", "description", "action_required", "deadline_type",
                           "priority", "status", "created_at", "updated_at"})
                   ++ Opt({"responsible_department_id", "deadline_expression"}),
        [deadline_type |-> "obligation_deadline_type", priority |-> "obligation_priority",
         status |-> "obligation_status"],
        {<<"clause_id", "clauses">>, <<"responsible_department_id", "departments">>}) >>

CreateConflicts == <<
    CreateTable("conflicts",
        Standard ++ Req({"source_policy_id", "target_policy_id", "conflict_type", "similarity_score",
                         "severity"})
                 ++ Dflt({"status"})
                 ++ Opt({"source_obligation_id", "target_obligation_id", "ai_explanation"}),
        NoTypes,
        {<<"source_policy_id", "policies">>, <<"target_policy_id", "policies">>,
         <<"source_obligation_id", "obligations">>, <<"target_obligation_id", "obligations">>}),
    Index("ix_conflicts_source_policy_id", "conflicts", {"source_policy_id"}),
    Index("ix_conflicts_target_policy_id", "conflicts", {"target_policy_id"}),
    Index("ix_conflicts_status", "conflicts", {"status"}) >>

DropConflicts == <<
    DropIndex("ix_conflicts_status", "conflicts"),
    DropIndex("ix_conflicts_target_policy_id", "conflicts"),
    DropIndex("ix_conflicts_source_policy_id", "conflicts"),
    DropTable("conflicts") >>

CreateRecommendations == <<
    CreateTable("recommendations",
        Standard ++ Req({"conflict_id", "recommendation_summary", "suggested_action", "reason",
                         "ai_model", "confidence_score"})
                 ++ Dflt({"status"}) ++ Opt({"original_clause", "revised_clause"}),
        NoTypes, {<<"conflict_id", "conflicts">>}),
    Index("ix_recommendations_conflict_id", "recommendations", {"conflict_id"}),
    Index("ix_recommendations_status", "recommendations", {"status"}) >>

DropRecommendations == <<
    DropIndex("ix_recommendations_status", "recommendations"),
    DropIndex("ix_recommendations_conflict_id", "recommendations"),
    DropTable("recommendations") >>

CreateComplianceAuditLogs == <<
    CreateTable("compliance_audit_logs",
        Id ++ Req({"company_id", "event_type", "user_identifier", "description"})
           ++ Dflt({"occurred_at"}),
        NoTypes, {<<"company_id", "companies">>}),
    Index("ix_compliance_audit_logs_company_id", "compliance_audit_logs", {"company_id"}),
    Index("ix_compliance_audit_logs_event_type", "compliance_audit_logs", {"event_type"}) >>

DropComplianceAuditLogs == <<
    DropIndex("ix_compliance_audit_logs_event_type", "compliance_audit_logs"),
    DropIndex("ix_compliance_audit_logs_company_id", "compliance_audit_logs"),
    DropTable("compliance_audit_logs") >>

(* A faulty variant: the table is recreated, as obligations is. *)
AddReviewFieldsRecreating ==
    DropRecommendations \o CreateRecommendations \o <<
    AddNullable("recommendations", "reviewer_name"),
    AddNullable("recommendations", "reviewed_at"),
    AddNullable("recommendations", "review_comments") >>

AddReviewFields == <<
    AddNullable("recommendations", "reviewer_name"),
    AddNullable("recommendations", "reviewed_at"),
    AddNullable("recommendations", "review_comments") >>
DropReviewFields == <<
    DropColumn("recommendations", "review_comments"),
    DropColumn("recommendations", "reviewed_at"),
    DropColumn("recommendations", "reviewer_name") >>

AddRelationshipColumns == <<
    AddNullable("conflicts", "relationship_type"),
    AddNullable("conflicts", "explanation"),
    AddNullable("conflicts", "confidence_score") >>
DropRelationshipColumns == <<
    DropColumn("conflicts", "confidence_score"),
    DropColumn("conflicts", "explanation"),
    DropColumn("conflicts", "relationship_type") >>

AddFindingsColumns == <<
    AddNullable("conflicts", "temporal_conflict"),
    AddNullable("conflicts", "strength_conflict"),
    AddNullable("conflicts", "staleness_status"),
    AddNullable("conflicts", "detected_parameters") >>
DropFindingsColumns == <<
    DropColumn("conflicts", "detected_parameters"),
    DropColumn("conflicts", "staleness_status"),
    DropColumn("conflicts", "strength_conflict"),
    DropColumn("conflicts", "temporal_conflict") >>

CreateRegulatoryMappings == <<
    CreateTable("regulatory_mappings",
        Standard ++ Req({"policy_id", "obligation_id", "framework_name", "regulation_id",
                         "clause_number", "confidence_score", "ai_explanation"}),
        NoTypes, {<<"obligation_id", "obligations">>, <<"policy_id", "policies">>}) >>
DropRegulatoryMappings == <<DropTable("regulatory_mappings")>>

CreateStoredFiles == <<
    CreateTable("stored_files",
        Req({"storage_path", "content", "size_bytes"}) ++ Opt({"content_type"})
            ++ Dflt({"created_at"}),
        NoTypes, {}) >>
DropStoredFiles == <<DropTable("stored_files")>>

RemoveVersionNumberKey == <<DropIndex("clauses_version_number_key", "clauses")>>
RestoreVersionNumberKey == <<
    UniqueIndex("clauses_version_number_key", "clauses", {"policy_version_id", "clause_number"}) >>

-----------------------------------------------------------------------------
(* The chain of revisions, by position; 0 is the empty database. *)

InitialUpgrade ==
    AllEnums \o Functions \o CreateCompanies \o CreateDepartments \o CreateUsers \o CreatePolicies
    \o CreatePolicyVersions \o CloseCurrentVersion \o CreateClauses \o CreateObligations
    \o CreateRegulatoryFrameworks \o CreateRegulatoryClauses \o CreateClauseRegulatoryMappings
    \o CreateFindings \o CreateFindingClauseLinks \o CreateAuditLogs

Revisions == <<
    [upgrade |-> InitialUpgrade,            downgrade |-> InitialDowngrade],        \* 517c2ef6e254
    [upgrade |-> AddUploadMetadata,         downgrade |-> DropUploadMetadata],      \* 881fa18357a3
    [upgrade |-> AddClauseHierarchy,        downgrade |-> DropClauseHierarchy],     \* d7a145d9bdc8
    [upgrade |-> AddExtractedText,          downgrade |-> DropExtractedText],       \* e82fa18357a4
    [upgrade |-> RecreateObligations,       downgrade |-> RestoreObligations],      \* f82fa18357a5
    [upgrade |-> CreateConflicts,           downgrade |-> DropConflicts],           \* a82fa18357a6
    [upgrade |-> CreateRecommendations,     downgrade |-> DropRecommendations],     \* a82fa18357a7
    [upgrade |-> CreateComplianceAuditLogs, downgrade |-> DropComplianceAuditLogs], \* a82fa18357a8
    [upgrade |-> AddReviewFields,           downgrade |-> DropReviewFields],        \* a82fa18357a9
    [upgrade |-> AddRelationshipColumns,    downgrade |-> DropRelationshipColumns], \* f3a8ae9b7add
    [upgrade |-> AddFindingsColumns,        downgrade |-> DropFindingsColumns],     \* 08b078539026
    [upgrade |-> CreateRegulatoryMappings,  downgrade |-> DropRegulatoryMappings],  \* 2fa2f947fae4
    [upgrade |-> CreateStoredFiles,         downgrade |-> DropStoredFiles],         \* b17c9f4a2e01
    [upgrade |-> RemoveVersionNumberKey,    downgrade |-> RestoreVersionNumberKey]  \* f8392285028b
    >>
HeadRevision == Len(Revisions)

=============================================================================
