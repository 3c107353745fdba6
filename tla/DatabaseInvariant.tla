------------------------- MODULE DatabaseInvariant --------------------------
(***************************************************************************)
(* What holds of a database over its life: the inductive invariants behind *)
(* the properties of DatabaseLifecycle, and the vocabulary they are stated *)
(* in.                                                                     *)
(*                                                                         *)
(* A place in the migrations is a direction d, a revision r and the number *)
(* n of the statement that comes next there; d is "none" between           *)
(* migrations, with n = 1.  For every place the module says, table by table *)
(* and in closed form, what the schema holds there (Fits); what a statement *)
(* must be to lead from one place to the next (Placed); and which rows there *)
(* can be whatever the place (RowsOk).  The definitions are read off the   *)
(* scripts of DatabaseSchema; that they are right is what is proved.       *)
(***************************************************************************)
EXTENDS DatabaseLifecycle

(* The foreign keys a table is created with: those whose parent a row needs, *)
(* and the others; and the columns that accept null wherever they are.       *)
Refers ==
    [companies |-> {}, departments |-> {<<"company_id", "companies">>},
     users |-> {<<"company_id", "companies">>},
     policies |-> {<<"company_id", "companies">>, <<"owning_department_id", "departments">>},
     policy_versions |-> {<<"policy_id", "policies">>, <<"uploaded_by_user_id", "users">>},
     clauses |-> {<<"policy_version_id", "policy_versions">>},
     obligations |-> {<<"clause_id", "clauses">>},
     regulatory_frameworks |-> {},
     regulatory_clauses |-> {<<"regulatory_framework_id", "regulatory_frameworks">>},
     clause_regulatory_mappings |-> {}, findings |-> {}, finding_clause_links |-> {},
     audit_logs |-> {},
     conflicts |-> {<<"source_policy_id", "policies">>, <<"target_policy_id", "policies">>},
     recommendations |-> {<<"conflict_id", "conflicts">>},
     compliance_audit_logs |-> {<<"company_id", "companies">>},
     regulatory_mappings |-> {<<"obligation_id", "obligations">>, <<"policy_id", "policies">>},
     stored_files |-> {}]
Others ==
    [companies |-> {}, departments |-> {<<"parent_department_id", "departments">>},
     users |-> {<<"department_id", "departments">>},
     policies |-> {},
     policy_versions |-> {<<"superseded_by_version_id", "policy_versions">>},
     clauses |-> {},
     obligations |-> {<<"policy_id", "policies">>, <<"responsible_department_id", "departments">>},
     regulatory_frameworks |-> {}, regulatory_clauses |-> {},
     clause_regulatory_mappings |->
        {<<"clause_id", "clauses">>, <<"regulatory_clause_id", "regulatory_clauses">>,
         <<"verified_by_user_id", "users">>},
     findings |-> {<<"company_id", "companies">>, <<"regulatory_clause_id", "regulatory_clauses">>,
         <<"resolved_by_user_id", "users">>},
     finding_clause_links |-> {<<"finding_id", "findings">>, <<"clause_id", "clauses">>},
     audit_logs |-> {<<"company_id", "companies">>, <<"actor_user_id", "users">>},
     conflicts |-> {<<"source_obligation_id", "obligations">>, <<"target_obligation_id", "obligations">>},
     recommendations |-> {}, compliance_audit_logs |-> {}, regulatory_mappings |-> {}, stored_files |-> {}]
Blank ==
    [companies |-> {}, departments |-> {}, users |-> {"department_id"},
     policies |-> {"current_version_id"}, policy_versions |-> {}, clauses |-> {},
     obligations |-> {"responsible_department_id"}, regulatory_frameworks |-> {}, regulatory_clauses |-> {},
     clause_regulatory_mappings |-> {}, findings |-> {}, finding_clause_links |-> {},
     audit_logs |-> {}, conflicts |-> {"source_obligation_id", "target_obligation_id"},
     recommendations |-> {}, compliance_audit_logs |-> {}, regulatory_mappings |-> {}, stored_files |-> {}]

(* A place: direction d, revision r, about to run statement n; d is "none"
   between migrations.  A part of the schema made by statement `up` of the
   upgrade of revision rev and removed by statement `down` of its downgrade: *)
Stands(rev, up, down, d, r, n) ==
    IF d = "down" THEN rev < r \/ (rev = r /\ n <= down) ELSE rev <= r \/ (rev = r + 1 /\ up < n)

(* The table obligations is replaced by another of that name, and back. *)
OldGone(d, r, n) == Stands(5, 1, 4, d, r, n)
IsNew(d, r, n) == Stands(5, 2, 3, d, r, n)

HasTable(t, d, r, n) ==
    \/ t = "companies" /\ Stands(1, 19, 14, d, r, n)
    \/ t = "departments" /\ Stands(1, 23, 13, d, r, n)
    \/ t = "users" /\ Stands(1, 28, 12, d, r, n)
    \/ t = "policies" /\ Stands(1, 34, 11, d, r, n)
    \/ t = "policy_versions" /\ Stands(1, 40, 10, d, r, n)
    \/ t = "clauses" /\ Stands(1, 49, 9, d, r, n)
    \/ t = "obligations" /\ Stands(1, 54, 8, d, r, n) /\ (OldGone(d, r, n) => IsNew(d, r, n))
    \/ t = "regulatory_frameworks" /\ Stands(1, 59, 7, d, r, n)
    \/ t = "regulatory_clauses" /\ Stands(1, 62, 6, d, r, n)
    \/ t = "clause_regulatory_mappings" /\ Stands(1, 66, 5, d, r, n)
    \/ t = "findings" /\ Stands(1, 72, 4, d, r, n)
    \/ t = "finding_clause_links" /\ Stands(1, 80, 3, d, r, n)
    \/ t = "audit_logs" /\ Stands(1, 85, 2, d, r, n)
    \/ t = "conflicts" /\ Stands(6, 1, 4, d, r, n)
    \/ t = "recommendations" /\ Stands(7, 1, 3, d, r, n)
    \/ t = "compliance_audit_logs" /\ Stands(8, 1, 3, d, r, n)
    \/ t = "regulatory_mappings" /\ Stands(12, 1, 1, d, r, n)
    \/ t = "stored_files" /\ Stands(13, 1, 1, d, r, n)

(* The columns added to tables, and the columns that accept null only later
   than their table accepts rows. *)
LateColumn(t, c, d, r, n) ==
    \/ t = "policy_versions" /\ c = "original_filename" /\ Stands(2, 2, 6, d, r, n)
    \/ t = "policy_versions" /\ c = "size_bytes" /\ Stands(2, 3, 5, d, r, n)
    \/ t = "policy_versions" /\ c = "file_type" /\ Stands(2, 4, 4, d, r, n)
    \/ t = "policy_versions" /\ c = "description" /\ Stands(2, 5, 3, d, r, n)
    \/ t = "policy_versions" /\ c = "extracted_text" /\ Stands(4, 1, 1, d, r, n)
    \/ t = "clauses" /\ c = "policy_id" /\ Stands(3, 2, 9, d, r, n)
    \/ t = "clauses" /\ c = "parent_clause_id" /\ Stands(3, 7, 6, d, r, n)
    \/ t = "recommendations" /\ c = "reviewer_name" /\ Stands(9, 1, 3, d, r, n)
    \/ t = "recommendations" /\ c = "reviewed_at" /\ Stands(9, 2, 2, d, r, n)
    \/ t = "recommendations" /\ c = "review_comments" /\ Stands(9, 3, 1, d, r, n)
    \/ t = "conflicts" /\ c = "relationship_type" /\ Stands(10, 1, 3, d, r, n)
    \/ t = "conflicts" /\ c = "explanation" /\ Stands(10, 2, 2, d, r, n)
    \/ t = "conflicts" /\ c = "confidence_score" /\ Stands(10, 3, 1, d, r, n)
    \/ t = "conflicts" /\ c = "temporal_conflict" /\ Stands(11, 1, 4, d, r, n)
    \/ t = "conflicts" /\ c = "strength_conflict" /\ Stands(11, 2, 3, d, r, n)
    \/ t = "conflicts" /\ c = "staleness_status" /\ Stands(11, 3, 2, d, r, n)
    \/ t = "conflicts" /\ c = "detected_parameters" /\ Stands(11, 4, 1, d, r, n)
Loose(t, c, d, r, n) ==
    \/ t = "policies" /\ c = "owning_department_id" /\ Stands(2, 7, 1, d, r, n)
    \/ t = "clauses" /\ c = "clause_number" /\ Stands(3, 11, 2, d, r, n)
    \/ t = "clauses" /\ c = "clause_type" /\ Stands(3, 12, 1, d, r, n)
    \/ t = "policy_versions" /\ c = "description" /\ Stands(2, 5, 3, d, r, n)
    \/ t = "policy_versions" /\ c = "extracted_text" /\ Stands(4, 1, 1, d, r, n)
    \/ t = "clauses" /\ c = "policy_id" /\ Stands(3, 2, 9, d, r, n) /\ ~Stands(3, 4, 9, d, r, n)
    \/ t = "clauses" /\ c = "parent_clause_id" /\ Stands(3, 7, 6, d, r, n)
    \/ t = "recommendations" /\ c = "reviewer_name" /\ Stands(9, 1, 3, d, r, n)
    \/ t = "recommendations" /\ c = "reviewed_at" /\ Stands(9, 2, 2, d, r, n)
    \/ t = "recommendations" /\ c = "review_comments" /\ Stands(9, 3, 1, d, r, n)
    \/ t = "conflicts" /\ c = "relationship_type" /\ Stands(10, 1, 3, d, r, n)
    \/ t = "conflicts" /\ c = "explanation" /\ Stands(10, 2, 2, d, r, n)
    \/ t = "conflicts" /\ c = "confidence_score" /\ Stands(10, 3, 1, d, r, n)
    \/ t = "conflicts" /\ c = "temporal_conflict" /\ Stands(11, 1, 4, d, r, n)
    \/ t = "conflicts" /\ c = "strength_conflict" /\ Stands(11, 2, 3, d, r, n)
    \/ t = "conflicts" /\ c = "staleness_status" /\ Stands(11, 3, 2, d, r, n)
    \/ t = "conflicts" /\ c = "detected_parameters" /\ Stands(11, 4, 1, d, r, n)

HasCheck(t, x, d, r, n) ==
    \/ t = "policy_versions" /\ x = "policy_versions_size_bytes_positive" /\ Stands(2, 6, 2, d, r, n)
    \/ t = "clauses" /\ x = "clauses_parent_not_self" /\ Stands(3, 9, 4, d, r, n)
(* The foreign keys added by name: of table t, column c, to table u, named x. *)
HasKey(t, c, u, x, d, r, n) ==
    \/ /\ t = "policies" /\ c = "current_version_id" /\ u = "policy_versions" /\ x = "policies_current_version_fk"
       /\ Stands(1, 47, 1, d, r, n)
    \/ /\ t = "clauses" /\ c = "policy_id" /\ u = "policies" /\ x = "clauses_policy_id_fkey"
       /\ Stands(3, 5, 8, d, r, n)
    \/ /\ t = "clauses" /\ c = "parent_clause_id" /\ u = "clauses" /\ x = "clauses_parent_clause_id_fkey"
       /\ Stands(3, 8, 5, d, r, n)

(* The indexes some statement drops by name: i on columns C of table t. *)
VersionKey == "clauses_version_number_key"
NamedIndex(i, t, C) ==
    \/ i = VersionKey /\ t = "clauses" /\ C = {"policy_version_id", "clause_number"}
    \/ i = "clauses_policy_id_idx" /\ t = "clauses" /\ C = {"policy_id"}
    \/ i = "clauses_parent_clause_id_idx" /\ t = "clauses" /\ C = {"parent_clause_id"}
    \/ i = "obligations_clause_id_idx" /\ t = "obligations" /\ C = {"clause_id"}
    \/ i = "obligations_policy_id_idx" /\ t = "obligations" /\ C = {"policy_id"}
    \/ i = "ix_conflicts_source_policy_id" /\ t = "conflicts" /\ C = {"source_policy_id"}
    \/ i = "ix_conflicts_target_policy_id" /\ t = "conflicts" /\ C = {"target_policy_id"}
    \/ i = "ix_conflicts_status" /\ t = "conflicts" /\ C = {"status"}
    \/ i = "ix_recommendations_conflict_id" /\ t = "recommendations" /\ C = {"conflict_id"}
    \/ i = "ix_recommendations_status" /\ t = "recommendations" /\ C = {"status"}
    \/ i = "ix_compliance_audit_logs_company_id" /\ t = "compliance_audit_logs" /\ C = {"company_id"}
    \/ i = "ix_compliance_audit_logs_event_type" /\ t = "compliance_audit_logs" /\ C = {"event_type"}
HasIndex(i, d, r, n) ==
    \/ i = VersionKey /\ Stands(1, 52, 9, d, r, n) /\ ~Stands(14, 1, 1, d, r, n)
    \/ i = "clauses_policy_id_idx" /\ Stands(3, 6, 7, d, r, n)
    \/ i = "clauses_parent_clause_id_idx" /\ Stands(3, 10, 3, d, r, n)
    \/ i = "obligations_clause_id_idx" /\ Stands(5, 3, 2, d, r, n)
    \/ i = "obligations_policy_id_idx" /\ Stands(5, 4, 1, d, r, n)
    \/ i = "ix_conflicts_source_policy_id" /\ Stands(6, 2, 3, d, r, n)
    \/ i = "ix_conflicts_target_policy_id" /\ Stands(6, 3, 2, d, r, n)
    \/ i = "ix_conflicts_status" /\ Stands(6, 4, 1, d, r, n)
    \/ i = "ix_recommendations_conflict_id" /\ Stands(7, 2, 2, d, r, n)
    \/ i = "ix_recommendations_status" /\ Stands(7, 3, 1, d, r, n)
    \/ i = "ix_compliance_audit_logs_company_id" /\ Stands(8, 2, 2, d, r, n)
    \/ i = "ix_compliance_audit_logs_event_type" /\ Stands(8, 3, 1, d, r, n)
(* The old table obligations has it only until the first downgrade past it. *)
Unsure(i, d, r, n) == i = "obligations_clause_id_idx" /\ ~OldGone(d, r, n)
(* The indexes the initial upgrade has made before its statement n. *)
Early(i, n) ==
    \/ i = "companies_registration_number_key" /\ 20 < n
    \/ i = "companies_active_idx" /\ 21 < n
    \/ i = "departments_company_id_idx" /\ 24 < n
    \/ i = "departments_parent_id_idx" /\ 25 < n
    \/ i = "departments_company_code_key" /\ 26 < n
    \/ i = "users_email_key" /\ 29 < n
    \/ i = "users_company_id_idx" /\ 30 < n
    \/ i = "users_department_id_idx" /\ 31 < n
    \/ i = "users_role_idx" /\ 32 < n
    \/ i = "policies_company_id_idx" /\ 35 < n
    \/ i = "policies_department_id_idx" /\ 36 < n
    \/ i = "policies_status_idx" /\ 37 < n
    \/ i = "policies_company_code_key" /\ 38 < n
    \/ i = "policy_versions_policy_id_idx" /\ 41 < n
    \/ i = "policy_versions_uploaded_by_idx" /\ 42 < n
    \/ i = "policy_versions_status_idx" /\ 43 < n
    \/ i = "policy_versions_superseded_by_idx" /\ 44 < n
    \/ i = "policy_versions_policy_version_key" /\ 45 < n
    \/ i = "policies_current_version_id_idx" /\ 48 < n
    \/ i = "clauses_policy_version_id_idx" /\ 50 < n
    \/ i = "clauses_clause_type_idx" /\ 51 < n
    \/ i = "clauses_version_number_key" /\ 52 < n
    \/ i = "obligations_clause_id_idx" /\ 55 < n
    \/ i = "obligations_department_id_idx" /\ 56 < n
    \/ i = "obligations_status_idx" /\ 57 < n
    \/ i = "regulatory_frameworks_name_edition_key" /\ 60 < n
    \/ i = "regulatory_clauses_framework_id_idx" /\ 63 < n
    \/ i = "regulatory_clauses_framework_reference_key" /\ 64 < n
    \/ i = "crm_clause_id_idx" /\ 67 < n
    \/ i = "crm_regulatory_clause_id_idx" /\ 68 < n
    \/ i = "crm_verified_by_idx" /\ 69 < n
    \/ i = "crm_clause_regulatory_clause_key" /\ 70 < n
    \/ i = "findings_company_id_idx" /\ 73 < n
    \/ i = "findings_status_idx" /\ 74 < n
    \/ i = "findings_type_idx" /\ 75 < n
    \/ i = "findings_severity_idx" /\ 76 < n
    \/ i = "findings_regulatory_clause_id_idx" /\ 77 < n
    \/ i = "findings_resolved_by_idx" /\ 78 < n
    \/ i = "fcl_finding_id_idx" /\ 81 < n
    \/ i = "fcl_clause_id_idx" /\ 82 < n
    \/ i = "fcl_finding_clause_key" /\ 83 < n
    \/ i = "audit_logs_company_id_idx" /\ 86 < n
    \/ i = "audit_logs_actor_id_idx" /\ 87 < n
    \/ i = "audit_logs_entity_idx" /\ 88 < n
    \/ i = "audit_logs_occurred_at_idx" /\ 89 < n

DocumentType == "policy_document_file_type"
HasEnum(e, d, r, n) ==
    \/ e = "user_role" /\ Stands(1, 1, 32, d, r, n)
    \/ e = "policy_status" /\ Stands(1, 2, 31, d, r, n)
    \/ e = "policy_version_status" /\ Stands(1, 3, 30, d, r, n)
    \/ e = "clause_type" /\ Stands(1, 4, 29, d, r, n)
    \/ e = "extraction_method" /\ Stands(1, 5, 28, d, r, n)
    \/ e = "obligation_deadline_type" /\ Stands(1, 6, 27, d, r, n)
    \/ e = "obligation_priority" /\ Stands(1, 7, 26, d, r, n)
    \/ e = "obligation_status" /\ Stands(1, 8, 25, d, r, n)
    \/ e = "mapping_type" /\ Stands(1, 9, 24, d, r, n)
    \/ e = "finding_type" /\ Stands(1, 10, 23, d, r, n)
    \/ e = "finding_severity" /\ Stands(1, 11, 22, d, r, n)
    \/ e = "finding_status" /\ Stands(1, 12, 21, d, r, n)
    \/ e = "detection_method" /\ Stands(1, 13, 20, d, r, n)
    \/ e = "finding_clause_role" /\ Stands(1, 14, 19, d, r, n)
    \/ e = "audit_action" /\ Stands(1, 15, 18, d, r, n)
    \/ e = "auditable_entity_type" /\ Stands(1, 16, 17, d, r, n)
    \/ e = DocumentType /\ Stands(2, 1, 7, d, r, n)
HasRuleBased(d, r, n) == Stands(3, 1, 9, d, r, n)
HasFunction(f, d, r, n) ==
    \/ f = "set_updated_at" /\ Stands(1, 17, 16, d, r, n)
    \/ f = "prevent_mutation" /\ Stands(1, 18, 15, d, r, n)
(* The labels an enum type is created with. *)
Label(e, l) ==
    \/ e = "user_role" /\ l \in {"admin", "compliance_officer", "department_head", "auditor", "viewer"}
    \/ e = "policy_status" /\ l \in {"draft", "active", "archived", "superseded"}
    \/ e = "policy_version_status" /\ l \in {"draft", "under_review", "published", "superseded"}
    \/ e = "clause_type" /\ l \in {"obligation", "definition", "prohibition", "permission", "procedural"}
    \/ e = "extraction_method" /\ l \in {"ai", "manual"}
    \/ e = "obligation_deadline_type" /\ l \in {"one_time", "recurring", "conditional"}
    \/ e = "obligation_priority" /\ l \in {"low", "medium", "high", "critical"}
    \/ e = "obligation_status" /\ l \in {"active", "fulfilled", "breached"}
    \/ e = "mapping_type" /\ l \in {"satisfies", "partially_satisfies", "references"}
    \/ e = "finding_type" /\ l \in {"conflict", "redundancy", "staleness", "gap", "breach"}
    \/ e = "finding_severity" /\ l \in {"low", "medium", "high", "critical"}
    \/ e = "finding_status" /\ l \in {"open", "under_review", "resolved", "dismissed"}
    \/ e = "detection_method" /\ l \in {"z3_formal_proof", "ai_inference", "rule_based"}
    \/ e = "finding_clause_role" /\ l \in {"primary", "counterpart"}
    \/ e = "audit_action" /\ l \in {"created", "updated", "uploaded", "approved", "resolved", "dismissed", "deleted",
            "login"}
    \/ e = "auditable_entity_type" /\ l \in {"company", "department", "user", "policy", "policy_version", "clause", "obligation",
            "regulatory_framework", "regulatory_clause", "clause_regulatory_mapping", "finding",
            "finding_clause_link"}
    \/ e = "policy_document_file_type" /\ l \in {"txt", "md", "pdf", "docx"}

(* The statement that made a table. *)
Created ==
    [companies |-> CreateCompanies[1], departments |-> CreateDepartments[1], users |-> CreateUsers[1],
     policies |-> CreatePolicies[1], policy_versions |-> CreatePolicyVersions[1],
     clauses |-> CreateClauses[1], obligations |-> RecreateObligations[2],
     regulatory_frameworks |-> CreateRegulatoryFrameworks[1],
     regulatory_clauses |-> CreateRegulatoryClauses[1],
     clause_regulatory_mappings |-> CreateClauseRegulatoryMappings[1], findings |-> CreateFindings[1],
     finding_clause_links |-> CreateFindingClauseLinks[1], audit_logs |-> CreateAuditLogs[1],
     conflicts |-> CreateConflicts[1], recommendations |-> CreateRecommendations[1],
     compliance_audit_logs |-> CreateComplianceAuditLogs[1],
     regulatory_mappings |-> CreateRegulatoryMappings[1], stored_files |-> CreateStoredFiles[1]]
Made(t, d, r, n) ==
    IF t = "obligations" /\ ~IsNew(d, r, n) THEN CreateObligations[1] ELSE Created[t]
FileType(t, c, d, r, n) ==
    t = "policy_versions" /\ c = "file_type" /\ LateColumn(t, c, d, r, n)

-----------------------------------------------------------------------------
(* The schema at a place. *)
ColumnsFit(cols, t, d, r, n) ==
    \A c : c \in DOMAIN cols <=> c \in DOMAIN Made(t, d, r, n).cols \/ LateColumn(t, c, d, r, n)
NullsFit(cols, t, d, r, n) ==
    \A c \in DOMAIN cols :
       cols[c].null <=> \/ c \in DOMAIN Made(t, d, r, n).cols /\ Made(t, d, r, n).cols[c].null
                        \/ Loose(t, c, d, r, n)
DefaultsFit(cols, t, d, r, n) ==
    \A c \in DOMAIN Made(t, d, r, n).cols :
       Made(t, d, r, n).cols[c].default /\ (t = "obligations" => IsNew(d, r, n)) => cols[c].default
TypesFit(types, t, d, r, n) ==
    /\ \A c : c \in DOMAIN types <=> c \in DOMAIN Made(t, d, r, n).types \/ FileType(t, c, d, r, n)
    /\ \A c \in DOMAIN Made(t, d, r, n).types : types[c] = Made(t, d, r, n).types[c]
    /\ \A c \in DOMAIN types \ DOMAIN Made(t, d, r, n).types : types[c] = DocumentType
ChecksFit(checks, t, d, r, n) == \A x : x \in checks <=> HasCheck(t, x, d, r, n)
KeysFit(refs, t, d, r, n) ==
    \A c, u, x : x # "" => (<<c, u, x>> \in refs <=> HasKey(t, c, u, x, d, r, n))

TableFits(table, t, d, r, n) ==
    /\ ColumnsFit(table.cols, t, d, r, n)
    /\ NullsFit(table.cols, t, d, r, n)
    /\ DefaultsFit(table.cols, t, d, r, n)
    /\ TypesFit(table.types, t, d, r, n)
    /\ ChecksFit(table.checks, t, d, r, n)
    /\ KeysFit(table.refs, t, d, r, n)
TablesFit(s, d, r, n) ==
    /\ \A t : t \in Tables(s) <=> HasTable(t, d, r, n)
    /\ \A t \in Tables(s) : TableFits(s.tables[t], t, d, r, n)
IndexesFit(s, d, r, n) ==
    /\ \A i \in DOMAIN s.indexes : i \notin AllTables /\ s.indexes[i].table \in Tables(s)
    /\ \A i, t, C : NamedIndex(i, t, C) =>
          /\ ~Unsure(i, d, r, n) => (i \in DOMAIN s.indexes <=> HasIndex(i, d, r, n))
          /\ i \in DOMAIN s.indexes => s.indexes[i].table = t /\ s.indexes[i].columns = C
    /\ d = "up" /\ r = 0 => \A i \in DOMAIN s.indexes : Early(i, n)
EnumsFit(s, d, r, n) ==
    /\ \A e : HasEnum(e, d, r, n) => e \in DOMAIN s.enums
    /\ \A e \in DOMAIN s.enums : \A l : Label(e, l) => l \in s.enums[e]
    /\ HasRuleBased(d, r, n) => "rule_based" \in s.enums["extraction_method"]
    /\ \A f : HasFunction(f, d, r, n) => f \in s.functions
Fits(s, d, r, n) == TablesFit(s, d, r, n) /\ IndexesFit(s, d, r, n) /\ EnumsFit(s, d, r, n)

-----------------------------------------------------------------------------
(* Whatever the place: the foreign keys of a table. *)
Named(t, c, u) ==
    \/ t = "policies" /\ c = "current_version_id" /\ u = "policy_versions"
    \/ t = "clauses" /\ c = "policy_id" /\ u = "policies"
    \/ t = "clauses" /\ c = "parent_clause_id" /\ u = "clauses"
KeyOk(k, table, t) ==
    /\ k = <<k[1], k[2], k[3]>> /\ k[1] \in DOMAIN table.cols
    /\ \/ k[3] = "" /\ <<k[1], k[2]>> \in Refers[t] \cup Others[t]
       \/ k[3] # "" /\ Named(t, k[1], k[2])
TableOk(table, t) ==
    /\ \A k \in table.refs : KeyOk(k, table, t)
    /\ \A k \in Refers[t] : <<k[1], k[2], "">> \in table.refs
    /\ \A c \in Blank[t] \cap DOMAIN table.cols : table.cols[c].null
SchemaOk(s) ==
    /\ s = [tables |-> s.tables, indexes |-> s.indexes, enums |-> s.enums, functions |-> s.functions]
    /\ Tables(s) \subseteq AllTables
    /\ \A t \in Tables(s) : TableOk(s.tables[t], t)
    /\ VersionKey \in DOMAIN s.indexes => s.indexes[VersionKey].table = "clauses"

-----------------------------------------------------------------------------
(* The rows. *)
Unwritten == {"clause_regulatory_mappings", "findings", "finding_clause_links", "audit_logs"}
WriterIn(rows, by, t) == \E w \in rows[t] : w.by = by
RowOk(rows, s, t, w) ==
    /\ t \in Tables(s) \ Unwritten
    /\ w.nulls \subseteq Nullable(s, t)
    /\ w.repeats \cap DOMAIN s.indexes = {}
    /\ w.repeats # {} => t = "clauses" /\ w.repeats = {VersionKey}
    /\ \A k \in Refers[t] : k # <<"owning_department_id", "departments">> => WriterIn(rows, w.by, k[2])
    /\ t = "policies" /\ "owning_department_id" \notin w.nulls => WriterIn(rows, w.by, "departments")
RowsOk(rows, s) ==
    /\ DOMAIN rows = AllTables
    /\ \A t \in AllTables : \A w \in rows[t] : RowOk(rows, s, t, w)
RowsFit(rows, s, d, r, n) ==
    /\ d = "up" /\ r = 0 => \A t \in AllTables : rows[t] = {}
    /\ SeedTables \subseteq Tables(s) /\ WriterIn(rows, "seed", "companies") =>
          \A t \in SeedTables : WriterIn(rows, "seed", t)
    /\ \A w \in rows["clauses"] : "policy_id" \in w.nulls => d = "up" /\ r = 2 /\ n = 3

-----------------------------------------------------------------------------
(* Statements and their places.                                            *)

(* What every statement of a direction keeps to. *)
Regular(dir, op) ==
    /\ OnTable(op) => op.table \in AllTables
    /\ op.do = "create_table" => Refers[op.table] \subseteq op.refs
    /\ op.do = "create_table" =>
          \A k \in op.refs : k = <<k[1], k[2]>> /\ k \in Refers[op.table] \cup Others[op.table]
    /\ op.do = "create_table" => \A c \in Blank[op.table] \cap DOMAIN op.cols : op.cols[c].null
    /\ op.do = "create_foreign_key" => Named(op.table, op.column, op.ref) /\ op.name # ""
    /\ op.do \in {"add_column", "alter_column"} => op.column \notin Blank[op.table]
    /\ op.do = "drop_column" => \A u : <<op.column, u>> \notin Refers[op.table]
    /\ op.do \in {"drop_column", "backfill"} => op.table # "policies"
    /\ op.do = "drop_constraint" => op.name # ""
    /\ op.do = "create_index" => (op.name = VersionKey => op.table = "clauses" /\ op.unique)
    /\ op.do = "drop_index" => (op.name = VersionKey => op.table = "clauses")
    /\ dir = "up" => (op.do = "drop_table" => op.table = "obligations")
    /\ dir = "down" => (op.do = "create_table" => op.table = "obligations")

(* The tables that may refer to table t, by the keys they are made with. *)
Points(u, t) ==
    \/ t = "companies" /\ u \in {"departments", "users", "policies", "findings", "audit_logs",
                                 "compliance_audit_logs"}
    \/ t = "departments" /\ u \in {"departments", "users", "policies", "obligations"}
    \/ t = "users" /\ u \in {"policy_versions", "clause_regulatory_mappings", "findings", "audit_logs"}
    \/ t = "policies" /\ u \in {"policy_versions", "obligations", "conflicts", "regulatory_mappings"}
    \/ t = "policy_versions" /\ u \in {"policy_versions", "clauses"}
    \/ t = "clauses" /\ u \in {"obligations", "clause_regulatory_mappings", "finding_clause_links"}
    \/ t = "obligations" /\ u \in {"conflicts", "regulatory_mappings"}
    \/ t = "regulatory_frameworks" /\ u = "regulatory_clauses"
    \/ t = "regulatory_clauses" /\ u \in {"clause_regulatory_mappings", "findings"}
    \/ t = "findings" /\ u = "finding_clause_links"
    \/ t = "conflicts" /\ u = "recommendations"

(* The indexes a statement drops by name. *)
DroppedIndexes ==
    {VersionKey, "clauses_policy_id_idx", "clauses_parent_clause_id_idx", "obligations_clause_id_idx",
     "obligations_policy_id_idx", "ix_conflicts_source_policy_id", "ix_conflicts_target_policy_id",
     "ix_conflicts_status", "ix_recommendations_conflict_id", "ix_recommendations_status",
     "ix_compliance_audit_logs_company_id", "ix_compliance_audit_logs_event_type"}

IsMade(t, c, d, r, n) == c \in DOMAIN Made(t, d, r, n).cols
Column(t, c, d, r, n) == IsMade(t, c, d, r, n) \/ LateColumn(t, c, d, r, n)

(* What the schema at a place holds for the statement there. *)
ReadyTable(op, d, r, n) ==
    /\ OnTable(op) /\ op.do # "create_table" => HasTable(op.table, d, r, n)
    /\ op.do = "create_table" =>
          /\ ~HasTable(op.table, d, r, n)
          /\ \A k \in op.refs : k[1] \in DOMAIN op.cols /\ (k[2] = op.table \/ HasTable(k[2], d, r, n))
          /\ DOMAIN op.types \subseteq DOMAIN op.cols
          /\ \A c \in DOMAIN op.types : HasEnum(op.types[c], d, r, n)
    /\ op.do = "drop_table" =>
          \A u : HasTable(u, d, r, n) /\ u # op.table =>
             ~Points(u, op.table) /\ \A c, x : ~HasKey(u, c, op.table, x, d, r, n)
ReadyColumn(op, d, r, n) ==
    /\ op.do = "add_column" =>
          ~Column(op.table, op.column, d, r, n) /\ (op.type = "plain" \/ HasEnum(op.type, d, r, n))
    /\ op.do = "drop_column" =>
          LateColumn(op.table, op.column, d, r, n) /\ ~IsMade(op.table, op.column, d, r, n)
    /\ op.do \in {"alter_column", "backfill", "create_foreign_key"} => Column(op.table, op.column, d, r, n)
    /\ op.do = "create_index" => \A c \in op.columns : Column(op.table, c, d, r, n)
ReadyOther(op, d, r, n) ==
    /\ op.do = "create_index" =>
          /\ op.name \notin AllTables
          /\ \/ d = "up" /\ r = 0 /\ ~Early(op.name, n)
             \/ NamedIndex(op.name, op.table, op.columns) /\ ~Unsure(op.name, d, r, n) /\ ~HasIndex(op.name, d, r, n)
    /\ op.do = "drop_index" =>
          /\ op.name \in DroppedIndexes
          /\ HasIndex(op.name, d, r, n) /\ ~Unsure(op.name, d, r, n)
    /\ op.do = "create_foreign_key" => HasTable(op.ref, d, r, n)
    /\ op.do = "create_check" => ~HasCheck(op.table, op.name, d, r, n)
    /\ op.do = "drop_constraint" =>
          \/ HasCheck(op.table, op.name, d, r, n)
          \/ op.name # "" /\ \E c, u : HasKey(op.table, c, u, op.name, d, r, n)
    /\ op.do = "create_trigger" => HasFunction(op.name, d, r, n)
    /\ op.do = "drop_function" => \A t : ~HasTable(t, d, r, n)
    /\ op.do = "add_label" => HasEnum(op.name, d, r, n)
    /\ op.do = "drop_enum" =>
          \/ \A t : ~HasTable(t, d, r, n)
          \/ op.name = DocumentType /\ ~LateColumn("policy_versions", "file_type", d, r, n)

(* What changes from the place of the statement to the next. *)
Creates(op, t) == op.do = "create_table" /\ t = op.table
Drops(op, t) == op.do = "drop_table" /\ t = op.table
MovesTables(op, d, r, n) ==
    /\ \A t : HasTable(t, d, r, n + 1) <=> (HasTable(t, d, r, n) /\ ~Drops(op, t)) \/ Creates(op, t)
    /\ (IsNew(d, r, n + 1) <=> IsNew(d, r, n)) \/ Creates(op, "obligations") \/ Drops(op, "obligations")
(* The table that is created stands alone. *)
MakesTable(op, d, r, n) ==
    op.do = "create_table" =>
       LET made == Made(op.table, d, r, n + 1) IN
       /\ DOMAIN op.cols = DOMAIN made.cols /\ DOMAIN op.types = DOMAIN made.types
       /\ \A c \in DOMAIN op.types : op.types[c] = made.types[c]
       /\ \A c \in DOMAIN op.cols :
             /\ op.cols[c].null <=> made.cols[c].null
             /\ made.cols[c].default /\ (op.table = "obligations" => IsNew(d, r, n + 1)) => op.cols[c].default
       /\ \A c : ~LateColumn(op.table, c, d, r, n + 1) /\ ~Loose(op.table, c, d, r, n + 1)
       /\ \A x : ~HasCheck(op.table, x, d, r, n + 1)
       /\ \A c, u, x : ~HasKey(op.table, c, u, x, d, r, n + 1)
OnColumn(op, t, c) == t = op.table /\ c = op.column
MovesColumns(op, d, r, n) ==
    /\ \A t, c : LateColumn(t, c, d, r, n + 1) <=>
          \/ LateColumn(t, c, d, r, n) /\ ~(op.do = "drop_column" /\ OnColumn(op, t, c))
          \/ op.do = "add_column" /\ OnColumn(op, t, c)
    /\ \A t, c : \/ Loose(t, c, d, r, n + 1) <=> Loose(t, c, d, r, n)
                 \/ op.do \in {"add_column", "drop_column", "alter_column"} /\ OnColumn(op, t, c)
    /\ op.do \in {"add_column", "alter_column"} =>
          /\ op.null <=> Loose(op.table, op.column, d, r, n + 1)
          /\ IsMade(op.table, op.column, d, r, n) => ~Made(op.table, d, r, n).cols[op.column].null
    /\ op.do = "add_column" =>
          op.type = IF op.table = "policy_versions" /\ op.column = "file_type" THEN DocumentType ELSE "plain"
MovesKeys(op, d, r, n) ==
    /\ \A t, x : HasCheck(t, x, d, r, n + 1) <=>
          \/ HasCheck(t, x, d, r, n) /\ ~(op.do = "drop_constraint" /\ t = op.table /\ x = op.name)
          \/ op.do = "create_check" /\ t = op.table /\ x = op.name
    /\ \A t, c, u, x : HasKey(t, c, u, x, d, r, n + 1) <=>
          \/ /\ HasKey(t, c, u, x, d, r, n)
             /\ ~(op.do = "drop_constraint" /\ t = op.table /\ x = op.name)
             /\ ~(op.do = "drop_column" /\ OnColumn(op, t, c))
          \/ op.do = "create_foreign_key" /\ OnColumn(op, t, c) /\ u = op.ref /\ x = op.name
RemovesIndex(op, i, t, C) ==
    \/ op.do = "drop_index" /\ i = op.name
    \/ op.do = "drop_table" /\ t = op.table
    \/ op.do = "drop_column" /\ t = op.table /\ op.column \in C
MovesIndexes(op, d, r, n) ==
    /\ \A i, t, C : NamedIndex(i, t, C) /\ ~Unsure(i, d, r, n + 1) =>
          /\ Unsure(i, d, r, n) => RemovesIndex(op, i, t, C)
          /\ HasIndex(i, d, r, n + 1) <=>
                \/ HasIndex(i, d, r, n) /\ ~RemovesIndex(op, i, t, C)
                \/ op.do = "create_index" /\ i = op.name
    /\ op.do = "create_index" =>
          \A t, C : NamedIndex(op.name, t, C) => t = op.table /\ C = op.columns
    /\ d = "up" /\ r = 0 =>
          /\ \A i : Early(i, n) => Early(i, n + 1)
          /\ op.do = "create_index" => Early(op.name, n + 1)
MovesEnums(op, d, r, n) ==
    /\ \A e : HasEnum(e, d, r, n + 1) => \/ HasEnum(e, d, r, n) /\ ~(op.do = "drop_enum" /\ e = op.name)
                                         \/ op.do = "create_enum" /\ e = op.name
    /\ op.do = "create_enum" => \A l : Label(op.name, l) => l \in op.labels
    /\ HasRuleBased(d, r, n + 1) =>
          /\ HasEnum("extraction_method", d, r, n) /\ HasEnum("extraction_method", d, r, n + 1)
          /\ \/ HasRuleBased(d, r, n)
             \/ op.do = "add_label" /\ op.name = "extraction_method" /\ "rule_based" \in op.labels
    /\ \A f : HasFunction(f, d, r, n + 1) => \/ HasFunction(f, d, r, n) /\ ~(op.do = "drop_function" /\ f = op.name)
                                             \/ op.do = "create_function" /\ f = op.name

(* A statement in its place: what it keeps to, finds and moves. *)
FormPlaced(op, d, r, n) == Regular(d, op) /\ MakesTable(op, d, r, n)
TablePlaced(op, d, r, n) == ReadyTable(op, d, r, n) /\ MovesTables(op, d, r, n)
ColumnPlaced(op, d, r, n) == ReadyColumn(op, d, r, n) /\ MovesColumns(op, d, r, n)
KeyPlaced(op, d, r, n) == ReadyOther(op, d, r, n) /\ MovesKeys(op, d, r, n)
IndexPlaced(op, d, r, n) == MovesIndexes(op, d, r, n) /\ MovesEnums(op, d, r, n)
Placed(op, d, r, n) ==
    /\ FormPlaced(op, d, r, n) /\ TablePlaced(op, d, r, n) /\ ColumnPlaced(op, d, r, n)
    /\ KeyPlaced(op, d, r, n) /\ IndexPlaced(op, d, r, n)

(* The statements of a revision in a direction, and their number. *)
Script(dir, r) == IF dir = "up" THEN Revisions[r + 1].upgrade ELSE Revisions[r].downgrade
(* A revision that the direction has statements for. *)
Moves(dir, r) == (dir = "up" /\ r \in 0..13) \/ (dir = "down" /\ r \in 1..14)
Length(d, r) ==
    IF d = "up" THEN <<90, 7, 12, 1, 4, 4, 3, 3, 3, 3, 4, 1, 1, 1>>[r + 1]
    ELSE <<32, 7, 9, 1, 4, 4, 3, 3, 3, 3, 4, 1, 1, 1>>[r]

-----------------------------------------------------------------------------
(* The inductive invariants.                                               *)

(* A table looks the same to the migration under way and to everyone else. *)
Agree(t) ==
    /\ t \in Tables(db.schema) <=> t \in Tables(run.db.schema)
    /\ t \in Tables(db.schema) => db.schema.tables[t] = run.db.schema.tables[t]
    /\ db.rows[t] = run.db.rows[t]
    /\ t = "clauses" =>
          (VersionKey \in DOMAIN db.schema.indexes <=> VersionKey \in DOMAIN run.db.schema.indexes)
IsDb(x) == x = [rev |-> x.rev, schema |-> x.schema, rows |-> x.rows] /\ x.rev \in 0..HeadRevision

(* Rows and schema suit each other, committed and under way; a migration has
   changed only what it has locked. *)
RowsInv ==
    /\ IsDb(db) /\ SchemaOk(db.schema) /\ RowsOk(db.rows, db.schema)
    /\ Running =>
          /\ run = [dir |-> run.dir, next |-> run.next, db |-> run.db, locked |-> run.locked]
          /\ run.dir \in {"up", "down"} /\ run.next \in Nat \ {0}
          /\ IsDb(run.db) /\ SchemaOk(run.db.schema) /\ RowsOk(run.db.rows, run.db.schema)
          /\ \A t \in AllTables \ run.locked : Agree(t)

(* While a migration is under way, no table but obligations goes in the upward
   direction, none comes in the downward one, and none loses its writers. *)
WritersInv ==
    Running =>
        /\ run.dir = "up" => Tables(db.schema) \ {"obligations"} \subseteq Tables(run.db.schema)
        /\ run.dir = "down" => Tables(run.db.schema) \ {"obligations"} \subseteq Tables(db.schema)
        /\ \A t \in (Tables(db.schema) \cap Tables(run.db.schema)) \ {"obligations"} :
              \A by : WriterIn(db.rows, by, t) <=> WriterIn(run.db.rows, by, t)

(* The schema, committed and under way, is the one of its place. *)
FitsInv ==
    /\ Fits(db.schema, "none", db.rev, 1) /\ RowsFit(db.rows, db.schema, "none", db.rev, 1)
    /\ Running =>
          /\ run.dir = "up" => db.rev <= run.db.rev
          /\ Moves(run.dir, run.db.rev) => run.next <= Length(run.dir, run.db.rev) + 1
          /\ Fits(run.db.schema, run.dir, run.db.rev, run.next)
          /\ RowsFit(run.db.rows, run.db.schema, run.dir, run.db.rev, run.next)

=============================================================================
