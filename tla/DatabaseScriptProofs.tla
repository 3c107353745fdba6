------------------------ MODULE DatabaseScriptProofs ------------------------
(***************************************************************************)
(* The migration scripts, statement by statement: every statement of every *)
(* revision, in both directions, is in its place (DatabaseInvariant). The  *)
(* 213 statements of upgrades and downgrades are gone through here; what   *)
(* follows from that is in DatabaseLifecycleProofs.                        *)
(***************************************************************************)
EXTENDS DatabaseInvariant, TLAPS

\* The tables, by name.
LEMMA AllTablesAre ==
    AllTables = {"companies", "departments", "users", "policies", "policy_versions", "clauses",
       "obligations", "regulatory_frameworks", "regulatory_clauses", "clause_regulatory_mappings",
       "findings", "finding_clause_links", "audit_logs", "conflicts", "recommendations",
       "compliance_audit_logs", "regulatory_mappings", "stored_files"}
BY DEF AllTables, Models

-----------------------------------------------------------------------------
(* The tables as they are created.                                         *)

(* A function of columns: its columns, those that may be null, those with a default. *)
Has(f, D, N, F) ==
    DOMAIN f = D /\ \A c \in D : (f[c].null <=> c \in N) /\ (f[c].default <=> c \in F)

\* The columns of which tables are made.
LEMMA HasReq == ASSUME NEW S PROVE Has(Req(S), S, {}, {})
BY DEF Has, Req

\* The columns of which tables are made.
LEMMA HasDflt == ASSUME NEW S PROVE Has(Dflt(S), S, {}, S)
BY DEF Has, Dflt

\* The columns of which tables are made.
LEMMA HasOpt == ASSUME NEW S PROVE Has(Opt(S), S, S, {})
BY DEF Has, Opt

\* The columns of which tables are made.
LEMMA HasBoth ==
    ASSUME NEW f, NEW D, NEW N, NEW F, Has(f, D, N, F), N \subseteq D, F \subseteq D,
           NEW g, NEW E, NEW M, NEW G, Has(g, E, M, G), M \subseteq E, G \subseteq E, D \cap E = {}
    PROVE  Has(f ++ g, D \cup E, N \cup M, F \cup G)
<1>1. DOMAIN (f ++ g) = D \cup E
  BY DEF Has, ++
<1>2. ASSUME NEW c \in D PROVE (f ++ g)[c] = f[c] /\ c \notin M /\ c \notin G
  BY <1>2 DEF Has, ++
<1>3. ASSUME NEW c \in E PROVE (f ++ g)[c] = g[c] /\ c \notin N /\ c \notin F
  BY <1>3 DEF Has, ++
<1> QED BY <1>1, <1>2, <1>3 DEF Has

\* The columns of which tables are made.
LEMMA HasSoftDelete == Has(SoftDelete, {"deleted_at"}, {"deleted_at"}, {})
BY HasOpt DEF SoftDelete

\* The columns of which tables are made.
LEMMA HasId == Has(Id, {"id"}, {}, {"id"})
BY HasDflt DEF Id

\* The columns of which tables are made.
LEMMA HasStandard ==
    Has(Standard, {"id", "created_at", "updated_at", "deleted_at"}, {"deleted_at"},
        {"id", "created_at", "updated_at"})
<1>1. Has(Id ++ Timestamps, {"id", "created_at", "updated_at"}, {}, {"id", "created_at", "updated_at"})
  BY HasDflt, HasBoth DEF Id, Timestamps
<1> QED BY <1>1, HasBoth, HasOpt DEF Standard, SoftDelete

(* A statement that creates a table with these columns, types and references. *)
Makes(op, t, D, N, F, types, refs) ==
    /\ op.do = "create_table" /\ op.table = t /\ op.types = types /\ op.refs = refs
    /\ Has(op.cols, D, N, F)

\* The columns, enum types and references of a table as CreateCompanies makes it.
LEMMA CompaniesAre ==
    Makes(CreateCompanies[1], "companies",
        {"id", "created_at", "updated_at", "deleted_at", "name", "is_active", "industry",
         "jurisdiction", "registration_number"},
        {"deleted_at", "industry", "jurisdiction", "registration_number"},
        {"id", "created_at", "updated_at", "is_active"},
        NoTypes,
        {})
<1> DEFINE P1 == Standard
           P2 == Req({"name"})
           P3 == Dflt({"is_active"})
           P4 == Opt({"industry", "jurisdiction", "registration_number"})
<1>1. CreateCompanies[1] = CreateTable("companies", ((P1 ++ P2) ++ P3) ++ P4, NoTypes,
        {})
  BY DEF CreateCompanies
<1>2. /\ Has(P1, {"id", "created_at", "updated_at", "deleted_at"}, {"deleted_at"}, {"id", "created_at", "updated_at"})
      /\ Has(P2, {"name"}, {}, {})
      /\ Has(P3, {"is_active"}, {}, {"is_active"})
      /\ Has(P4, {"industry", "jurisdiction", "registration_number"}, {"industry", "jurisdiction", "registration_number"}, {})
  BY HasStandard, HasReq, HasDflt, HasOpt
<1> HIDE DEF P1, P2, P3, P4
<1>3. Has(P1 ++ P2, {"id", "created_at", "updated_at", "deleted_at", "name"},
          {"deleted_at"},
          {"id", "created_at", "updated_at"})
  BY <1>2, HasBoth
<1>4. Has((P1 ++ P2) ++ P3, {"id", "created_at", "updated_at", "deleted_at", "name", "is_active"},
          {"deleted_at"},
          {"id", "created_at", "updated_at", "is_active"})
  BY <1>2, <1>3, HasBoth
<1>5. Has(((P1 ++ P2) ++ P3) ++ P4, {"id", "created_at", "updated_at", "deleted_at", "name", "is_active", "industry",
             "jurisdiction", "registration_number"},
          {"deleted_at", "industry", "jurisdiction", "registration_number"},
          {"id", "created_at", "updated_at", "is_active"})
  BY <1>2, <1>4, HasBoth
<1> QED BY <1>1, <1>5 DEF Makes, CreateTable

\* The columns, enum types and references of a table as CreateDepartments makes it.
LEMMA DepartmentsAre ==
    Makes(CreateDepartments[1], "departments",
        {"id", "created_at", "updated_at", "deleted_at", "company_id", "name",
         "parent_department_id", "code", "description"},
        {"deleted_at", "parent_department_id", "code", "description"},
        {"id", "created_at", "updated_at"},
        NoTypes,
        {<<"company_id", "companies">>, <<"parent_department_id", "departments">>})
<1> DEFINE P1 == Standard
           P2 == Req({"company_id", "name"})
           P3 == Opt({"parent_department_id", "code", "description"})
<1>1. CreateDepartments[1] = CreateTable("departments", (P1 ++ P2) ++ P3, NoTypes,
        {<<"company_id", "companies">>, <<"parent_department_id", "departments">>})
  BY DEF CreateDepartments
<1>2. /\ Has(P1, {"id", "created_at", "updated_at", "deleted_at"}, {"deleted_at"}, {"id", "created_at", "updated_at"})
      /\ Has(P2, {"company_id", "name"}, {}, {})
      /\ Has(P3, {"parent_department_id", "code", "description"}, {"parent_department_id", "code", "description"}, {})
  BY HasStandard, HasReq, HasOpt
<1> HIDE DEF P1, P2, P3
<1>3. Has(P1 ++ P2, {"id", "created_at", "updated_at", "deleted_at", "company_id", "name"},
          {"deleted_at"},
          {"id", "created_at", "updated_at"})
  BY <1>2, HasBoth
<1>4. Has((P1 ++ P2) ++ P3, {"id", "created_at", "updated_at", "deleted_at", "company_id", "name",
             "parent_department_id", "code", "description"},
          {"deleted_at", "parent_department_id", "code", "description"},
          {"id", "created_at", "updated_at"})
  BY <1>2, <1>3, HasBoth
<1> QED BY <1>1, <1>4 DEF Makes, CreateTable

\* The columns, enum types and references of a table as CreateUsers makes it.
LEMMA UsersAre ==
    Makes(CreateUsers[1], "users",
        {"id", "created_at", "updated_at", "deleted_at", "company_id", "email", "password_hash",
         "full_name", "role", "is_active", "department_id", "last_login_at"},
        {"deleted_at", "department_id", "last_login_at"},
        {"id", "created_at", "updated_at", "role", "is_active"},
        [role |-> "user_role"],
        {<<"company_id", "companies">>, <<"department_id", "departments">>})
<1> DEFINE P1 == Standard
           P2 == Req({"company_id", "email", "password_hash", "full_name"})
           P3 == Dflt({"role", "is_active"})
           P4 == Opt({"department_id", "last_login_at"})
<1>1. CreateUsers[1] = CreateTable("users", ((P1 ++ P2) ++ P3) ++ P4, [role |-> "user_role"],
        {<<"company_id", "companies">>, <<"department_id", "departments">>})
  BY DEF CreateUsers
<1>2. /\ Has(P1, {"id", "created_at", "updated_at", "deleted_at"}, {"deleted_at"}, {"id", "created_at", "updated_at"})
      /\ Has(P2, {"company_id", "email", "password_hash", "full_name"}, {}, {})
      /\ Has(P3, {"role", "is_active"}, {}, {"role", "is_active"})
      /\ Has(P4, {"department_id", "last_login_at"}, {"department_id", "last_login_at"}, {})
  BY HasStandard, HasReq, HasDflt, HasOpt
<1> HIDE DEF P1, P2, P3, P4
<1>3. Has(P1 ++ P2, {"id", "created_at", "updated_at", "deleted_at", "company_id", "email",
             "password_hash", "full_name"},
          {"deleted_at"},
          {"id", "created_at", "updated_at"})
  BY <1>2, HasBoth
<1>4. Has((P1 ++ P2) ++ P3, {"id", "created_at", "updated_at", "deleted_at", "company_id", "email",
             "password_hash", "full_name", "role", "is_active"},
          {"deleted_at"},
          {"id", "created_at", "updated_at", "role", "is_active"})
  BY <1>2, <1>3, HasBoth
<1>5. Has(((P1 ++ P2) ++ P3) ++ P4, {"id", "created_at", "updated_at", "deleted_at", "company_id", "email",
             "password_hash", "full_name", "role", "is_active", "department_id", "last_login_at"},
          {"deleted_at", "department_id", "last_login_at"},
          {"id", "created_at", "updated_at", "role", "is_active"})
  BY <1>2, <1>4, HasBoth
<1> QED BY <1>1, <1>5 DEF Makes, CreateTable

\* The columns, enum types and references of a table as CreatePolicies makes it.
LEMMA PoliciesAre ==
    Makes(CreatePolicies[1], "policies",
        {"id", "created_at", "updated_at", "deleted_at", "company_id", "owning_department_id",
         "title", "status", "policy_code", "category", "current_version_id"},
        {"deleted_at", "policy_code", "category", "current_version_id"},
        {"id", "created_at", "updated_at", "status"},
        [status |-> "policy_status"],
        {<<"company_id", "companies">>, <<"owning_department_id", "departments">>})
<1> DEFINE P1 == Standard
           P2 == Req({"company_id", "owning_department_id", "title"})
           P3 == Dflt({"status"})
           P4 == Opt({"policy_code", "category", "current_version_id"})
<1>1. CreatePolicies[1] = CreateTable("policies", ((P1 ++ P2) ++ P3) ++ P4, [status |-> "policy_status"],
        {<<"company_id", "companies">>, <<"owning_department_id", "departments">>})
  BY DEF CreatePolicies
<1>2. /\ Has(P1, {"id", "created_at", "updated_at", "deleted_at"}, {"deleted_at"}, {"id", "created_at", "updated_at"})
      /\ Has(P2, {"company_id", "owning_department_id", "title"}, {}, {})
      /\ Has(P3, {"status"}, {}, {"status"})
      /\ Has(P4, {"policy_code", "category", "current_version_id"}, {"policy_code", "category", "current_version_id"}, {})
  BY HasStandard, HasReq, HasDflt, HasOpt
<1> HIDE DEF P1, P2, P3, P4
<1>3. Has(P1 ++ P2, {"id", "created_at", "updated_at", "deleted_at", "company_id",
             "owning_department_id", "title"},
          {"deleted_at"},
          {"id", "created_at", "updated_at"})
  BY <1>2, HasBoth
<1>4. Has((P1 ++ P2) ++ P3, {"id", "created_at", "updated_at", "deleted_at", "company_id",
             "owning_department_id", "title", "status"},
          {"deleted_at"},
          {"id", "created_at", "updated_at", "status"})
  BY <1>2, <1>3, HasBoth
<1>5. Has(((P1 ++ P2) ++ P3) ++ P4, {"id", "created_at", "updated_at", "deleted_at", "company_id",
             "owning_department_id", "title", "status", "policy_code", "category",
             "current_version_id"},
          {"deleted_at", "policy_code", "category", "current_version_id"},
          {"id", "created_at", "updated_at", "status"})
  BY <1>2, <1>4, HasBoth
<1> QED BY <1>1, <1>5 DEF Makes, CreateTable

\* The columns, enum types and references of a table as CreatePolicyVersions makes it.
LEMMA PolicyVersionsAre ==
    Makes(CreatePolicyVersions[1], "policy_versions",
        {"id", "created_at", "updated_at", "deleted_at", "policy_id", "version_number",
         "source_file_reference", "file_hash", "uploaded_by_user_id", "status", "uploaded_at",
         "effective_date", "superseded_by_version_id", "ai_summary"},
        {"deleted_at", "effective_date", "superseded_by_version_id", "ai_summary"},
        {"id", "created_at", "updated_at", "status", "uploaded_at"},
        [status |-> "policy_version_status"],
        {<<"policy_id", "policies">>, <<"uploaded_by_user_id", "users">>,
        <<"superseded_by_version_id", "policy_versions">>})
<1> DEFINE P1 == Standard
           P2 == Req({"policy_id", "version_number", "source_file_reference", "file_hash",
                         "uploaded_by_user_id"})
           P3 == Dflt({"status", "uploaded_at"})
           P4 == Opt({"effective_date", "superseded_by_version_id", "ai_summary"})
<1>1. CreatePolicyVersions[1] = CreateTable("policy_versions", ((P1 ++ P2) ++ P3) ++ P4, [status |-> "policy_version_status"],
        {<<"policy_id", "policies">>, <<"uploaded_by_user_id", "users">>,
        <<"superseded_by_version_id", "policy_versions">>})
  BY DEF CreatePolicyVersions
<1>2. /\ Has(P1, {"id", "created_at", "updated_at", "deleted_at"}, {"deleted_at"}, {"id", "created_at", "updated_at"})
      /\ Has(P2, {"policy_id", "version_number", "source_file_reference", "file_hash",
                     "uploaded_by_user_id"}, {}, {})
      /\ Has(P3, {"status", "uploaded_at"}, {}, {"status", "uploaded_at"})
      /\ Has(P4, {"effective_date", "superseded_by_version_id", "ai_summary"}, {"effective_date", "superseded_by_version_id", "ai_summary"}, {})
  BY HasStandard, HasReq, HasDflt, HasOpt
<1> HIDE DEF P1, P2, P3, P4
<1>3. Has(P1 ++ P2, {"id", "created_at", "updated_at", "deleted_at", "policy_id", "version_number",
             "source_file_reference", "file_hash", "uploaded_by_user_id"},
          {"deleted_at"},
          {"id", "created_at", "updated_at"})
  BY <1>2, HasBoth
<1>4. Has((P1 ++ P2) ++ P3, {"id", "created_at", "updated_at", "deleted_at", "policy_id", "version_number",
             "source_file_reference", "file_hash", "uploaded_by_user_id", "status",
             "uploaded_at"},
          {"deleted_at"},
          {"id", "created_at", "updated_at", "status", "uploaded_at"})
  BY <1>2, <1>3, HasBoth
<1>5. Has(((P1 ++ P2) ++ P3) ++ P4, {"id", "created_at", "updated_at", "deleted_at", "policy_id", "version_number",
             "source_file_reference", "file_hash", "uploaded_by_user_id", "status",
             "uploaded_at", "effective_date", "superseded_by_version_id", "ai_summary"},
          {"deleted_at", "effective_date", "superseded_by_version_id", "ai_summary"},
          {"id", "created_at", "updated_at", "status", "uploaded_at"})
  BY <1>2, <1>4, HasBoth
<1> QED BY <1>1, <1>5 DEF Makes, CreateTable

\* The columns, enum types and references of a table as CreateClauses makes it.
LEMMA ClausesAre ==
    Makes(CreateClauses[1], "clauses",
        {"id", "created_at", "updated_at", "deleted_at", "policy_version_id", "clause_number",
         "text", "clause_type", "order_index", "extracted_by", "heading"},
        {"deleted_at", "heading"},
        {"id", "created_at", "updated_at", "order_index", "extracted_by"},
        [clause_type |-> "clause_type", extracted_by |-> "extraction_method"],
        {<<"policy_version_id", "policy_versions">>})
<1> DEFINE P1 == Standard
           P2 == Req({"policy_version_id", "clause_number", "text", "clause_type"})
           P3 == Dflt({"order_index", "extracted_by"})
           P4 == Opt({"heading"})
<1>1. CreateClauses[1] = CreateTable("clauses", ((P1 ++ P2) ++ P3) ++ P4, [clause_type |-> "clause_type", extracted_by |-> "extraction_method"],
        {<<"policy_version_id", "policy_versions">>})
  BY DEF CreateClauses
<1>2. /\ Has(P1, {"id", "created_at", "updated_at", "deleted_at"}, {"deleted_at"}, {"id", "created_at", "updated_at"})
      /\ Has(P2, {"policy_version_id", "clause_number", "text", "clause_type"}, {}, {})
      /\ Has(P3, {"order_index", "extracted_by"}, {}, {"order_index", "extracted_by"})
      /\ Has(P4, {"heading"}, {"heading"}, {})
  BY HasStandard, HasReq, HasDflt, HasOpt
<1> HIDE DEF P1, P2, P3, P4
<1>3. Has(P1 ++ P2, {"id", "created_at", "updated_at", "deleted_at", "policy_version_id",
             "clause_number", "text", "clause_type"},
          {"deleted_at"},
          {"id", "created_at", "updated_at"})
  BY <1>2, HasBoth
<1>4. Has((P1 ++ P2) ++ P3, {"id", "created_at", "updated_at", "deleted_at", "policy_version_id",
             "clause_number", "text", "clause_type", "order_index", "extracted_by"},
          {"deleted_at"},
          {"id", "created_at", "updated_at", "order_index", "extracted_by"})
  BY <1>2, <1>3, HasBoth
<1>5. Has(((P1 ++ P2) ++ P3) ++ P4, {"id", "created_at", "updated_at", "deleted_at", "policy_version_id",
             "clause_number", "text", "clause_type", "order_index", "extracted_by", "heading"},
          {"deleted_at", "heading"},
          {"id", "created_at", "updated_at", "order_index", "extracted_by"})
  BY <1>2, <1>4, HasBoth
<1> QED BY <1>1, <1>5 DEF Makes, CreateTable

\* The columns, enum types and references of a table as CreateObligations makes it.
LEMMA OldObligationsAre ==
    Makes(CreateObligations[1], "obligations",
        {"id", "created_at", "updated_at", "deleted_at", "clause_id", "description",
         "action_required", "deadline_type", "priority", "status", "responsible_department_id",
         "deadline_expression"},
        {"deleted_at", "responsible_department_id", "deadline_expression"},
        {"id", "created_at", "updated_at", "priority", "status"},
        [deadline_type |-> "obligation_deadline_type", priority |-> "obligation_priority", status
        |-> "obligation_status"],
        {<<"clause_id", "clauses">>, <<"responsible_department_id", "departments">>})
<1> DEFINE P1 == Standard
           P2 == Req({"clause_id", "description", "action_required", "deadline_type"})
           P3 == Dflt({"priority", "status"})
           P4 == Opt({"responsible_department_id", "deadline_expression"})
<1>1. CreateObligations[1] = CreateTable("obligations", ((P1 ++ P2) ++ P3) ++ P4, [deadline_type |-> "obligation_deadline_type", priority |-> "obligation_priority",
            status |-> "obligation_status"],
        {<<"clause_id", "clauses">>, <<"responsible_department_id", "departments">>})
  BY DEF CreateObligations
<1>2. /\ Has(P1, {"id", "created_at", "updated_at", "deleted_at"}, {"deleted_at"}, {"id", "created_at", "updated_at"})
      /\ Has(P2, {"clause_id", "description", "action_required", "deadline_type"}, {}, {})
      /\ Has(P3, {"priority", "status"}, {}, {"priority", "status"})
      /\ Has(P4, {"responsible_department_id", "deadline_expression"}, {"responsible_department_id", "deadline_expression"}, {})
  BY HasStandard, HasReq, HasDflt, HasOpt
<1> HIDE DEF P1, P2, P3, P4
<1>3. Has(P1 ++ P2, {"id", "created_at", "updated_at", "deleted_at", "clause_id", "description",
             "action_required", "deadline_type"},
          {"deleted_at"},
          {"id", "created_at", "updated_at"})
  BY <1>2, HasBoth
<1>4. Has((P1 ++ P2) ++ P3, {"id", "created_at", "updated_at", "deleted_at", "clause_id", "description",
             "action_required", "deadline_type", "priority", "status"},
          {"deleted_at"},
          {"id", "created_at", "updated_at", "priority", "status"})
  BY <1>2, <1>3, HasBoth
<1>5. Has(((P1 ++ P2) ++ P3) ++ P4, {"id", "created_at", "updated_at", "deleted_at", "clause_id", "description",
             "action_required", "deadline_type", "priority", "status",
             "responsible_department_id", "deadline_expression"},
          {"deleted_at", "responsible_department_id", "deadline_expression"},
          {"id", "created_at", "updated_at", "priority", "status"})
  BY <1>2, <1>4, HasBoth
<1> QED BY <1>1, <1>5 DEF Makes, CreateTable

\* The columns, enum types and references of a table as CreateRegulatoryFrameworks makes it.
LEMMA RegulatoryFrameworksAre ==
    Makes(CreateRegulatoryFrameworks[1], "regulatory_frameworks",
        {"id", "created_at", "updated_at", "deleted_at", "name", "jurisdiction", "issuing_body",
         "edition_or_version", "effective_date", "description"},
        {"deleted_at", "jurisdiction", "issuing_body", "edition_or_version", "effective_date",
         "description"},
        {"id", "created_at", "updated_at"},
        NoTypes,
        {})
<1> DEFINE P1 == Standard
           P2 == Req({"name"})
           P3 == Opt({"jurisdiction", "issuing_body", "edition_or_version", "effective_date",
                         "description"})
<1>1. CreateRegulatoryFrameworks[1] = CreateTable("regulatory_frameworks", (P1 ++ P2) ++ P3, NoTypes,
        {})
  BY DEF CreateRegulatoryFrameworks
<1>2. /\ Has(P1, {"id", "created_at", "updated_at", "deleted_at"}, {"deleted_at"}, {"id", "created_at", "updated_at"})
      /\ Has(P2, {"name"}, {}, {})
      /\ Has(P3, {"jurisdiction", "issuing_body", "edition_or_version", "effective_date",
                     "description"}, {"jurisdiction", "issuing_body", "edition_or_version", "effective_date",
                     "description"}, {})
  BY HasStandard, HasReq, HasOpt
<1> HIDE DEF P1, P2, P3
<1>3. Has(P1 ++ P2, {"id", "created_at", "updated_at", "deleted_at", "name"},
          {"deleted_at"},
          {"id", "created_at", "updated_at"})
  BY <1>2, HasBoth
<1>4. Has((P1 ++ P2) ++ P3, {"id", "created_at", "updated_at", "deleted_at", "name", "jurisdiction",
             "issuing_body", "edition_or_version", "effective_date", "description"},
          {"deleted_at", "jurisdiction", "issuing_body", "edition_or_version",
             "effective_date", "description"},
          {"id", "created_at", "updated_at"})
  BY <1>2, <1>3, HasBoth
<1> QED BY <1>1, <1>4 DEF Makes, CreateTable

\* The columns, enum types and references of a table as CreateRegulatoryClauses makes it.
LEMMA RegulatoryClausesAre ==
    Makes(CreateRegulatoryClauses[1], "regulatory_clauses",
        {"id", "created_at", "updated_at", "deleted_at", "regulatory_framework_id",
         "clause_reference", "title", "text", "category"},
        {"deleted_at", "category"},
        {"id", "created_at", "updated_at"},
        NoTypes,
        {<<"regulatory_framework_id", "regulatory_frameworks">>})
<1> DEFINE P1 == Standard
           P2 == Req({"regulatory_framework_id", "clause_reference", "title", "text"})
           P3 == Opt({"category"})
<1>1. CreateRegulatoryClauses[1] = CreateTable("regulatory_clauses", (P1 ++ P2) ++ P3, NoTypes,
        {<<"regulatory_framework_id", "regulatory_frameworks">>})
  BY DEF CreateRegulatoryClauses
<1>2. /\ Has(P1, {"id", "created_at", "updated_at", "deleted_at"}, {"deleted_at"}, {"id", "created_at", "updated_at"})
      /\ Has(P2, {"regulatory_framework_id", "clause_reference", "title", "text"}, {}, {})
      /\ Has(P3, {"category"}, {"category"}, {})
  BY HasStandard, HasReq, HasOpt
<1> HIDE DEF P1, P2, P3
<1>3. Has(P1 ++ P2, {"id", "created_at", "updated_at", "deleted_at", "regulatory_framework_id",
             "clause_reference", "title", "text"},
          {"deleted_at"},
          {"id", "created_at", "updated_at"})
  BY <1>2, HasBoth
<1>4. Has((P1 ++ P2) ++ P3, {"id", "created_at", "updated_at", "deleted_at", "regulatory_framework_id",
             "clause_reference", "title", "text", "category"},
          {"deleted_at", "category"},
          {"id", "created_at", "updated_at"})
  BY <1>2, <1>3, HasBoth
<1> QED BY <1>1, <1>4 DEF Makes, CreateTable

\* The columns, enum types and references of a table as CreateClauseRegulatoryMappings makes it.
LEMMA ClauseRegulatoryMappingsAre ==
    Makes(CreateClauseRegulatoryMappings[1], "clause_regulatory_mappings",
        {"id", "created_at", "updated_at", "deleted_at", "clause_id", "regulatory_clause_id",
         "mapping_type", "confidence_score", "verified_by_user_id", "verified_at"},
        {"deleted_at", "confidence_score", "verified_by_user_id", "verified_at"},
        {"id", "created_at", "updated_at"},
        [mapping_type |-> "mapping_type"],
        {<<"clause_id", "clauses">>, <<"regulatory_clause_id", "regulatory_clauses">>,
        <<"verified_by_user_id", "users">>})
<1> DEFINE P1 == Standard
           P2 == Req({"clause_id", "regulatory_clause_id", "mapping_type"})
           P3 == Opt({"confidence_score", "verified_by_user_id", "verified_at"})
<1>1. CreateClauseRegulatoryMappings[1] = CreateTable("clause_regulatory_mappings", (P1 ++ P2) ++ P3, [mapping_type |-> "mapping_type"],
        {<<"clause_id", "clauses">>, <<"regulatory_clause_id", "regulatory_clauses">>,
        <<"verified_by_user_id", "users">>})
  BY DEF CreateClauseRegulatoryMappings
<1>2. /\ Has(P1, {"id", "created_at", "updated_at", "deleted_at"}, {"deleted_at"}, {"id", "created_at", "updated_at"})
      /\ Has(P2, {"clause_id", "regulatory_clause_id", "mapping_type"}, {}, {})
      /\ Has(P3, {"confidence_score", "verified_by_user_id", "verified_at"}, {"confidence_score", "verified_by_user_id", "verified_at"}, {})
  BY HasStandard, HasReq, HasOpt
<1> HIDE DEF P1, P2, P3
<1>3. Has(P1 ++ P2, {"id", "created_at", "updated_at", "deleted_at", "clause_id",
             "regulatory_clause_id", "mapping_type"},
          {"deleted_at"},
          {"id", "created_at", "updated_at"})
  BY <1>2, HasBoth
<1>4. Has((P1 ++ P2) ++ P3, {"id", "created_at", "updated_at", "deleted_at", "clause_id",
             "regulatory_clause_id", "mapping_type", "confidence_score", "verified_by_user_id",
             "verified_at"},
          {"deleted_at", "confidence_score", "verified_by_user_id", "verified_at"},
          {"id", "created_at", "updated_at"})
  BY <1>2, <1>3, HasBoth
<1> QED BY <1>1, <1>4 DEF Makes, CreateTable

\* The columns, enum types and references of a table as CreateFindings makes it.
LEMMA FindingsAre ==
    Makes(CreateFindings[1], "findings",
        {"id", "created_at", "updated_at", "deleted_at", "company_id", "finding_type",
         "severity", "title", "description", "detection_method", "status", "detected_at",
         "proof_reference", "confidence_score", "regulatory_clause_id", "resolved_by_user_id",
         "resolved_at", "resolution_notes"},
        {"deleted_at", "proof_reference", "confidence_score", "regulatory_clause_id",
         "resolved_by_user_id", "resolved_at", "resolution_notes"},
        {"id", "created_at", "updated_at", "status", "detected_at"},
        [finding_type |-> "finding_type", severity |-> "finding_severity", status |->
        "finding_status", detection_method |-> "detection_method"],
        {<<"company_id", "companies">>, <<"regulatory_clause_id", "regulatory_clauses">>,
        <<"resolved_by_user_id", "users">>})
<1> DEFINE P1 == Standard
           P2 == Req({"company_id", "finding_type", "severity", "title", "description",
                         "detection_method"})
           P3 == Dflt({"status", "detected_at"})
           P4 == Opt({"proof_reference", "confidence_score", "regulatory_clause_id",
                         "resolved_by_user_id", "resolved_at", "resolution_notes"})
<1>1. CreateFindings[1] = CreateTable("findings", ((P1 ++ P2) ++ P3) ++ P4, [finding_type |-> "finding_type", severity |-> "finding_severity", status |->
            "finding_status", detection_method |-> "detection_method"],
        {<<"company_id", "companies">>, <<"regulatory_clause_id", "regulatory_clauses">>,
        <<"resolved_by_user_id", "users">>})
  BY DEF CreateFindings
<1>2. /\ Has(P1, {"id", "created_at", "updated_at", "deleted_at"}, {"deleted_at"}, {"id", "created_at", "updated_at"})
      /\ Has(P2, {"company_id", "finding_type", "severity", "title", "description",
                     "detection_method"}, {}, {})
      /\ Has(P3, {"status", "detected_at"}, {}, {"status", "detected_at"})
      /\ Has(P4, {"proof_reference", "confidence_score", "regulatory_clause_id",
                     "resolved_by_user_id", "resolved_at", "resolution_notes"}, {"proof_reference", "confidence_score", "regulatory_clause_id",
                     "resolved_by_user_id", "resolved_at", "resolution_notes"}, {})
  BY HasStandard, HasReq, HasDflt, HasOpt
<1> HIDE DEF P1, P2, P3, P4
<1>3. Has(P1 ++ P2, {"id", "created_at", "updated_at", "deleted_at", "company_id", "finding_type",
             "severity", "title", "description", "detection_method"},
          {"deleted_at"},
          {"id", "created_at", "updated_at"})
  BY <1>2, HasBoth
<1>4. Has((P1 ++ P2) ++ P3, {"id", "created_at", "updated_at", "deleted_at", "company_id", "finding_type",
             "severity", "title", "description", "detection_method", "status", "detected_at"},
          {"deleted_at"},
          {"id", "created_at", "updated_at", "status", "detected_at"})
  BY <1>2, <1>3, HasBoth
<1>5. Has(((P1 ++ P2) ++ P3) ++ P4, {"id", "created_at", "updated_at", "deleted_at", "company_id", "finding_type",
             "severity", "title", "description", "detection_method", "status", "detected_at",
             "proof_reference", "confidence_score", "regulatory_clause_id",
             "resolved_by_user_id", "resolved_at", "resolution_notes"},
          {"deleted_at", "proof_reference", "confidence_score", "regulatory_clause_id",
             "resolved_by_user_id", "resolved_at", "resolution_notes"},
          {"id", "created_at", "updated_at", "status", "detected_at"})
  BY <1>2, <1>4, HasBoth
<1> QED BY <1>1, <1>5 DEF Makes, CreateTable

\* The columns, enum types and references of a table as CreateFindingClauseLinks makes it.
LEMMA FindingClauseLinksAre ==
    Makes(CreateFindingClauseLinks[1], "finding_clause_links",
        {"id", "created_at", "updated_at", "deleted_at", "finding_id", "clause_id",
         "role_in_finding"},
        {"deleted_at", "role_in_finding"},
        {"id", "created_at", "updated_at"},
        [role_in_finding |-> "finding_clause_role"],
        {<<"finding_id", "findings">>, <<"clause_id", "clauses">>})
<1> DEFINE P1 == Standard
           P2 == Req({"finding_id", "clause_id"})
           P3 == Opt({"role_in_finding"})
<1>1. CreateFindingClauseLinks[1] = CreateTable("finding_clause_links", (P1 ++ P2) ++ P3, [role_in_finding |-> "finding_clause_role"],
        {<<"finding_id", "findings">>, <<"clause_id", "clauses">>})
  BY DEF CreateFindingClauseLinks
<1>2. /\ Has(P1, {"id", "created_at", "updated_at", "deleted_at"}, {"deleted_at"}, {"id", "created_at", "updated_at"})
      /\ Has(P2, {"finding_id", "clause_id"}, {}, {})
      /\ Has(P3, {"role_in_finding"}, {"role_in_finding"}, {})
  BY HasStandard, HasReq, HasOpt
<1> HIDE DEF P1, P2, P3
<1>3. Has(P1 ++ P2, {"id", "created_at", "updated_at", "deleted_at", "finding_id", "clause_id"},
          {"deleted_at"},
          {"id", "created_at", "updated_at"})
  BY <1>2, HasBoth
<1>4. Has((P1 ++ P2) ++ P3, {"id", "created_at", "updated_at", "deleted_at", "finding_id", "clause_id",
             "role_in_finding"},
          {"deleted_at", "role_in_finding"},
          {"id", "created_at", "updated_at"})
  BY <1>2, <1>3, HasBoth
<1> QED BY <1>1, <1>4 DEF Makes, CreateTable

\* The columns, enum types and references of a table as CreateAuditLogs makes it.
LEMMA AuditLogsAre ==
    Makes(CreateAuditLogs[1], "audit_logs",
        {"id", "company_id", "action", "entity_type", "entity_id", "occurred_at",
         "actor_user_id", "before_state", "after_state", "ip_address"},
        {"actor_user_id", "before_state", "after_state", "ip_address"},
        {"id", "occurred_at"},
        [action |-> "audit_action", entity_type |-> "auditable_entity_type"],
        {<<"company_id", "companies">>, <<"actor_user_id", "users">>})
<1> DEFINE P1 == Id
           P2 == Req({"company_id", "action", "entity_type", "entity_id"})
           P3 == Dflt({"occurred_at"})
           P4 == Opt({"actor_user_id", "before_state", "after_state", "ip_address"})
<1>1. CreateAuditLogs[1] = CreateTable("audit_logs", ((P1 ++ P2) ++ P3) ++ P4, [action |-> "audit_action", entity_type |-> "auditable_entity_type"],
        {<<"company_id", "companies">>, <<"actor_user_id", "users">>})
  BY DEF CreateAuditLogs
<1>2. /\ Has(P1, {"id"}, {}, {"id"})
      /\ Has(P2, {"company_id", "action", "entity_type", "entity_id"}, {}, {})
      /\ Has(P3, {"occurred_at"}, {}, {"occurred_at"})
      /\ Has(P4, {"actor_user_id", "before_state", "after_state", "ip_address"}, {"actor_user_id", "before_state", "after_state", "ip_address"}, {})
  BY HasId, HasReq, HasDflt, HasOpt
<1> HIDE DEF P1, P2, P3, P4
<1>3. Has(P1 ++ P2, {"id", "company_id", "action", "entity_type", "entity_id"},
          {},
          {"id"})
  BY <1>2, HasBoth
<1>4. Has((P1 ++ P2) ++ P3, {"id", "company_id", "action", "entity_type", "entity_id", "occurred_at"},
          {},
          {"id", "occurred_at"})
  BY <1>2, <1>3, HasBoth
<1>5. Has(((P1 ++ P2) ++ P3) ++ P4, {"id", "company_id", "action", "entity_type", "entity_id", "occurred_at",
             "actor_user_id", "before_state", "after_state", "ip_address"},
          {"actor_user_id", "before_state", "after_state", "ip_address"},
          {"id", "occurred_at"})
  BY <1>2, <1>4, HasBoth
<1> QED BY <1>1, <1>5 DEF Makes, CreateTable

\* The columns, enum types and references of a table as RecreateObligations makes it.
LEMMA NewObligationsAre ==
    Makes(RecreateObligations[2], "obligations",
        {"id", "created_at", "updated_at", "deleted_at", "clause_id", "policy_id", "subject",
         "action", "object", "modality", "compliance_category", "confidence_score", "ai_model",
         "conditions", "time_constraint"},
        {"deleted_at", "conditions", "time_constraint"},
        {"id", "created_at", "updated_at"},
        NoTypes,
        {<<"clause_id", "clauses">>, <<"policy_id", "policies">>})
<1> DEFINE P1 == Standard
           P2 == Req({"clause_id", "policy_id", "subject", "action", "object", "modality",
                         "compliance_category", "confidence_score", "ai_model"})
           P3 == Opt({"conditions", "time_constraint"})
<1>1. RecreateObligations[2] = CreateTable("obligations", (P1 ++ P2) ++ P3, NoTypes,
        {<<"clause_id", "clauses">>, <<"policy_id", "policies">>})
  BY DEF RecreateObligations
<1>2. /\ Has(P1, {"id", "created_at", "updated_at", "deleted_at"}, {"deleted_at"}, {"id", "created_at", "updated_at"})
      /\ Has(P2, {"clause_id", "policy_id", "subject", "action", "object", "modality",
                     "compliance_category", "confidence_score", "ai_model"}, {}, {})
      /\ Has(P3, {"conditions", "time_constraint"}, {"conditions", "time_constraint"}, {})
  BY HasStandard, HasReq, HasOpt
<1> HIDE DEF P1, P2, P3
<1>3. Has(P1 ++ P2, {"id", "created_at", "updated_at", "deleted_at", "clause_id", "policy_id",
             "subject", "action", "object", "modality", "compliance_category",
             "confidence_score", "ai_model"},
          {"deleted_at"},
          {"id", "created_at", "updated_at"})
  BY <1>2, HasBoth
<1>4. Has((P1 ++ P2) ++ P3, {"id", "created_at", "updated_at", "deleted_at", "clause_id", "policy_id",
             "subject", "action", "object", "modality", "compliance_category",
             "confidence_score", "ai_model", "conditions", "time_constraint"},
          {"deleted_at", "conditions", "time_constraint"},
          {"id", "created_at", "updated_at"})
  BY <1>2, <1>3, HasBoth
<1> QED BY <1>1, <1>4 DEF Makes, CreateTable

\* The columns, enum types and references of a table as RestoreObligations makes it.
LEMMA RestoredObligationsAre ==
    Makes(RestoreObligations[4], "obligations",
        {"deleted_at", "id", "clause_id", "description", "action_required", "deadline_type",
         "priority", "status", "created_at", "updated_at", "responsible_department_id",
         "deadline_expression"},
        {"deleted_at", "responsible_department_id", "deadline_expression"},
        {},
        [deadline_type |-> "obligation_deadline_type", priority |-> "obligation_priority", status
        |-> "obligation_status"],
        {<<"clause_id", "clauses">>, <<"responsible_department_id", "departments">>})
<1> DEFINE P1 == SoftDelete
           P2 == Req({"id", "clause_id", "description", "action_required", "deadline_type",
                         "priority", "status", "created_at", "updated_at"})
           P3 == Opt({"responsible_department_id", "deadline_expression"})
<1>1. RestoreObligations[4] = CreateTable("obligations", (P1 ++ P2) ++ P3, [deadline_type |-> "obligation_deadline_type", priority |-> "obligation_priority",
            status |-> "obligation_status"],
        {<<"clause_id", "clauses">>, <<"responsible_department_id", "departments">>})
  BY DEF RestoreObligations
<1>2. /\ Has(P1, {"deleted_at"}, {"deleted_at"}, {})
      /\ Has(P2, {"id", "clause_id", "description", "action_required", "deadline_type",
                     "priority", "status", "created_at", "updated_at"}, {}, {})
      /\ Has(P3, {"responsible_department_id", "deadline_expression"}, {"responsible_department_id", "deadline_expression"}, {})
  BY HasSoftDelete, HasReq, HasOpt
<1> HIDE DEF P1, P2, P3
<1>3. Has(P1 ++ P2, {"deleted_at", "id", "clause_id", "description", "action_required", "deadline_type",
             "priority", "status", "created_at", "updated_at"},
          {"deleted_at"},
          {})
  BY <1>2, HasBoth
<1>4. Has((P1 ++ P2) ++ P3, {"deleted_at", "id", "clause_id", "description", "action_required", "deadline_type",
             "priority", "status", "created_at", "updated_at", "responsible_department_id",
             "deadline_expression"},
          {"deleted_at", "responsible_department_id", "deadline_expression"},
          {})
  BY <1>2, <1>3, HasBoth
<1> QED BY <1>1, <1>4 DEF Makes, CreateTable

\* The columns, enum types and references of a table as CreateConflicts makes it.
LEMMA ConflictsAre ==
    Makes(CreateConflicts[1], "conflicts",
        {"id", "created_at", "updated_at", "deleted_at", "source_policy_id", "target_policy_id",
         "conflict_type", "similarity_score", "severity", "status", "source_obligation_id",
         "target_obligation_id", "ai_explanation"},
        {"deleted_at", "source_obligation_id", "target_obligation_id", "ai_explanation"},
        {"id", "created_at", "updated_at", "status"},
        NoTypes,
        {<<"source_policy_id", "policies">>, <<"target_policy_id", "policies">>,
        <<"source_obligation_id", "obligations">>, <<"target_obligation_id", "obligations">>})
<1> DEFINE P1 == Standard
           P2 == Req({"source_policy_id", "target_policy_id", "conflict_type",
                         "similarity_score", "severity"})
           P3 == Dflt({"status"})
           P4 == Opt({"source_obligation_id", "target_obligation_id", "ai_explanation"})
<1>1. CreateConflicts[1] = CreateTable("conflicts", ((P1 ++ P2) ++ P3) ++ P4, NoTypes,
        {<<"source_policy_id", "policies">>, <<"target_policy_id", "policies">>,
        <<"source_obligation_id", "obligations">>, <<"target_obligation_id", "obligations">>})
  BY DEF CreateConflicts
<1>2. /\ Has(P1, {"id", "created_at", "updated_at", "deleted_at"}, {"deleted_at"}, {"id", "created_at", "updated_at"})
      /\ Has(P2, {"source_policy_id", "target_policy_id", "conflict_type",
                     "similarity_score", "severity"}, {}, {})
      /\ Has(P3, {"status"}, {}, {"status"})
      /\ Has(P4, {"source_obligation_id", "target_obligation_id", "ai_explanation"}, {"source_obligation_id", "target_obligation_id", "ai_explanation"}, {})
  BY HasStandard, HasReq, HasDflt, HasOpt
<1> HIDE DEF P1, P2, P3, P4
<1>3. Has(P1 ++ P2, {"id", "created_at", "updated_at", "deleted_at", "source_policy_id",
             "target_policy_id", "conflict_type", "similarity_score", "severity"},
          {"deleted_at"},
          {"id", "created_at", "updated_at"})
  BY <1>2, HasBoth
<1>4. Has((P1 ++ P2) ++ P3, {"id", "created_at", "updated_at", "deleted_at", "source_policy_id",
             "target_policy_id", "conflict_type", "similarity_score", "severity", "status"},
          {"deleted_at"},
          {"id", "created_at", "updated_at", "status"})
  BY <1>2, <1>3, HasBoth
<1>5. Has(((P1 ++ P2) ++ P3) ++ P4, {"id", "created_at", "updated_at", "deleted_at", "source_policy_id",
             "target_policy_id", "conflict_type", "similarity_score", "severity", "status",
             "source_obligation_id", "target_obligation_id", "ai_explanation"},
          {"deleted_at", "source_obligation_id", "target_obligation_id", "ai_explanation"},
          {"id", "created_at", "updated_at", "status"})
  BY <1>2, <1>4, HasBoth
<1> QED BY <1>1, <1>5 DEF Makes, CreateTable

\* The columns, enum types and references of a table as CreateRecommendations makes it.
LEMMA RecommendationsAre ==
    Makes(CreateRecommendations[1], "recommendations",
        {"id", "created_at", "updated_at", "deleted_at", "conflict_id",
         "recommendation_summary", "suggested_action", "reason", "ai_model", "confidence_score",
         "status", "original_clause", "revised_clause"},
        {"deleted_at", "original_clause", "revised_clause"},
        {"id", "created_at", "updated_at", "status"},
        NoTypes,
        {<<"conflict_id", "conflicts">>})
<1> DEFINE P1 == Standard
           P2 == Req({"conflict_id", "recommendation_summary", "suggested_action", "reason",
                         "ai_model", "confidence_score"})
           P3 == Dflt({"status"})
           P4 == Opt({"original_clause", "revised_clause"})
<1>1. CreateRecommendations[1] = CreateTable("recommendations", ((P1 ++ P2) ++ P3) ++ P4, NoTypes,
        {<<"conflict_id", "conflicts">>})
  BY DEF CreateRecommendations
<1>2. /\ Has(P1, {"id", "created_at", "updated_at", "deleted_at"}, {"deleted_at"}, {"id", "created_at", "updated_at"})
      /\ Has(P2, {"conflict_id", "recommendation_summary", "suggested_action", "reason",
                     "ai_model", "confidence_score"}, {}, {})
      /\ Has(P3, {"status"}, {}, {"status"})
      /\ Has(P4, {"original_clause", "revised_clause"}, {"original_clause", "revised_clause"}, {})
  BY HasStandard, HasReq, HasDflt, HasOpt
<1> HIDE DEF P1, P2, P3, P4
<1>3. Has(P1 ++ P2, {"id", "created_at", "updated_at", "deleted_at", "conflict_id",
             "recommendation_summary", "suggested_action", "reason", "ai_model",
             "confidence_score"},
          {"deleted_at"},
          {"id", "created_at", "updated_at"})
  BY <1>2, HasBoth
<1>4. Has((P1 ++ P2) ++ P3, {"id", "created_at", "updated_at", "deleted_at", "conflict_id",
             "recommendation_summary", "suggested_action", "reason", "ai_model",
             "confidence_score", "status"},
          {"deleted_at"},
          {"id", "created_at", "updated_at", "status"})
  BY <1>2, <1>3, HasBoth
<1>5. Has(((P1 ++ P2) ++ P3) ++ P4, {"id", "created_at", "updated_at", "deleted_at", "conflict_id",
             "recommendation_summary", "suggested_action", "reason", "ai_model",
             "confidence_score", "status", "original_clause", "revised_clause"},
          {"deleted_at", "original_clause", "revised_clause"},
          {"id", "created_at", "updated_at", "status"})
  BY <1>2, <1>4, HasBoth
<1> QED BY <1>1, <1>5 DEF Makes, CreateTable

\* The columns, enum types and references of a table as CreateComplianceAuditLogs makes it.
LEMMA ComplianceAuditLogsAre ==
    Makes(CreateComplianceAuditLogs[1], "compliance_audit_logs",
        {"id", "company_id", "event_type", "user_identifier", "description", "occurred_at"},
        {},
        {"id", "occurred_at"},
        NoTypes,
        {<<"company_id", "companies">>})
<1> DEFINE P1 == Id
           P2 == Req({"company_id", "event_type", "user_identifier", "description"})
           P3 == Dflt({"occurred_at"})
<1>1. CreateComplianceAuditLogs[1] = CreateTable("compliance_audit_logs", (P1 ++ P2) ++ P3, NoTypes,
        {<<"company_id", "companies">>})
  BY DEF CreateComplianceAuditLogs
<1>2. /\ Has(P1, {"id"}, {}, {"id"})
      /\ Has(P2, {"company_id", "event_type", "user_identifier", "description"}, {}, {})
      /\ Has(P3, {"occurred_at"}, {}, {"occurred_at"})
  BY HasId, HasReq, HasDflt
<1> HIDE DEF P1, P2, P3
<1>3. Has(P1 ++ P2, {"id", "company_id", "event_type", "user_identifier", "description"},
          {},
          {"id"})
  BY <1>2, HasBoth
<1>4. Has((P1 ++ P2) ++ P3, {"id", "company_id", "event_type", "user_identifier", "description", "occurred_at"},
          {},
          {"id", "occurred_at"})
  BY <1>2, <1>3, HasBoth
<1> QED BY <1>1, <1>4 DEF Makes, CreateTable

\* The columns, enum types and references of a table as CreateRegulatoryMappings makes it.
LEMMA RegulatoryMappingsAre ==
    Makes(CreateRegulatoryMappings[1], "regulatory_mappings",
        {"id", "created_at", "updated_at", "deleted_at", "policy_id", "obligation_id",
         "framework_name", "regulation_id", "clause_number", "confidence_score",
         "ai_explanation"},
        {"deleted_at"},
        {"id", "created_at", "updated_at"},
        NoTypes,
        {<<"obligation_id", "obligations">>, <<"policy_id", "policies">>})
<1> DEFINE P1 == Standard
           P2 == Req({"policy_id", "obligation_id", "framework_name", "regulation_id",
                         "clause_number", "confidence_score", "ai_explanation"})
<1>1. CreateRegulatoryMappings[1] = CreateTable("regulatory_mappings", P1 ++ P2, NoTypes,
        {<<"obligation_id", "obligations">>, <<"policy_id", "policies">>})
  BY DEF CreateRegulatoryMappings
<1>2. /\ Has(P1, {"id", "created_at", "updated_at", "deleted_at"}, {"deleted_at"}, {"id", "created_at", "updated_at"})
      /\ Has(P2, {"policy_id", "obligation_id", "framework_name", "regulation_id",
                     "clause_number", "confidence_score", "ai_explanation"}, {}, {})
  BY HasStandard, HasReq
<1> HIDE DEF P1, P2
<1>3. Has(P1 ++ P2, {"id", "created_at", "updated_at", "deleted_at", "policy_id", "obligation_id",
             "framework_name", "regulation_id", "clause_number", "confidence_score",
             "ai_explanation"},
          {"deleted_at"},
          {"id", "created_at", "updated_at"})
  BY <1>2, HasBoth
<1> QED BY <1>1, <1>3 DEF Makes, CreateTable

\* The columns, enum types and references of a table as CreateStoredFiles makes it.
LEMMA StoredFilesAre ==
    Makes(CreateStoredFiles[1], "stored_files",
        {"storage_path", "content", "size_bytes", "content_type", "created_at"},
        {"content_type"},
        {"created_at"},
        NoTypes,
        {})
<1> DEFINE P1 == Req({"storage_path", "content", "size_bytes"})
           P2 == Opt({"content_type"})
           P3 == Dflt({"created_at"})
<1>1. CreateStoredFiles[1] = CreateTable("stored_files", (P1 ++ P2) ++ P3, NoTypes,
        {})
  BY DEF CreateStoredFiles
<1>2. /\ Has(P1, {"storage_path", "content", "size_bytes"}, {}, {})
      /\ Has(P2, {"content_type"}, {"content_type"}, {})
      /\ Has(P3, {"created_at"}, {}, {"created_at"})
  BY HasReq, HasOpt, HasDflt
<1> HIDE DEF P1, P2, P3
<1>3. Has(P1 ++ P2, {"storage_path", "content", "size_bytes", "content_type"},
          {"content_type"},
          {})
  BY <1>2, HasBoth
<1>4. Has((P1 ++ P2) ++ P3, {"storage_path", "content", "size_bytes", "content_type", "created_at"},
          {"content_type"},
          {"created_at"})
  BY <1>2, <1>3, HasBoth
<1> QED BY <1>1, <1>4 DEF Makes, CreateTable

\* The statement that made a table.
LEMMA MadeCompanies == \A d, r, n : Made("companies", d, r, n) = CreateCompanies[1]
BY DEF Made, Created

\* Always the same statement.
LEMMA MadeDepartments == \A d, r, n : Made("departments", d, r, n) = CreateDepartments[1]
BY DEF Made, Created

\* Always the same statement.
LEMMA MadeUsers == \A d, r, n : Made("users", d, r, n) = CreateUsers[1]
BY DEF Made, Created

\* Always the same statement.
LEMMA MadePolicies == \A d, r, n : Made("policies", d, r, n) = CreatePolicies[1]
BY DEF Made, Created

\* Always the same statement.
LEMMA MadePolicyVersions == \A d, r, n : Made("policy_versions", d, r, n) = CreatePolicyVersions[1]
BY DEF Made, Created

\* Always the same statement.
LEMMA MadeClauses == \A d, r, n : Made("clauses", d, r, n) = CreateClauses[1]
BY DEF Made, Created

\* Always the same statement.
LEMMA MadeRegulatoryFrameworks == \A d, r, n : Made("regulatory_frameworks", d, r, n) = CreateRegulatoryFrameworks[1]
BY DEF Made, Created

\* Always the same statement.
LEMMA MadeRegulatoryClauses == \A d, r, n : Made("regulatory_clauses", d, r, n) = CreateRegulatoryClauses[1]
BY DEF Made, Created

\* Always the same statement.
LEMMA MadeClauseRegulatoryMappings == \A d, r, n : Made("clause_regulatory_mappings", d, r, n) = CreateClauseRegulatoryMappings[1]
BY DEF Made, Created

\* Always the same statement.
LEMMA MadeFindings == \A d, r, n : Made("findings", d, r, n) = CreateFindings[1]
BY DEF Made, Created

\* Always the same statement.
LEMMA MadeFindingClauseLinks == \A d, r, n : Made("finding_clause_links", d, r, n) = CreateFindingClauseLinks[1]
BY DEF Made, Created

\* Always the same statement.
LEMMA MadeAuditLogs == \A d, r, n : Made("audit_logs", d, r, n) = CreateAuditLogs[1]
BY DEF Made, Created

\* Always the same statement.
LEMMA MadeConflicts == \A d, r, n : Made("conflicts", d, r, n) = CreateConflicts[1]
BY DEF Made, Created

\* Always the same statement.
LEMMA MadeRecommendations == \A d, r, n : Made("recommendations", d, r, n) = CreateRecommendations[1]
BY DEF Made, Created

\* Always the same statement.
LEMMA MadeComplianceAuditLogs == \A d, r, n : Made("compliance_audit_logs", d, r, n) = CreateComplianceAuditLogs[1]
BY DEF Made, Created

\* Always the same statement.
LEMMA MadeRegulatoryMappings == \A d, r, n : Made("regulatory_mappings", d, r, n) = CreateRegulatoryMappings[1]
BY DEF Made, Created

\* Always the same statement.
LEMMA MadeStoredFiles == \A d, r, n : Made("stored_files", d, r, n) = CreateStoredFiles[1]
BY DEF Made, Created

\* The table obligations is created twice, with different columns.
LEMMA MadeObligations ==
    \A d, r, n : Made("obligations", d, r, n) = IF IsNew(d, r, n) THEN RecreateObligations[2] ELSE CreateObligations[1]
BY DEF Made, Created

-----------------------------------------------------------------------------
(* Sequences of statements. The provers know of a sequence given as a      *)
(* tuple what is said of its length and its elements only where the tuple  *)
(* is in sight; hence one lemma for each part of the initial upgrade.      *)

Sequence(s) == \E A : s \in Seq(A)
Joins(s, t, q) == q = s \o t
Extends(s, t, q) ==
    /\ Len(q) = Len(s) + Len(t)
    /\ \A i \in 1..Len(s) : q[i] = s[i]
    /\ \A i \in 1..Len(t) : q[Len(s) + i] = t[i]

\* The elements of two sequences joined, by position.
LEMMA JoinedAt ==
    ASSUME NEW s, NEW t, NEW q, Sequence(s), Sequence(t), Joins(s, t, q)
    PROVE  Sequence(q) /\ Extends(s, t, q)
<1>1. PICK A : s \in Seq(A)
  BY DEF Sequence
<1>2. PICK B : t \in Seq(B)
  BY DEF Sequence
<1>3. s \in Seq(A \cup B) /\ t \in Seq(A \cup B)
  BY <1>1, <1>2
<1>4. q \in Seq(A \cup B) /\ q = s \o t
  BY <1>3 DEF Joins
<1>5. Extends(s, t, q)
  BY <1>3, <1>4 DEF Extends
<1> QED BY <1>4, <1>5 DEF Sequence

\* Statements of AllEnums.
LEMMA AllEnumsLength == Sequence(AllEnums) /\ Len(AllEnums) = 16
<1>1. AllEnums \in Seq({AllEnums[i] : i \in 1..16})
  BY DEF AllEnums
<1> QED BY <1>1 DEF Sequence, AllEnums

\* Statements of Functions.
LEMMA FunctionsLength == Sequence(Functions) /\ Len(Functions) = 2
<1>1. Functions \in Seq({Functions[i] : i \in 1..2})
  BY DEF Functions
<1> QED BY <1>1 DEF Sequence, Functions

\* Statements of CreateCompanies.
LEMMA CreateCompaniesLength == Sequence(CreateCompanies) /\ Len(CreateCompanies) = 4
<1>1. CreateCompanies \in Seq({CreateCompanies[i] : i \in 1..4})
  BY DEF CreateCompanies
<1> QED BY <1>1 DEF Sequence, CreateCompanies

\* Statements of CreateDepartments.
LEMMA CreateDepartmentsLength == Sequence(CreateDepartments) /\ Len(CreateDepartments) = 5
<1>1. CreateDepartments \in Seq({CreateDepartments[i] : i \in 1..5})
  BY DEF CreateDepartments
<1> QED BY <1>1 DEF Sequence, CreateDepartments

\* Statements of CreateUsers.
LEMMA CreateUsersLength == Sequence(CreateUsers) /\ Len(CreateUsers) = 6
<1>1. CreateUsers \in Seq({CreateUsers[i] : i \in 1..6})
  BY DEF CreateUsers
<1> QED BY <1>1 DEF Sequence, CreateUsers

\* Statements of CreatePolicies.
LEMMA CreatePoliciesLength == Sequence(CreatePolicies) /\ Len(CreatePolicies) = 6
<1>1. CreatePolicies \in Seq({CreatePolicies[i] : i \in 1..6})
  BY DEF CreatePolicies
<1> QED BY <1>1 DEF Sequence, CreatePolicies

\* Statements of CreatePolicyVersions.
LEMMA CreatePolicyVersionsLength == Sequence(CreatePolicyVersions) /\ Len(CreatePolicyVersions) = 7
<1>1. CreatePolicyVersions \in Seq({CreatePolicyVersions[i] : i \in 1..7})
  BY DEF CreatePolicyVersions
<1> QED BY <1>1 DEF Sequence, CreatePolicyVersions

\* Statements of CloseCurrentVersion.
LEMMA CloseCurrentVersionLength == Sequence(CloseCurrentVersion) /\ Len(CloseCurrentVersion) = 2
<1>1. CloseCurrentVersion \in Seq({CloseCurrentVersion[i] : i \in 1..2})
  BY DEF CloseCurrentVersion
<1> QED BY <1>1 DEF Sequence, CloseCurrentVersion

\* Statements of CreateClauses.
LEMMA CreateClausesLength == Sequence(CreateClauses) /\ Len(CreateClauses) = 5
<1>1. CreateClauses \in Seq({CreateClauses[i] : i \in 1..5})
  BY DEF CreateClauses
<1> QED BY <1>1 DEF Sequence, CreateClauses

\* Statements of CreateObligations.
LEMMA CreateObligationsLength == Sequence(CreateObligations) /\ Len(CreateObligations) = 5
<1>1. CreateObligations \in Seq({CreateObligations[i] : i \in 1..5})
  BY DEF CreateObligations
<1> QED BY <1>1 DEF Sequence, CreateObligations

\* Statements of CreateRegulatoryFrameworks.
LEMMA CreateRegulatoryFrameworksLength == Sequence(CreateRegulatoryFrameworks) /\ Len(CreateRegulatoryFrameworks) = 3
<1>1. CreateRegulatoryFrameworks \in Seq({CreateRegulatoryFrameworks[i] : i \in 1..3})
  BY DEF CreateRegulatoryFrameworks
<1> QED BY <1>1 DEF Sequence, CreateRegulatoryFrameworks

\* Statements of CreateRegulatoryClauses.
LEMMA CreateRegulatoryClausesLength == Sequence(CreateRegulatoryClauses) /\ Len(CreateRegulatoryClauses) = 4
<1>1. CreateRegulatoryClauses \in Seq({CreateRegulatoryClauses[i] : i \in 1..4})
  BY DEF CreateRegulatoryClauses
<1> QED BY <1>1 DEF Sequence, CreateRegulatoryClauses

\* Statements of CreateClauseRegulatoryMappings.
LEMMA CreateClauseRegulatoryMappingsLength == Sequence(CreateClauseRegulatoryMappings) /\ Len(CreateClauseRegulatoryMappings) = 6
<1>1. CreateClauseRegulatoryMappings \in Seq({CreateClauseRegulatoryMappings[i] : i \in 1..6})
  BY DEF CreateClauseRegulatoryMappings
<1> QED BY <1>1 DEF Sequence, CreateClauseRegulatoryMappings

\* Statements of CreateFindings.
LEMMA CreateFindingsLength == Sequence(CreateFindings) /\ Len(CreateFindings) = 8
<1>1. CreateFindings \in Seq({CreateFindings[i] : i \in 1..8})
  BY DEF CreateFindings
<1> QED BY <1>1 DEF Sequence, CreateFindings

\* Statements of CreateFindingClauseLinks.
LEMMA CreateFindingClauseLinksLength == Sequence(CreateFindingClauseLinks) /\ Len(CreateFindingClauseLinks) = 5
<1>1. CreateFindingClauseLinks \in Seq({CreateFindingClauseLinks[i] : i \in 1..5})
  BY DEF CreateFindingClauseLinks
<1> QED BY <1>1 DEF Sequence, CreateFindingClauseLinks

\* Statements of CreateAuditLogs.
LEMMA CreateAuditLogsLength == Sequence(CreateAuditLogs) /\ Len(CreateAuditLogs) = 6
<1>1. CreateAuditLogs \in Seq({CreateAuditLogs[i] : i \in 1..6})
  BY DEF CreateAuditLogs
<1> QED BY <1>1 DEF Sequence, CreateAuditLogs

(* The parts of the initial upgrade, each from its place on. *)
StartsAt(part, n) == \A i \in 1..Len(part) : InitialUpgrade[n + i] = part[i]

\* The initial upgrade has 90 statements, its parts one after the other.
LEMMA InitialUpgradeIs ==
    /\ Len(InitialUpgrade) = 90
    /\ StartsAt(AllEnums, 0)
    /\ StartsAt(Functions, 16)
    /\ StartsAt(CreateCompanies, 18)
    /\ StartsAt(CreateDepartments, 22)
    /\ StartsAt(CreateUsers, 27)
    /\ StartsAt(CreatePolicies, 33)
    /\ StartsAt(CreatePolicyVersions, 39)
    /\ StartsAt(CloseCurrentVersion, 46)
    /\ StartsAt(CreateClauses, 48)
    /\ StartsAt(CreateObligations, 53)
    /\ StartsAt(CreateRegulatoryFrameworks, 58)
    /\ StartsAt(CreateRegulatoryClauses, 61)
    /\ StartsAt(CreateClauseRegulatoryMappings, 65)
    /\ StartsAt(CreateFindings, 71)
    /\ StartsAt(CreateFindingClauseLinks, 79)
    /\ StartsAt(CreateAuditLogs, 84)
<1> DEFINE P1 == AllEnums
           P2 == P1 \o Functions
           P3 == P2 \o CreateCompanies
           P4 == P3 \o CreateDepartments
           P5 == P4 \o CreateUsers
           P6 == P5 \o CreatePolicies
           P7 == P6 \o CreatePolicyVersions
           P8 == P7 \o CloseCurrentVersion
           P9 == P8 \o CreateClauses
           P10 == P9 \o CreateObligations
           P11 == P10 \o CreateRegulatoryFrameworks
           P12 == P11 \o CreateRegulatoryClauses
           P13 == P12 \o CreateClauseRegulatoryMappings
           P14 == P13 \o CreateFindings
           P15 == P14 \o CreateFindingClauseLinks
           P16 == P15 \o CreateAuditLogs
<1>1. P16 = InitialUpgrade
  BY DEF InitialUpgrade
<1>2. /\ Joins(P1, Functions, P2)
      /\ Joins(P2, CreateCompanies, P3)
      /\ Joins(P3, CreateDepartments, P4)
      /\ Joins(P4, CreateUsers, P5)
      /\ Joins(P5, CreatePolicies, P6)
      /\ Joins(P6, CreatePolicyVersions, P7)
      /\ Joins(P7, CloseCurrentVersion, P8)
      /\ Joins(P8, CreateClauses, P9)
      /\ Joins(P9, CreateObligations, P10)
      /\ Joins(P10, CreateRegulatoryFrameworks, P11)
      /\ Joins(P11, CreateRegulatoryClauses, P12)
      /\ Joins(P12, CreateClauseRegulatoryMappings, P13)
      /\ Joins(P13, CreateFindings, P14)
      /\ Joins(P14, CreateFindingClauseLinks, P15)
      /\ Joins(P15, CreateAuditLogs, P16)
  BY DEF Joins
<1>3. Sequence(P1) /\ Len(P1) = 16
  BY AllEnumsLength
<1> HIDE DEF P1, P2, P3, P4, P5, P6, P7, P8, P9, P10, P11, P12, P13, P14, P15, P16
<1>4. /\ Sequence(AllEnums)
      /\ Sequence(Functions)
      /\ Sequence(CreateCompanies)
      /\ Sequence(CreateDepartments)
      /\ Sequence(CreateUsers)
      /\ Sequence(CreatePolicies)
      /\ Sequence(CreatePolicyVersions)
      /\ Sequence(CloseCurrentVersion)
      /\ Sequence(CreateClauses)
      /\ Sequence(CreateObligations)
      /\ Sequence(CreateRegulatoryFrameworks)
      /\ Sequence(CreateRegulatoryClauses)
      /\ Sequence(CreateClauseRegulatoryMappings)
      /\ Sequence(CreateFindings)
      /\ Sequence(CreateFindingClauseLinks)
      /\ Sequence(CreateAuditLogs)
  BY AllEnumsLength, FunctionsLength, CreateCompaniesLength, CreateDepartmentsLength, CreateUsersLength, CreatePoliciesLength, CreatePolicyVersionsLength, CloseCurrentVersionLength, CreateClausesLength, CreateObligationsLength, CreateRegulatoryFrameworksLength, CreateRegulatoryClausesLength, CreateClauseRegulatoryMappingsLength, CreateFindingsLength, CreateFindingClauseLinksLength, CreateAuditLogsLength
<1>5. Sequence(P2) /\ Extends(P1, Functions, P2)
  BY <1>2, <1>4, <1>3, JoinedAt
<1>6. Sequence(P3) /\ Extends(P2, CreateCompanies, P3)
  BY <1>2, <1>4, <1>5, JoinedAt
<1>7. Sequence(P4) /\ Extends(P3, CreateDepartments, P4)
  BY <1>2, <1>4, <1>6, JoinedAt
<1>8. Sequence(P5) /\ Extends(P4, CreateUsers, P5)
  BY <1>2, <1>4, <1>7, JoinedAt
<1>9. Sequence(P6) /\ Extends(P5, CreatePolicies, P6)
  BY <1>2, <1>4, <1>8, JoinedAt
<1>10. Sequence(P7) /\ Extends(P6, CreatePolicyVersions, P7)
  BY <1>2, <1>4, <1>9, JoinedAt
<1>11. Sequence(P8) /\ Extends(P7, CloseCurrentVersion, P8)
  BY <1>2, <1>4, <1>10, JoinedAt
<1>12. Sequence(P9) /\ Extends(P8, CreateClauses, P9)
  BY <1>2, <1>4, <1>11, JoinedAt
<1>13. Sequence(P10) /\ Extends(P9, CreateObligations, P10)
  BY <1>2, <1>4, <1>12, JoinedAt
<1>14. Sequence(P11) /\ Extends(P10, CreateRegulatoryFrameworks, P11)
  BY <1>2, <1>4, <1>13, JoinedAt
<1>15. Sequence(P12) /\ Extends(P11, CreateRegulatoryClauses, P12)
  BY <1>2, <1>4, <1>14, JoinedAt
<1>16. Sequence(P13) /\ Extends(P12, CreateClauseRegulatoryMappings, P13)
  BY <1>2, <1>4, <1>15, JoinedAt
<1>17. Sequence(P14) /\ Extends(P13, CreateFindings, P14)
  BY <1>2, <1>4, <1>16, JoinedAt
<1>18. Sequence(P15) /\ Extends(P14, CreateFindingClauseLinks, P15)
  BY <1>2, <1>4, <1>17, JoinedAt
<1>19. Sequence(P16) /\ Extends(P15, CreateAuditLogs, P16)
  BY <1>2, <1>4, <1>18, JoinedAt
<1>20. Len(P2) = 18
  BY <1>5, <1>3, FunctionsLength DEF Extends
<1>21. Len(P3) = 22
  BY <1>6, <1>20, CreateCompaniesLength DEF Extends
<1>22. Len(P4) = 27
  BY <1>7, <1>21, CreateDepartmentsLength DEF Extends
<1>23. Len(P5) = 33
  BY <1>8, <1>22, CreateUsersLength DEF Extends
<1>24. Len(P6) = 39
  BY <1>9, <1>23, CreatePoliciesLength DEF Extends
<1>25. Len(P7) = 46
  BY <1>10, <1>24, CreatePolicyVersionsLength DEF Extends
<1>26. Len(P8) = 48
  BY <1>11, <1>25, CloseCurrentVersionLength DEF Extends
<1>27. Len(P9) = 53
  BY <1>12, <1>26, CreateClausesLength DEF Extends
<1>28. Len(P10) = 58
  BY <1>13, <1>27, CreateObligationsLength DEF Extends
<1>29. Len(P11) = 61
  BY <1>14, <1>28, CreateRegulatoryFrameworksLength DEF Extends
<1>30. Len(P12) = 65
  BY <1>15, <1>29, CreateRegulatoryClausesLength DEF Extends
<1>31. Len(P13) = 71
  BY <1>16, <1>30, CreateClauseRegulatoryMappingsLength DEF Extends
<1>32. Len(P14) = 79
  BY <1>17, <1>31, CreateFindingsLength DEF Extends
<1>33. Len(P15) = 84
  BY <1>18, <1>32, CreateFindingClauseLinksLength DEF Extends
<1>34. Len(P16) = 90
  BY <1>19, <1>33, CreateAuditLogsLength DEF Extends
<1>35. \A i \in 1..84 : P16[i] = P15[i]
  BY <1>19, <1>33 DEF Extends
<1>36. \A i \in 1..79 : P16[i] = P14[i]
  <2>1. \A i \in 1..79 : P15[i] = P14[i]
    BY <1>18, <1>32 DEF Extends
  <2>2. \A i \in 1..79 : i \in 1..84
    OBVIOUS
  <2> QED BY <2>1, <2>2, <1>35
<1>37. \A i \in 1..71 : P16[i] = P13[i]
  <2>1. \A i \in 1..71 : P14[i] = P13[i]
    BY <1>17, <1>31 DEF Extends
  <2>2. \A i \in 1..71 : i \in 1..79
    OBVIOUS
  <2> QED BY <2>1, <2>2, <1>36
<1>38. \A i \in 1..65 : P16[i] = P12[i]
  <2>1. \A i \in 1..65 : P13[i] = P12[i]
    BY <1>16, <1>30 DEF Extends
  <2>2. \A i \in 1..65 : i \in 1..71
    OBVIOUS
  <2> QED BY <2>1, <2>2, <1>37
<1>39. \A i \in 1..61 : P16[i] = P11[i]
  <2>1. \A i \in 1..61 : P12[i] = P11[i]
    BY <1>15, <1>29 DEF Extends
  <2>2. \A i \in 1..61 : i \in 1..65
    OBVIOUS
  <2> QED BY <2>1, <2>2, <1>38
<1>40. \A i \in 1..58 : P16[i] = P10[i]
  <2>1. \A i \in 1..58 : P11[i] = P10[i]
    BY <1>14, <1>28 DEF Extends
  <2>2. \A i \in 1..58 : i \in 1..61
    OBVIOUS
  <2> QED BY <2>1, <2>2, <1>39
<1>41. \A i \in 1..53 : P16[i] = P9[i]
  <2>1. \A i \in 1..53 : P10[i] = P9[i]
    BY <1>13, <1>27 DEF Extends
  <2>2. \A i \in 1..53 : i \in 1..58
    OBVIOUS
  <2> QED BY <2>1, <2>2, <1>40
<1>42. \A i \in 1..48 : P16[i] = P8[i]
  <2>1. \A i \in 1..48 : P9[i] = P8[i]
    BY <1>12, <1>26 DEF Extends
  <2>2. \A i \in 1..48 : i \in 1..53
    OBVIOUS
  <2> QED BY <2>1, <2>2, <1>41
<1>43. \A i \in 1..46 : P16[i] = P7[i]
  <2>1. \A i \in 1..46 : P8[i] = P7[i]
    BY <1>11, <1>25 DEF Extends
  <2>2. \A i \in 1..46 : i \in 1..48
    OBVIOUS
  <2> QED BY <2>1, <2>2, <1>42
<1>44. \A i \in 1..39 : P16[i] = P6[i]
  <2>1. \A i \in 1..39 : P7[i] = P6[i]
    BY <1>10, <1>24 DEF Extends
  <2>2. \A i \in 1..39 : i \in 1..46
    OBVIOUS
  <2> QED BY <2>1, <2>2, <1>43
<1>45. \A i \in 1..33 : P16[i] = P5[i]
  <2>1. \A i \in 1..33 : P6[i] = P5[i]
    BY <1>9, <1>23 DEF Extends
  <2>2. \A i \in 1..33 : i \in 1..39
    OBVIOUS
  <2> QED BY <2>1, <2>2, <1>44
<1>46. \A i \in 1..27 : P16[i] = P4[i]
  <2>1. \A i \in 1..27 : P5[i] = P4[i]
    BY <1>8, <1>22 DEF Extends
  <2>2. \A i \in 1..27 : i \in 1..33
    OBVIOUS
  <2> QED BY <2>1, <2>2, <1>45
<1>47. \A i \in 1..22 : P16[i] = P3[i]
  <2>1. \A i \in 1..22 : P4[i] = P3[i]
    BY <1>7, <1>21 DEF Extends
  <2>2. \A i \in 1..22 : i \in 1..27
    OBVIOUS
  <2> QED BY <2>1, <2>2, <1>46
<1>48. \A i \in 1..18 : P16[i] = P2[i]
  <2>1. \A i \in 1..18 : P3[i] = P2[i]
    BY <1>6, <1>20 DEF Extends
  <2>2. \A i \in 1..18 : i \in 1..22
    OBVIOUS
  <2> QED BY <2>1, <2>2, <1>47
<1>49. \A i \in 1..16 : P16[i] = P1[i]
  <2>1. \A i \in 1..16 : P2[i] = P1[i]
    BY <1>5, <1>3 DEF Extends
  <2>2. \A i \in 1..16 : i \in 1..18
    OBVIOUS
  <2> QED BY <2>1, <2>2, <1>48
<1>50. StartsAt(AllEnums, 0)
  BY <1>49, <1>1, AllEnumsLength DEF StartsAt, P1
<1>51. StartsAt(Functions, 16)
  <2>1. ASSUME NEW i \in 1..2 PROVE InitialUpgrade[16 + i] = Functions[i]
    <3>1. 16 + i \in 1..18 /\ P2[16 + i] = Functions[i]
      BY <1>5, <1>3, FunctionsLength DEF Extends
    <3> QED BY <3>1, <1>1, <1>48
  <2> QED BY <2>1, FunctionsLength DEF StartsAt
<1>52. StartsAt(CreateCompanies, 18)
  <2>1. ASSUME NEW i \in 1..4 PROVE InitialUpgrade[18 + i] = CreateCompanies[i]
    <3>1. 18 + i \in 1..22 /\ P3[18 + i] = CreateCompanies[i]
      BY <1>6, <1>20, CreateCompaniesLength DEF Extends
    <3> QED BY <3>1, <1>1, <1>47
  <2> QED BY <2>1, CreateCompaniesLength DEF StartsAt
<1>53. StartsAt(CreateDepartments, 22)
  <2>1. ASSUME NEW i \in 1..5 PROVE InitialUpgrade[22 + i] = CreateDepartments[i]
    <3>1. 22 + i \in 1..27 /\ P4[22 + i] = CreateDepartments[i]
      BY <1>7, <1>21, CreateDepartmentsLength DEF Extends
    <3> QED BY <3>1, <1>1, <1>46
  <2> QED BY <2>1, CreateDepartmentsLength DEF StartsAt
<1>54. StartsAt(CreateUsers, 27)
  <2>1. ASSUME NEW i \in 1..6 PROVE InitialUpgrade[27 + i] = CreateUsers[i]
    <3>1. 27 + i \in 1..33 /\ P5[27 + i] = CreateUsers[i]
      BY <1>8, <1>22, CreateUsersLength DEF Extends
    <3> QED BY <3>1, <1>1, <1>45
  <2> QED BY <2>1, CreateUsersLength DEF StartsAt
<1>55. StartsAt(CreatePolicies, 33)
  <2>1. ASSUME NEW i \in 1..6 PROVE InitialUpgrade[33 + i] = CreatePolicies[i]
    <3>1. 33 + i \in 1..39 /\ P6[33 + i] = CreatePolicies[i]
      BY <1>9, <1>23, CreatePoliciesLength DEF Extends
    <3> QED BY <3>1, <1>1, <1>44
  <2> QED BY <2>1, CreatePoliciesLength DEF StartsAt
<1>56. StartsAt(CreatePolicyVersions, 39)
  <2>1. ASSUME NEW i \in 1..7 PROVE InitialUpgrade[39 + i] = CreatePolicyVersions[i]
    <3>1. 39 + i \in 1..46 /\ P7[39 + i] = CreatePolicyVersions[i]
      BY <1>10, <1>24, CreatePolicyVersionsLength DEF Extends
    <3> QED BY <3>1, <1>1, <1>43
  <2> QED BY <2>1, CreatePolicyVersionsLength DEF StartsAt
<1>57. StartsAt(CloseCurrentVersion, 46)
  <2>1. ASSUME NEW i \in 1..2 PROVE InitialUpgrade[46 + i] = CloseCurrentVersion[i]
    <3>1. 46 + i \in 1..48 /\ P8[46 + i] = CloseCurrentVersion[i]
      BY <1>11, <1>25, CloseCurrentVersionLength DEF Extends
    <3> QED BY <3>1, <1>1, <1>42
  <2> QED BY <2>1, CloseCurrentVersionLength DEF StartsAt
<1>58. StartsAt(CreateClauses, 48)
  <2>1. ASSUME NEW i \in 1..5 PROVE InitialUpgrade[48 + i] = CreateClauses[i]
    <3>1. 48 + i \in 1..53 /\ P9[48 + i] = CreateClauses[i]
      BY <1>12, <1>26, CreateClausesLength DEF Extends
    <3> QED BY <3>1, <1>1, <1>41
  <2> QED BY <2>1, CreateClausesLength DEF StartsAt
<1>59. StartsAt(CreateObligations, 53)
  <2>1. ASSUME NEW i \in 1..5 PROVE InitialUpgrade[53 + i] = CreateObligations[i]
    <3>1. 53 + i \in 1..58 /\ P10[53 + i] = CreateObligations[i]
      BY <1>13, <1>27, CreateObligationsLength DEF Extends
    <3> QED BY <3>1, <1>1, <1>40
  <2> QED BY <2>1, CreateObligationsLength DEF StartsAt
<1>60. StartsAt(CreateRegulatoryFrameworks, 58)
  <2>1. ASSUME NEW i \in 1..3 PROVE InitialUpgrade[58 + i] = CreateRegulatoryFrameworks[i]
    <3>1. 58 + i \in 1..61 /\ P11[58 + i] = CreateRegulatoryFrameworks[i]
      BY <1>14, <1>28, CreateRegulatoryFrameworksLength DEF Extends
    <3> QED BY <3>1, <1>1, <1>39
  <2> QED BY <2>1, CreateRegulatoryFrameworksLength DEF StartsAt
<1>61. StartsAt(CreateRegulatoryClauses, 61)
  <2>1. ASSUME NEW i \in 1..4 PROVE InitialUpgrade[61 + i] = CreateRegulatoryClauses[i]
    <3>1. 61 + i \in 1..65 /\ P12[61 + i] = CreateRegulatoryClauses[i]
      BY <1>15, <1>29, CreateRegulatoryClausesLength DEF Extends
    <3> QED BY <3>1, <1>1, <1>38
  <2> QED BY <2>1, CreateRegulatoryClausesLength DEF StartsAt
<1>62. StartsAt(CreateClauseRegulatoryMappings, 65)
  <2>1. ASSUME NEW i \in 1..6 PROVE InitialUpgrade[65 + i] = CreateClauseRegulatoryMappings[i]
    <3>1. 65 + i \in 1..71 /\ P13[65 + i] = CreateClauseRegulatoryMappings[i]
      BY <1>16, <1>30, CreateClauseRegulatoryMappingsLength DEF Extends
    <3> QED BY <3>1, <1>1, <1>37
  <2> QED BY <2>1, CreateClauseRegulatoryMappingsLength DEF StartsAt
<1>63. StartsAt(CreateFindings, 71)
  <2>1. ASSUME NEW i \in 1..8 PROVE InitialUpgrade[71 + i] = CreateFindings[i]
    <3>1. 71 + i \in 1..79 /\ P14[71 + i] = CreateFindings[i]
      BY <1>17, <1>31, CreateFindingsLength DEF Extends
    <3> QED BY <3>1, <1>1, <1>36
  <2> QED BY <2>1, CreateFindingsLength DEF StartsAt
<1>64. StartsAt(CreateFindingClauseLinks, 79)
  <2>1. ASSUME NEW i \in 1..5 PROVE InitialUpgrade[79 + i] = CreateFindingClauseLinks[i]
    <3>1. 79 + i \in 1..84 /\ P15[79 + i] = CreateFindingClauseLinks[i]
      BY <1>18, <1>32, CreateFindingClauseLinksLength DEF Extends
    <3> QED BY <3>1, <1>1, <1>35
  <2> QED BY <2>1, CreateFindingClauseLinksLength DEF StartsAt
<1>65. StartsAt(CreateAuditLogs, 84)
  <2>1. ASSUME NEW i \in 1..6 PROVE InitialUpgrade[84 + i] = CreateAuditLogs[i]
    <3>1. 84 + i \in 1..90 /\ P16[84 + i] = CreateAuditLogs[i]
      BY <1>19, <1>33, CreateAuditLogsLength DEF Extends
    <3> QED BY <3>1, <1>1
  <2> QED BY <2>1, CreateAuditLogsLength DEF StartsAt
<1> QED BY <1>1, <1>34, <1>50, <1>51, <1>52, <1>53, <1>54, <1>55, <1>56, <1>57, <1>58, <1>59, <1>60, <1>61, <1>62, <1>63, <1>64, <1>65

-----------------------------------------------------------------------------
(* The initial upgrade and downgrade: what many statements share.          *)

(* Nothing but indexes moves at statement n of the initial upgrade. *)
Quiet(n) == n \in 20..90 /\ n \notin {23, 28, 34, 40, 47, 49, 52, 54, 59, 62, 66, 72, 80, 85}
FirstIndex(i, t, C, n) ==
    /\ Quiet(n) /\ t \in AllTables /\ i \notin AllTables /\ i # VersionKey
    /\ HasTable(t, "up", 0, n) /\ \A c \in C : Column(t, c, "up", 0, n)
    /\ ~Early(i, n) /\ Early(i, n + 1)
    /\ \A u, D : NamedIndex(i, u, D) => u = t /\ D = C
FirstTrigger(t, f, n) ==
    Quiet(n) /\ t \in AllTables /\ HasTable(t, "up", 0, n) /\ f \in {"set_updated_at", "prevent_mutation"}

\* From statement 20 on the initial upgrade creates tables, and a key, or moves nothing.
LEMMA QuietMovesNothing ==
    ASSUME NEW n, Quiet(n)
    PROVE  /\ \A t : HasTable(t, "up", 0, n + 1) <=> HasTable(t, "up", 0, n)
           /\ IsNew("up", 0, n + 1) <=> IsNew("up", 0, n)
           /\ \A t, c : LateColumn(t, c, "up", 0, n + 1) <=> LateColumn(t, c, "up", 0, n)
           /\ \A t, c : Loose(t, c, "up", 0, n + 1) <=> Loose(t, c, "up", 0, n)
           /\ \A t, x : HasCheck(t, x, "up", 0, n + 1) <=> HasCheck(t, x, "up", 0, n)
           /\ \A t, c, u, x : HasKey(t, c, u, x, "up", 0, n + 1) <=> HasKey(t, c, u, x, "up", 0, n)
           /\ \A i : HasIndex(i, "up", 0, n + 1) <=> HasIndex(i, "up", 0, n)
           /\ \A i : Unsure(i, "up", 0, n + 1) <=> Unsure(i, "up", 0, n)
           /\ \A i : Early(i, n) => Early(i, n + 1)
           /\ \A e : HasEnum(e, "up", 0, n + 1) <=> HasEnum(e, "up", 0, n)
           /\ ~HasRuleBased("up", 0, n + 1)
           /\ \A f : HasFunction(f, "up", 0, n + 1) <=> HasFunction(f, "up", 0, n)
<1> USE DEF Quiet, Stands
<1>1. \A t : HasTable(t, "up", 0, n + 1) <=> HasTable(t, "up", 0, n)
  BY DEF HasTable, IsNew, OldGone
<1>2. \A t, c : /\ LateColumn(t, c, "up", 0, n + 1) <=> LateColumn(t, c, "up", 0, n)
                /\ Loose(t, c, "up", 0, n + 1) <=> Loose(t, c, "up", 0, n)
  BY DEF LateColumn, Loose
<1>3. /\ \A t, x : HasCheck(t, x, "up", 0, n + 1) <=> HasCheck(t, x, "up", 0, n)
      /\ \A t, c, u, x : HasKey(t, c, u, x, "up", 0, n + 1) <=> HasKey(t, c, u, x, "up", 0, n)
  BY DEF HasCheck, HasKey
<1>4. /\ \A i : HasIndex(i, "up", 0, n + 1) <=> HasIndex(i, "up", 0, n)
      /\ \A i : Unsure(i, "up", 0, n + 1) <=> Unsure(i, "up", 0, n)
  BY DEF HasIndex, Unsure, OldGone
<1>5. \A i : Early(i, n) => Early(i, n + 1)
  BY DEF Early
<1>6. /\ \A e : HasEnum(e, "up", 0, n + 1) <=> HasEnum(e, "up", 0, n)
      /\ ~HasRuleBased("up", 0, n + 1)
      /\ \A f : HasFunction(f, "up", 0, n + 1) <=> HasFunction(f, "up", 0, n)
  BY DEF HasEnum, HasRuleBased, HasFunction
<1>7. IsNew("up", 0, n + 1) <=> IsNew("up", 0, n)
  BY DEF IsNew
<1> QED BY <1>1, <1>2, <1>3, <1>4, <1>5, <1>6, <1>7

\* Most indexes of the initial upgrade are made where nothing else moves.
LEMMA FirstIndexPlaced ==
    ASSUME NEW i, NEW t, NEW C, NEW n, FirstIndex(i, t, C, n),
           NEW op, op = Index(i, t, C) \/ op = UniqueIndex(i, t, C)
    PROVE  Placed(op, "up", 0, n)
<1>1. op.do = "create_index" /\ op.name = i /\ op.table = t /\ op.columns = C
  BY DEF Index, UniqueIndex
<1>2. Quiet(n)
  BY DEF FirstIndex
<1> USE <1>1, <1>2, QuietMovesNothing DEF FirstIndex
<1>3. FormPlaced(op, "up", 0, n)
  BY DEF FormPlaced, Regular, MakesTable, OnTable, AltersTable, VersionKey
<1>4. TablePlaced(op, "up", 0, n)
  BY DEF TablePlaced, ReadyTable, MovesTables, OnTable, AltersTable, Creates, Drops
<1>5. ColumnPlaced(op, "up", 0, n)
  BY DEF ColumnPlaced, ReadyColumn, MovesColumns
<1>6. KeyPlaced(op, "up", 0, n)
  BY DEF KeyPlaced, ReadyOther, MovesKeys
<1>7. IndexPlaced(op, "up", 0, n)
  <2>1. \A j, u, D : NamedIndex(j, u, D) /\ ~Unsure(j, "up", 0, n + 1) /\ j = i => HasIndex(j, "up", 0, n + 1)
    BY DEF NamedIndex, HasIndex, Unsure, OldGone, Stands, Early, VersionKey, Quiet
  <2>2. MovesIndexes(op, "up", 0, n)
    BY <2>1 DEF MovesIndexes, RemovesIndex
  <2>3. MovesEnums(op, "up", 0, n)
    BY DEF MovesEnums
  <2> QED BY <2>2, <2>3 DEF IndexPlaced
<1> QED BY <1>3, <1>4, <1>5, <1>6, <1>7 DEF Placed

\* So are its triggers.
LEMMA FirstTriggerPlaced ==
    ASSUME NEW t, NEW f, NEW n, FirstTrigger(t, f, n), NEW op, op = Trigger(t, f)
    PROVE  Placed(op, "up", 0, n)
<1>1. op.do = "create_trigger" /\ op.table = t /\ op.name = f
  BY DEF Trigger
<1>2. Quiet(n) /\ HasFunction(f, "up", 0, n)
  BY DEF FirstTrigger, Quiet, HasFunction, Stands
<1> USE <1>1, <1>2, QuietMovesNothing DEF FirstTrigger
<1>3. FormPlaced(op, "up", 0, n)
  BY DEF FormPlaced, Regular, MakesTable, OnTable, AltersTable
<1>4. TablePlaced(op, "up", 0, n)
  BY DEF TablePlaced, ReadyTable, MovesTables, OnTable, AltersTable, Creates, Drops
<1>5. ColumnPlaced(op, "up", 0, n)
  BY DEF ColumnPlaced, ReadyColumn, MovesColumns
<1>6. KeyPlaced(op, "up", 0, n)
  BY DEF KeyPlaced, ReadyOther, MovesKeys
<1>7. IndexPlaced(op, "up", 0, n)
  BY DEF IndexPlaced, MovesIndexes, RemovesIndex, MovesEnums
<1> QED BY <1>3, <1>4, <1>5, <1>6, <1>7 DEF Placed

\* The statements of the initial downgrade, one by one.
LEMMA InitialDowngradeIs ==
    /\ Sequence(InitialDowngrade) /\ Len(InitialDowngrade) = 32
    /\ InitialDowngrade[1] = DropConstraint("policies_current_version_fk", "policies")
    /\ InitialDowngrade[2] = DropTable("audit_logs")
    /\ InitialDowngrade[3] = DropTable("finding_clause_links")
    /\ InitialDowngrade[4] = DropTable("findings")
    /\ InitialDowngrade[5] = DropTable("clause_regulatory_mappings")
    /\ InitialDowngrade[6] = DropTable("regulatory_clauses")
    /\ InitialDowngrade[7] = DropTable("regulatory_frameworks")
    /\ InitialDowngrade[8] = DropTable("obligations")
    /\ InitialDowngrade[9] = DropTable("clauses")
    /\ InitialDowngrade[10] = DropTable("policy_versions")
    /\ InitialDowngrade[11] = DropTable("policies")
    /\ InitialDowngrade[12] = DropTable("users")
    /\ InitialDowngrade[13] = DropTable("departments")
    /\ InitialDowngrade[14] = DropTable("companies")
    /\ InitialDowngrade[15] = DropFunction("prevent_mutation")
    /\ InitialDowngrade[16] = DropFunction("set_updated_at")
    /\ \A i \in 1..16 : InitialDowngrade[16 + i] = DropEnum(AllEnums[17 - i].name)
<1> DEFINE A == <<DropConstraint("policies_current_version_fk", "policies")>>
           names == <<"audit_logs", "finding_clause_links", "findings",
                      "clause_regulatory_mappings", "regulatory_clauses", "regulatory_frameworks",
                      "obligations", "clauses", "policy_versions", "policies", "users",
                      "departments", "companies">>
           B == [i \in 1..13 |-> DropTable(names[i])]
           C == <<DropFunction("prevent_mutation"), DropFunction("set_updated_at")>>
           D == [i \in 1..16 |-> DropEnum(Reverse(AllEnums)[i].name)]
           P == A \o B
           Q == P \o C
           R == Q \o D
<1>1. R = InitialDowngrade
  BY AllEnumsLength DEF InitialDowngrade
<1>2. Joins(A, B, P) /\ Joins(P, C, Q) /\ Joins(Q, D, R)
  BY DEF Joins
<1>3. Sequence(A) /\ Len(A) = 1 /\ A[1] = DropConstraint("policies_current_version_fk", "policies")
  <2>1. A \in Seq({A[1]})
    OBVIOUS
  <2> QED BY <2>1 DEF Sequence
<1>4. Sequence(B) /\ Len(B) = 13 /\ \A i \in 1..13 : B[i] = DropTable(names[i])
  <2>1. B \in Seq({DropTable(names[i]) : i \in 1..13})
    OBVIOUS
  <2>2. Len(B) = 13 /\ \A i \in 1..13 : B[i] = DropTable(names[i])
    OBVIOUS
  <2> HIDE DEF B
  <2> QED BY <2>1, <2>2 DEF Sequence
<1>5. Sequence(C) /\ Len(C) = 2 /\ C[1] = DropFunction("prevent_mutation") /\ C[2] = DropFunction("set_updated_at")
  <2>1. C \in Seq({C[1], C[2]})
    OBVIOUS
  <2> QED BY <2>1 DEF Sequence
<1>6. Sequence(D) /\ Len(D) = 16 /\ \A i \in 1..16 : D[i] = DropEnum(AllEnums[17 - i].name)
  <2>1. D \in Seq({DropEnum(Reverse(AllEnums)[i].name) : i \in 1..16})
    OBVIOUS
  <2>2. \A i \in 1..16 : Reverse(AllEnums)[i] = AllEnums[17 - i]
    BY AllEnumsLength DEF Reverse
  <2>3. Len(D) = 16 /\ \A i \in 1..16 : D[i] = DropEnum(AllEnums[17 - i].name)
    BY <2>2
  <2> HIDE DEF D
  <2> QED BY <2>1, <2>3 DEF Sequence
<1>7. /\ names[1] = "audit_logs"
      /\ names[2] = "finding_clause_links"
      /\ names[3] = "findings"
      /\ names[4] = "clause_regulatory_mappings"
      /\ names[5] = "regulatory_clauses"
      /\ names[6] = "regulatory_frameworks"
      /\ names[7] = "obligations"
      /\ names[8] = "clauses"
      /\ names[9] = "policy_versions"
      /\ names[10] = "policies"
      /\ names[11] = "users"
      /\ names[12] = "departments"
      /\ names[13] = "companies"
  OBVIOUS
<1> HIDE DEF A, B, C, D, P, Q, R, names
<1>9. Sequence(P) /\ Extends(A, B, P)
  BY <1>2, <1>3, <1>4, JoinedAt
<1>10. Sequence(Q) /\ Extends(P, C, Q)
  BY <1>2, <1>5, <1>9, JoinedAt
<1>11. Sequence(R) /\ Extends(Q, D, R)
  BY <1>2, <1>6, <1>10, JoinedAt
<1>12. Len(P) = 14 /\ P[1] = A[1] /\ \A i \in 1..13 : P[1 + i] = B[i]
  BY <1>3, <1>4, <1>9 DEF Extends
<1>13. Len(Q) = 16 /\ (\A i \in 1..14 : Q[i] = P[i]) /\ Q[15] = C[1] /\ Q[16] = C[2]
  <2>1. Len(Q) = 16 /\ (\A i \in 1..14 : Q[i] = P[i]) /\ \A i \in 1..2 : Q[14 + i] = C[i]
    BY <1>5, <1>10, <1>12 DEF Extends
  <2>2. Q[14 + 1] = C[1] /\ Q[14 + 2] = C[2]
    BY <2>1
  <2> QED BY <2>1, <2>2
<1>14. Len(R) = 32 /\ (\A i \in 1..16 : R[i] = Q[i]) /\ \A i \in 1..16 : R[16 + i] = D[i]
  BY <1>6, <1>11, <1>13 DEF Extends
<1>15. R[1] = DropConstraint("policies_current_version_fk", "policies")
  BY <1>3, <1>12, <1>13, <1>14
<1>16. \A i \in 1..13 : R[1 + i] = DropTable(names[i])
  BY <1>4, <1>12, <1>13, <1>14
<1>17. R[15] = DropFunction("prevent_mutation") /\ R[16] = DropFunction("set_updated_at")
  BY <1>5, <1>13, <1>14
<1>18. \A i \in 1..16 : R[16 + i] = DropEnum(AllEnums[17 - i].name)
  BY <1>6, <1>14
<1>19. /\ R[2] = DropTable("audit_logs")
       /\ R[3] = DropTable("finding_clause_links")
       /\ R[4] = DropTable("findings")
       /\ R[5] = DropTable("clause_regulatory_mappings")
       /\ R[6] = DropTable("regulatory_clauses")
       /\ R[7] = DropTable("regulatory_frameworks")
       /\ R[8] = DropTable("obligations")
       /\ R[9] = DropTable("clauses")
       /\ R[10] = DropTable("policy_versions")
       /\ R[11] = DropTable("policies")
       /\ R[12] = DropTable("users")
       /\ R[13] = DropTable("departments")
       /\ R[14] = DropTable("companies")
  <2>1. R[1 + 1] = DropTable("audit_logs")
    BY <1>16, <1>7
  <2>2. R[1 + 2] = DropTable("finding_clause_links")
    BY <1>16, <1>7
  <2>3. R[1 + 3] = DropTable("findings")
    BY <1>16, <1>7
  <2>4. R[1 + 4] = DropTable("clause_regulatory_mappings")
    BY <1>16, <1>7
  <2>5. R[1 + 5] = DropTable("regulatory_clauses")
    BY <1>16, <1>7
  <2>6. R[1 + 6] = DropTable("regulatory_frameworks")
    BY <1>16, <1>7
  <2>7. R[1 + 7] = DropTable("obligations")
    BY <1>16, <1>7
  <2>8. R[1 + 8] = DropTable("clauses")
    BY <1>16, <1>7
  <2>9. R[1 + 9] = DropTable("policy_versions")
    BY <1>16, <1>7
  <2>10. R[1 + 10] = DropTable("policies")
    BY <1>16, <1>7
  <2>11. R[1 + 11] = DropTable("users")
    BY <1>16, <1>7
  <2>12. R[1 + 12] = DropTable("departments")
    BY <1>16, <1>7
  <2>13. R[1 + 13] = DropTable("companies")
    BY <1>16, <1>7
  <2> QED BY <2>1, <2>2, <2>3, <2>4, <2>5, <2>6, <2>7, <2>8, <2>9, <2>10, <2>11, <2>12, <2>13
<1> QED BY <1>1, <1>11, <1>14, <1>15, <1>17, <1>18, <1>19

-----------------------------------------------------------------------------
(* Every statement in its place. The definitions that say what each place  *)
(* holds are expanded from here on.                                        *)

USE DEF Stands, Regular, OnTable, AltersTable, ReadyTable, ReadyColumn, ReadyOther, MovesTables,
        MakesTable, MovesColumns, MovesKeys, MovesIndexes, MovesEnums, Creates, Drops, OnColumn,
        RemovesIndex, IsNew, OldGone, HasTable, LateColumn, Loose, HasCheck, HasKey, VersionKey,
        NamedIndex, HasIndex, Unsure, Early, DocumentType, HasEnum, HasRuleBased, HasFunction,
        Column, IsMade, DroppedIndexes, AddNullable, AddColumn, UpdatedAtTrigger, Trigger,
        SetNullable, Index, UniqueIndex, DropIndex, ForeignKey, Check, DropConstraint,
        CreateFunction, DropFunction, CreateEnum, AddLabel, DropEnum, DropTable, DropColumn,
        Backfill

\* The names of the enum types of the initial upgrade, and their labels.
LEMMA EnumsAre ==
    /\ AllEnums[1].name = "user_role"
    /\ AllEnums[2].name = "policy_status"
    /\ AllEnums[3].name = "policy_version_status"
    /\ AllEnums[4].name = "clause_type"
    /\ AllEnums[5].name = "extraction_method"
    /\ AllEnums[6].name = "obligation_deadline_type"
    /\ AllEnums[7].name = "obligation_priority"
    /\ AllEnums[8].name = "obligation_status"
    /\ AllEnums[9].name = "mapping_type"
    /\ AllEnums[10].name = "finding_type"
    /\ AllEnums[11].name = "finding_severity"
    /\ AllEnums[12].name = "finding_status"
    /\ AllEnums[13].name = "detection_method"
    /\ AllEnums[14].name = "finding_clause_role"
    /\ AllEnums[15].name = "audit_action"
    /\ AllEnums[16].name = "auditable_entity_type"
BY ONLY DEF AllEnums

\* All sixteen are created.
LEMMA EnumsAreCreated == \A k \in 1..16 : AllEnums[k].do = "create_enum"
BY ONLY DEF AllEnums

\* Each with the labels of its name.
LEMMA EnumsHaveTheirLabels == \A k \in 1..16 : \A l : Label(AllEnums[k].name, l) => l \in AllEnums[k].labels
<1>1. ASSUME NEW k \in 1..16 PROVE \A l : Label(AllEnums[k].name, l) => l \in AllEnums[k].labels
  BY ONLY k \in 1..16 DEF Label, AllEnums
<1> QED BY ONLY <1>1

\* A statement that creates an enum type at the start of the initial upgrade.
LEMMA EnumCreated ==
    ASSUME NEW op, op.do = "create_enum", NEW n \in 1..16,
           \A e : HasEnum(e, "up", 0, n + 1) => HasEnum(e, "up", 0, n) \/ e = op.name,
           \A l : Label(op.name, l) => l \in op.labels
    PROVE  Placed(op, "up", 0, n)
<1>1. FormPlaced(op, "up", 0, n)
  BY DEF FormPlaced
<1>2. TablePlaced(op, "up", 0, n)
  BY DEF TablePlaced
<1>3. ColumnPlaced(op, "up", 0, n)
  BY DEF ColumnPlaced
<1>4. KeyPlaced(op, "up", 0, n)
  BY DEF KeyPlaced
<1>5. MovesIndexes(op, "up", 0, n)
  OBVIOUS
<1>6. MovesEnums(op, "up", 0, n)
  OBVIOUS
<1> QED BY ONLY <1>1, <1>2, <1>3, <1>4, <1>5, <1>6 DEF Placed, IndexPlaced

\* Hence all of them, at their places.
LEMMA AllEnumsPlaced == \A k \in 1..16 : Placed(AllEnums[k], "up", 0, k)
<1>1. ASSUME NEW k \in 1..16, NEW e, HasEnum(e, "up", 0, k + 1)
      PROVE  HasEnum(e, "up", 0, k) \/ e = AllEnums[k].name
  <2>1. k + 1 \in 2..17 /\ k \in 1..16
    OBVIOUS
  <2>2. \E j \in 1..16 : e = AllEnums[j].name /\ j < k + 1
    BY ONLY <1>1, <2>1, EnumsAre
  <2>3. ASSUME NEW j \in 1..16, e = AllEnums[j].name, j < k PROVE HasEnum(e, "up", 0, k)
    BY ONLY <2>1, <2>3, EnumsAre
  <2>4. \A j \in 1..16 : j < k + 1 => j < k \/ j = k
    BY ONLY <2>1
  <2> QED BY ONLY <2>2, <2>3, <2>4
<1> QED BY ONLY <1>1, EnumsAreCreated, EnumsHaveTheirLabels, EnumCreated

\* A statement that drops an enum type at the end of the initial downgrade.
LEMMA EnumDropped ==
    ASSUME NEW op, op.do = "drop_enum", NEW n \in 17..32,
           \A e : HasEnum(e, "down", 1, n + 1) => HasEnum(e, "down", 1, n) /\ e # op.name
    PROVE  Placed(op, "down", 1, n)
<1>1. FormPlaced(op, "down", 1, n)
  BY DEF FormPlaced
<1>2. TablePlaced(op, "down", 1, n)
  BY DEF TablePlaced
<1>3. ColumnPlaced(op, "down", 1, n)
  BY DEF ColumnPlaced
<1>4. KeyPlaced(op, "down", 1, n)
  BY DEF KeyPlaced
<1>5. MovesIndexes(op, "down", 1, n)
  OBVIOUS
<1>6. MovesEnums(op, "down", 1, n)
  OBVIOUS
<1> QED BY ONLY <1>1, <1>2, <1>3, <1>4, <1>5, <1>6 DEF Placed, IndexPlaced

\* Hence all of them, at their places.
LEMMA LastEnumsPlaced ==
    \A i \in 1..16 : Placed(DropEnum(AllEnums[17 - i].name), "down", 1, 16 + i)
<1>1. ASSUME NEW i \in 1..16 PROVE Placed(DropEnum(AllEnums[17 - i].name), "down", 1, 16 + i)
  <2> DEFINE op == DropEnum(AllEnums[17 - i].name)
  <2>1. op.do = "drop_enum" /\ op.name = AllEnums[17 - i].name
    OBVIOUS
  <2> HIDE DEF op
  <2>2. 16 + i \in 17..32 /\ 17 - i \in 1..16
    OBVIOUS
  <2>3. ASSUME NEW e, HasEnum(e, "down", 1, 16 + i + 1)
        PROVE  HasEnum(e, "down", 1, 16 + i) /\ e # op.name
    <3>1. PICK j \in 1..16 : e = AllEnums[j].name /\ 16 + i + 1 <= 33 - j
      BY ONLY <2>2, <2>3, EnumsAre
    <3>2. HasEnum(e, "down", 1, 16 + i)
      BY ONLY <2>2, <3>1, EnumsAre
    <3>3. j < 17 - i
      BY ONLY <2>2, <3>1
    <3>4. e # AllEnums[17 - i].name
      BY ONLY <2>2, <3>1, <3>3, EnumsAre
    <3> QED BY ONLY <2>1, <3>2, <3>4
  <2>4. Placed(op, "down", 1, 16 + i)
    BY ONLY <2>1, <2>2, <2>3, EnumDropped
  <2> QED BY ONLY <2>4 DEF op
<1> QED BY ONLY <1>1

\* The statements of Functions are in their places.
LEMMA FunctionsPlaced == \A k \in 1..2 : Placed(Functions[k], "up", 0, 16 + k)
<1>1. Placed(Functions[1], "up", 0, 17)
  <2> DEFINE op == Functions[1]
  <2>0. op = CreateFunction("set_updated_at")
    BY ONLY DEF Functions
  <2> HIDE DEF op
  <2>1. FormPlaced(op, "up", 0, 17)
    BY <2>0 DEF FormPlaced
  <2>2. TablePlaced(op, "up", 0, 17)
    BY <2>0 DEF TablePlaced
  <2>3. ColumnPlaced(op, "up", 0, 17)
    BY <2>0 DEF ColumnPlaced
  <2>4. KeyPlaced(op, "up", 0, 17)
    BY <2>0 DEF KeyPlaced
  <2>5. IndexPlaced(op, "up", 0, 17)
    BY <2>0 DEF IndexPlaced
  <2> QED BY ONLY <2>1, <2>2, <2>3, <2>4, <2>5 DEF Placed, op
<1>2. Placed(Functions[2], "up", 0, 18)
  <2> DEFINE op == Functions[2]
  <2>0. op = CreateFunction("prevent_mutation")
    BY ONLY DEF Functions
  <2> HIDE DEF op
  <2>1. FormPlaced(op, "up", 0, 18)
    BY <2>0 DEF FormPlaced
  <2>2. TablePlaced(op, "up", 0, 18)
    BY <2>0 DEF TablePlaced
  <2>3. ColumnPlaced(op, "up", 0, 18)
    BY <2>0 DEF ColumnPlaced
  <2>4. KeyPlaced(op, "up", 0, 18)
    BY <2>0 DEF KeyPlaced
  <2>5. IndexPlaced(op, "up", 0, 18)
    BY <2>0 DEF IndexPlaced
  <2> QED BY ONLY <2>1, <2>2, <2>3, <2>4, <2>5 DEF Placed, op
<1> QED BY ONLY <1>1, <1>2

\* The statements of CreateCompanies are in their places.
LEMMA CreateCompaniesPlaced == \A k \in 1..4 : Placed(CreateCompanies[k], "up", 0, 18 + k)
<1>1. Placed(CreateCompanies[1], "up", 0, 19)
  <2> DEFINE op == CreateCompanies[1]
  <2>0. Makes(op, "companies",
               {"id", "created_at", "updated_at", "deleted_at", "name", "is_active", "industry",
                "jurisdiction", "registration_number"},
               {"deleted_at", "industry", "jurisdiction", "registration_number"},
               {"id", "created_at", "updated_at", "is_active"},
               NoTypes,
               {})
    BY ONLY CompaniesAre
  <2> HIDE DEF op
  <2>1. FormPlaced(op, "up", 0, 19)
    BY <2>0, AllTablesAre, MadeCompanies, CompaniesAre DEF FormPlaced, Makes, Has, Refers, Others, Blank, NoTypes
  <2>2. TablePlaced(op, "up", 0, 19)
    BY <2>0 DEF TablePlaced, Makes, Has, NoTypes
  <2>3. ColumnPlaced(op, "up", 0, 19)
    BY <2>0 DEF ColumnPlaced, Makes
  <2>4. KeyPlaced(op, "up", 0, 19)
    BY <2>0 DEF KeyPlaced, Makes
  <2>5. IndexPlaced(op, "up", 0, 19)
    BY <2>0 DEF IndexPlaced, Makes
  <2> QED BY ONLY <2>1, <2>2, <2>3, <2>4, <2>5 DEF Placed, op
<1>2. Placed(CreateCompanies[2], "up", 0, 20)
  <2>1. CreateCompanies[2] = UniqueIndex("companies_registration_number_key", "companies",
                             {"registration_number"})
    BY ONLY DEF CreateCompanies
  <2>2. FirstIndex("companies_registration_number_key", "companies", {"registration_number"}, 20)
    BY CompaniesAre, MadeCompanies, AllTablesAre DEF FirstIndex, Quiet, Makes, Has
  <2> QED BY ONLY <2>1, <2>2, FirstIndexPlaced
<1>3. Placed(CreateCompanies[3], "up", 0, 21)
  <2>1. CreateCompanies[3] = Index("companies_active_idx", "companies", {"is_active"})
    BY ONLY DEF CreateCompanies
  <2>2. FirstIndex("companies_active_idx", "companies", {"is_active"}, 21)
    BY CompaniesAre, MadeCompanies, AllTablesAre DEF FirstIndex, Quiet, Makes, Has
  <2> QED BY ONLY <2>1, <2>2, FirstIndexPlaced
<1>4. Placed(CreateCompanies[4], "up", 0, 22)
  <2>1. CreateCompanies[4] = Trigger("companies", "set_updated_at")
    BY ONLY DEF CreateCompanies, UpdatedAtTrigger
  <2>2. FirstTrigger("companies", "set_updated_at", 22)
    BY AllTablesAre DEF FirstTrigger, Quiet
  <2> QED BY ONLY <2>1, <2>2, FirstTriggerPlaced
<1> QED BY ONLY <1>1, <1>2, <1>3, <1>4

\* The statements of CreateDepartments are in their places.
LEMMA CreateDepartmentsPlaced == \A k \in 1..5 : Placed(CreateDepartments[k], "up", 0, 22 + k)
<1>1. Placed(CreateDepartments[1], "up", 0, 23)
  <2> DEFINE op == CreateDepartments[1]
  <2>0. Makes(op, "departments",
               {"id", "created_at", "updated_at", "deleted_at", "company_id", "name",
                "parent_department_id", "code", "description"},
               {"deleted_at", "parent_department_id", "code", "description"},
               {"id", "created_at", "updated_at"},
               NoTypes,
               {<<"company_id", "companies">>, <<"parent_department_id", "departments">>})
    BY ONLY DepartmentsAre
  <2> HIDE DEF op
  <2>1. FormPlaced(op, "up", 0, 23)
    BY <2>0, AllTablesAre, MadeDepartments, DepartmentsAre DEF FormPlaced, Makes, Has, Refers, Others, Blank, NoTypes
  <2>2. TablePlaced(op, "up", 0, 23)
    BY <2>0 DEF TablePlaced, Makes, Has, NoTypes
  <2>3. ColumnPlaced(op, "up", 0, 23)
    BY <2>0 DEF ColumnPlaced, Makes
  <2>4. KeyPlaced(op, "up", 0, 23)
    BY <2>0 DEF KeyPlaced, Makes
  <2>5. IndexPlaced(op, "up", 0, 23)
    BY <2>0 DEF IndexPlaced, Makes
  <2> QED BY ONLY <2>1, <2>2, <2>3, <2>4, <2>5 DEF Placed, op
<1>2. Placed(CreateDepartments[2], "up", 0, 24)
  <2>1. CreateDepartments[2] = Index("departments_company_id_idx", "departments", {"company_id"})
    BY ONLY DEF CreateDepartments
  <2>2. FirstIndex("departments_company_id_idx", "departments", {"company_id"}, 24)
    BY DepartmentsAre, MadeDepartments, AllTablesAre DEF FirstIndex, Quiet, Makes, Has
  <2> QED BY ONLY <2>1, <2>2, FirstIndexPlaced
<1>3. Placed(CreateDepartments[3], "up", 0, 25)
  <2>1. CreateDepartments[3] = Index("departments_parent_id_idx", "departments",
                               {"parent_department_id"})
    BY ONLY DEF CreateDepartments
  <2>2. FirstIndex("departments_parent_id_idx", "departments", {"parent_department_id"}, 25)
    BY DepartmentsAre, MadeDepartments, AllTablesAre DEF FirstIndex, Quiet, Makes, Has
  <2> QED BY ONLY <2>1, <2>2, FirstIndexPlaced
<1>4. Placed(CreateDepartments[4], "up", 0, 26)
  <2>1. CreateDepartments[4] = UniqueIndex("departments_company_code_key", "departments",
                               {"company_id", "code"})
    BY ONLY DEF CreateDepartments
  <2>2. FirstIndex("departments_company_code_key", "departments", {"company_id", "code"}, 26)
    BY DepartmentsAre, MadeDepartments, AllTablesAre DEF FirstIndex, Quiet, Makes, Has
  <2> QED BY ONLY <2>1, <2>2, FirstIndexPlaced
<1>5. Placed(CreateDepartments[5], "up", 0, 27)
  <2>1. CreateDepartments[5] = Trigger("departments", "set_updated_at")
    BY ONLY DEF CreateDepartments, UpdatedAtTrigger
  <2>2. FirstTrigger("departments", "set_updated_at", 27)
    BY AllTablesAre DEF FirstTrigger, Quiet
  <2> QED BY ONLY <2>1, <2>2, FirstTriggerPlaced
<1> QED BY ONLY <1>1, <1>2, <1>3, <1>4, <1>5

\* The statements of CreateUsers are in their places.
LEMMA CreateUsersPlaced == \A k \in 1..6 : Placed(CreateUsers[k], "up", 0, 27 + k)
<1>1. Placed(CreateUsers[1], "up", 0, 28)
  <2> DEFINE op == CreateUsers[1]
  <2>0. Makes(op, "users",
               {"id", "created_at", "updated_at", "deleted_at", "company_id", "email",
                "password_hash", "full_name", "role", "is_active", "department_id",
                "last_login_at"},
               {"deleted_at", "department_id", "last_login_at"},
               {"id", "created_at", "updated_at", "role", "is_active"},
               [role |-> "user_role"],
               {<<"company_id", "companies">>, <<"department_id", "departments">>})
    BY ONLY UsersAre
  <2> HIDE DEF op
  <2>1. FormPlaced(op, "up", 0, 28)
    BY <2>0, AllTablesAre, MadeUsers, UsersAre DEF FormPlaced, Makes, Has, Refers, Others, Blank
  <2>2. TablePlaced(op, "up", 0, 28)
    BY <2>0 DEF TablePlaced, Makes, Has
  <2>3. ColumnPlaced(op, "up", 0, 28)
    BY <2>0 DEF ColumnPlaced, Makes
  <2>4. KeyPlaced(op, "up", 0, 28)
    BY <2>0 DEF KeyPlaced, Makes
  <2>5. IndexPlaced(op, "up", 0, 28)
    BY <2>0 DEF IndexPlaced, Makes
  <2> QED BY ONLY <2>1, <2>2, <2>3, <2>4, <2>5 DEF Placed, op
<1>2. Placed(CreateUsers[2], "up", 0, 29)
  <2>1. CreateUsers[2] = UniqueIndex("users_email_key", "users", {"email"})
    BY ONLY DEF CreateUsers
  <2>2. FirstIndex("users_email_key", "users", {"email"}, 29)
    BY UsersAre, MadeUsers, AllTablesAre DEF FirstIndex, Quiet, Makes, Has
  <2> QED BY ONLY <2>1, <2>2, FirstIndexPlaced
<1>3. Placed(CreateUsers[3], "up", 0, 30)
  <2>1. CreateUsers[3] = Index("users_company_id_idx", "users", {"company_id"})
    BY ONLY DEF CreateUsers
  <2>2. FirstIndex("users_company_id_idx", "users", {"company_id"}, 30)
    BY UsersAre, MadeUsers, AllTablesAre DEF FirstIndex, Quiet, Makes, Has
  <2> QED BY ONLY <2>1, <2>2, FirstIndexPlaced
<1>4. Placed(CreateUsers[4], "up", 0, 31)
  <2>1. CreateUsers[4] = Index("users_department_id_idx", "users", {"department_id"})
    BY ONLY DEF CreateUsers
  <2>2. FirstIndex("users_department_id_idx", "users", {"department_id"}, 31)
    BY UsersAre, MadeUsers, AllTablesAre DEF FirstIndex, Quiet, Makes, Has
  <2> QED BY ONLY <2>1, <2>2, FirstIndexPlaced
<1>5. Placed(CreateUsers[5], "up", 0, 32)
  <2>1. CreateUsers[5] = Index("users_role_idx", "users", {"role"})
    BY ONLY DEF CreateUsers
  <2>2. FirstIndex("users_role_idx", "users", {"role"}, 32)
    BY UsersAre, MadeUsers, AllTablesAre DEF FirstIndex, Quiet, Makes, Has
  <2> QED BY ONLY <2>1, <2>2, FirstIndexPlaced
<1>6. Placed(CreateUsers[6], "up", 0, 33)
  <2>1. CreateUsers[6] = Trigger("users", "set_updated_at")
    BY ONLY DEF CreateUsers, UpdatedAtTrigger
  <2>2. FirstTrigger("users", "set_updated_at", 33)
    BY AllTablesAre DEF FirstTrigger, Quiet
  <2> QED BY ONLY <2>1, <2>2, FirstTriggerPlaced
<1> QED BY ONLY <1>1, <1>2, <1>3, <1>4, <1>5, <1>6

\* The statements of CreatePolicies are in their places.
LEMMA CreatePoliciesPlaced == \A k \in 1..6 : Placed(CreatePolicies[k], "up", 0, 33 + k)
<1>1. Placed(CreatePolicies[1], "up", 0, 34)
  <2> DEFINE op == CreatePolicies[1]
  <2>0. Makes(op, "policies",
               {"id", "created_at", "updated_at", "deleted_at", "company_id",
                "owning_department_id", "title", "status", "policy_code", "category",
                "current_version_id"},
               {"deleted_at", "policy_code", "category", "current_version_id"},
               {"id", "created_at", "updated_at", "status"},
               [status |-> "policy_status"],
               {<<"company_id", "companies">>, <<"owning_department_id", "departments">>})
    BY ONLY PoliciesAre
  <2> HIDE DEF op
  <2>1. FormPlaced(op, "up", 0, 34)
    BY <2>0, AllTablesAre, MadePolicies, PoliciesAre DEF FormPlaced, Makes, Has, Refers, Others, Blank
  <2>2. TablePlaced(op, "up", 0, 34)
    BY <2>0 DEF TablePlaced, Makes, Has
  <2>3. ColumnPlaced(op, "up", 0, 34)
    BY <2>0 DEF ColumnPlaced, Makes
  <2>4. KeyPlaced(op, "up", 0, 34)
    BY <2>0 DEF KeyPlaced, Makes
  <2>5. IndexPlaced(op, "up", 0, 34)
    BY <2>0 DEF IndexPlaced, Makes
  <2> QED BY ONLY <2>1, <2>2, <2>3, <2>4, <2>5 DEF Placed, op
<1>2. Placed(CreatePolicies[2], "up", 0, 35)
  <2>1. CreatePolicies[2] = Index("policies_company_id_idx", "policies", {"company_id"})
    BY ONLY DEF CreatePolicies
  <2>2. FirstIndex("policies_company_id_idx", "policies", {"company_id"}, 35)
    BY PoliciesAre, MadePolicies, AllTablesAre DEF FirstIndex, Quiet, Makes, Has
  <2> QED BY ONLY <2>1, <2>2, FirstIndexPlaced
<1>3. Placed(CreatePolicies[3], "up", 0, 36)
  <2>1. CreatePolicies[3] = Index("policies_department_id_idx", "policies",
                            {"owning_department_id"})
    BY ONLY DEF CreatePolicies
  <2>2. FirstIndex("policies_department_id_idx", "policies", {"owning_department_id"}, 36)
    BY PoliciesAre, MadePolicies, AllTablesAre DEF FirstIndex, Quiet, Makes, Has
  <2> QED BY ONLY <2>1, <2>2, FirstIndexPlaced
<1>4. Placed(CreatePolicies[4], "up", 0, 37)
  <2>1. CreatePolicies[4] = Index("policies_status_idx", "policies", {"status"})
    BY ONLY DEF CreatePolicies
  <2>2. FirstIndex("policies_status_idx", "policies", {"status"}, 37)
    BY PoliciesAre, MadePolicies, AllTablesAre DEF FirstIndex, Quiet, Makes, Has
  <2> QED BY ONLY <2>1, <2>2, FirstIndexPlaced
<1>5. Placed(CreatePolicies[5], "up", 0, 38)
  <2>1. CreatePolicies[5] = UniqueIndex("policies_company_code_key", "policies", {"company_id",
                            "policy_code"})
    BY ONLY DEF CreatePolicies
  <2>2. FirstIndex("policies_company_code_key", "policies", {"company_id", "policy_code"}, 38)
    BY PoliciesAre, MadePolicies, AllTablesAre DEF FirstIndex, Quiet, Makes, Has
  <2> QED BY ONLY <2>1, <2>2, FirstIndexPlaced
<1>6. Placed(CreatePolicies[6], "up", 0, 39)
  <2>1. CreatePolicies[6] = Trigger("policies", "set_updated_at")
    BY ONLY DEF CreatePolicies, UpdatedAtTrigger
  <2>2. FirstTrigger("policies", "set_updated_at", 39)
    BY AllTablesAre DEF FirstTrigger, Quiet
  <2> QED BY ONLY <2>1, <2>2, FirstTriggerPlaced
<1> QED BY ONLY <1>1, <1>2, <1>3, <1>4, <1>5, <1>6

\* The statements of CreatePolicyVersions are in their places.
LEMMA CreatePolicyVersionsPlaced == \A k \in 1..7 : Placed(CreatePolicyVersions[k], "up", 0, 39 + k)
<1>1. Placed(CreatePolicyVersions[1], "up", 0, 40)
  <2> DEFINE op == CreatePolicyVersions[1]
  <2>0. Makes(op, "policy_versions",
               {"id", "created_at", "updated_at", "deleted_at", "policy_id", "version_number",
                "source_file_reference", "file_hash", "uploaded_by_user_id", "status",
                "uploaded_at", "effective_date", "superseded_by_version_id", "ai_summary"},
               {"deleted_at", "effective_date", "superseded_by_version_id", "ai_summary"},
               {"id", "created_at", "updated_at", "status", "uploaded_at"},
               [status |-> "policy_version_status"],
               {<<"policy_id", "policies">>, <<"uploaded_by_user_id", "users">>,
               <<"superseded_by_version_id", "policy_versions">>})
    BY ONLY PolicyVersionsAre
  <2> HIDE DEF op
  <2>1. FormPlaced(op, "up", 0, 40)
    BY <2>0, AllTablesAre, MadePolicyVersions, PolicyVersionsAre DEF FormPlaced, Makes, Has, Refers, Others, Blank
  <2>2. TablePlaced(op, "up", 0, 40)
    BY <2>0 DEF TablePlaced, Makes, Has
  <2>3. ColumnPlaced(op, "up", 0, 40)
    BY <2>0 DEF ColumnPlaced, Makes
  <2>4. KeyPlaced(op, "up", 0, 40)
    BY <2>0 DEF KeyPlaced, Makes
  <2>5. IndexPlaced(op, "up", 0, 40)
    BY <2>0 DEF IndexPlaced, Makes
  <2> QED BY ONLY <2>1, <2>2, <2>3, <2>4, <2>5 DEF Placed, op
<1>2. Placed(CreatePolicyVersions[2], "up", 0, 41)
  <2>1. CreatePolicyVersions[2] = Index("policy_versions_policy_id_idx", "policy_versions",
                                  {"policy_id"})
    BY ONLY DEF CreatePolicyVersions
  <2>2. FirstIndex("policy_versions_policy_id_idx", "policy_versions", {"policy_id"}, 41)
    BY PolicyVersionsAre, MadePolicyVersions, AllTablesAre DEF FirstIndex, Quiet, Makes, Has
  <2> QED BY ONLY <2>1, <2>2, FirstIndexPlaced
<1>3. Placed(CreatePolicyVersions[3], "up", 0, 42)
  <2>1. CreatePolicyVersions[3] = Index("policy_versions_uploaded_by_idx", "policy_versions",
                                  {"uploaded_by_user_id"})
    BY ONLY DEF CreatePolicyVersions
  <2>2. FirstIndex("policy_versions_uploaded_by_idx", "policy_versions", {"uploaded_by_user_id"},
         42)
    BY PolicyVersionsAre, MadePolicyVersions, AllTablesAre DEF FirstIndex, Quiet, Makes, Has
  <2> QED BY ONLY <2>1, <2>2, FirstIndexPlaced
<1>4. Placed(CreatePolicyVersions[4], "up", 0, 43)
  <2>1. CreatePolicyVersions[4] = Index("policy_versions_status_idx", "policy_versions", {"status"})
    BY ONLY DEF CreatePolicyVersions
  <2>2. FirstIndex("policy_versions_status_idx", "policy_versions", {"status"}, 43)
    BY PolicyVersionsAre, MadePolicyVersions, AllTablesAre DEF FirstIndex, Quiet, Makes, Has
  <2> QED BY ONLY <2>1, <2>2, FirstIndexPlaced
<1>5. Placed(CreatePolicyVersions[5], "up", 0, 44)
  <2>1. CreatePolicyVersions[5] = Index("policy_versions_superseded_by_idx", "policy_versions",
                                  {"superseded_by_version_id"})
    BY ONLY DEF CreatePolicyVersions
  <2>2. FirstIndex("policy_versions_superseded_by_idx", "policy_versions",
         {"superseded_by_version_id"}, 44)
    BY PolicyVersionsAre, MadePolicyVersions, AllTablesAre DEF FirstIndex, Quiet, Makes, Has
  <2> QED BY ONLY <2>1, <2>2, FirstIndexPlaced
<1>6. Placed(CreatePolicyVersions[6], "up", 0, 45)
  <2>1. CreatePolicyVersions[6] = UniqueIndex("policy_versions_policy_version_key",
                                  "policy_versions", {"policy_id", "version_number"})
    BY ONLY DEF CreatePolicyVersions
  <2>2. FirstIndex("policy_versions_policy_version_key", "policy_versions", {"policy_id",
         "version_number"}, 45)
    BY PolicyVersionsAre, MadePolicyVersions, AllTablesAre DEF FirstIndex, Quiet, Makes, Has
  <2> QED BY ONLY <2>1, <2>2, FirstIndexPlaced
<1>7. Placed(CreatePolicyVersions[7], "up", 0, 46)
  <2>1. CreatePolicyVersions[7] = Trigger("policy_versions", "set_updated_at")
    BY ONLY DEF CreatePolicyVersions, UpdatedAtTrigger
  <2>2. FirstTrigger("policy_versions", "set_updated_at", 46)
    BY AllTablesAre DEF FirstTrigger, Quiet
  <2> QED BY ONLY <2>1, <2>2, FirstTriggerPlaced
<1> QED BY ONLY <1>1, <1>2, <1>3, <1>4, <1>5, <1>6, <1>7

\* The statements of CloseCurrentVersion are in their places.
LEMMA CloseCurrentVersionPlaced == \A k \in 1..2 : Placed(CloseCurrentVersion[k], "up", 0, 46 + k)
<1>1. Placed(CloseCurrentVersion[1], "up", 0, 47)
  <2> DEFINE op == CloseCurrentVersion[1]
  <2>0. op = ForeignKey("policies_current_version_fk", "policies", "current_version_id",
             "policy_versions")
    BY ONLY DEF CloseCurrentVersion
  <2> HIDE DEF op
  <2>1. FormPlaced(op, "up", 0, 47)
    BY <2>0, AllTablesAre DEF FormPlaced, Named
  <2>2. TablePlaced(op, "up", 0, 47)
    BY <2>0 DEF TablePlaced
  <2>3. ColumnPlaced(op, "up", 0, 47)
    BY <2>0, PoliciesAre, MadePolicies DEF ColumnPlaced, Makes, Has
  <2>4. KeyPlaced(op, "up", 0, 47)
    BY <2>0 DEF KeyPlaced
  <2>5. IndexPlaced(op, "up", 0, 47)
    BY <2>0 DEF IndexPlaced
  <2> QED BY ONLY <2>1, <2>2, <2>3, <2>4, <2>5 DEF Placed, op
<1>2. Placed(CloseCurrentVersion[2], "up", 0, 48)
  <2>1. CloseCurrentVersion[2] = Index("policies_current_version_id_idx", "policies",
                                 {"current_version_id"})
    BY ONLY DEF CloseCurrentVersion
  <2>2. FirstIndex("policies_current_version_id_idx", "policies", {"current_version_id"}, 48)
    BY PoliciesAre, MadePolicies, AllTablesAre DEF FirstIndex, Quiet, Makes, Has
  <2> QED BY ONLY <2>1, <2>2, FirstIndexPlaced
<1> QED BY ONLY <1>1, <1>2

\* The statements of CreateClauses are in their places.
LEMMA CreateClausesPlaced == \A k \in 1..5 : Placed(CreateClauses[k], "up", 0, 48 + k)
<1>1. Placed(CreateClauses[1], "up", 0, 49)
  <2> DEFINE op == CreateClauses[1]
  <2>0. Makes(op, "clauses",
               {"id", "created_at", "updated_at", "deleted_at", "policy_version_id",
                "clause_number", "text", "clause_type", "order_index", "extracted_by", "heading"},
               {"deleted_at", "heading"},
               {"id", "created_at", "updated_at", "order_index", "extracted_by"},
               [clause_type |-> "clause_type", extracted_by |-> "extraction_method"],
               {<<"policy_version_id", "policy_versions">>})
    BY ONLY ClausesAre
  <2> HIDE DEF op
  <2>1. FormPlaced(op, "up", 0, 49)
    BY <2>0, AllTablesAre, MadeClauses, ClausesAre DEF FormPlaced, Makes, Has, Refers, Others, Blank
  <2>2. TablePlaced(op, "up", 0, 49)
    BY <2>0 DEF TablePlaced, Makes, Has
  <2>3. ColumnPlaced(op, "up", 0, 49)
    BY <2>0 DEF ColumnPlaced, Makes
  <2>4. KeyPlaced(op, "up", 0, 49)
    BY <2>0 DEF KeyPlaced, Makes
  <2>5. IndexPlaced(op, "up", 0, 49)
    BY <2>0 DEF IndexPlaced, Makes
  <2> QED BY ONLY <2>1, <2>2, <2>3, <2>4, <2>5 DEF Placed, op
<1>2. Placed(CreateClauses[2], "up", 0, 50)
  <2>1. CreateClauses[2] = Index("clauses_policy_version_id_idx", "clauses", {"policy_version_id"})
    BY ONLY DEF CreateClauses
  <2>2. FirstIndex("clauses_policy_version_id_idx", "clauses", {"policy_version_id"}, 50)
    BY ClausesAre, MadeClauses, AllTablesAre DEF FirstIndex, Quiet, Makes, Has
  <2> QED BY ONLY <2>1, <2>2, FirstIndexPlaced
<1>3. Placed(CreateClauses[3], "up", 0, 51)
  <2>1. CreateClauses[3] = Index("clauses_clause_type_idx", "clauses", {"clause_type"})
    BY ONLY DEF CreateClauses
  <2>2. FirstIndex("clauses_clause_type_idx", "clauses", {"clause_type"}, 51)
    BY ClausesAre, MadeClauses, AllTablesAre DEF FirstIndex, Quiet, Makes, Has
  <2> QED BY ONLY <2>1, <2>2, FirstIndexPlaced
<1>4. Placed(CreateClauses[4], "up", 0, 52)
  <2> DEFINE op == CreateClauses[4]
  <2>0. op = UniqueIndex("clauses_version_number_key", "clauses", {"policy_version_id",
             "clause_number"})
    BY ONLY DEF CreateClauses
  <2> HIDE DEF op
  <2>1. FormPlaced(op, "up", 0, 52)
    BY <2>0, AllTablesAre DEF FormPlaced
  <2>2. TablePlaced(op, "up", 0, 52)
    BY <2>0 DEF TablePlaced
  <2>3. ColumnPlaced(op, "up", 0, 52)
    BY <2>0, ClausesAre, MadeClauses DEF ColumnPlaced, Makes, Has
  <2>4. KeyPlaced(op, "up", 0, 52)
    BY <2>0, AllTablesAre DEF KeyPlaced
  <2>5. IndexPlaced(op, "up", 0, 52)
    BY <2>0 DEF IndexPlaced
  <2> QED BY ONLY <2>1, <2>2, <2>3, <2>4, <2>5 DEF Placed, op
<1>5. Placed(CreateClauses[5], "up", 0, 53)
  <2>1. CreateClauses[5] = Trigger("clauses", "set_updated_at")
    BY ONLY DEF CreateClauses, UpdatedAtTrigger
  <2>2. FirstTrigger("clauses", "set_updated_at", 53)
    BY AllTablesAre DEF FirstTrigger, Quiet
  <2> QED BY ONLY <2>1, <2>2, FirstTriggerPlaced
<1> QED BY ONLY <1>1, <1>2, <1>3, <1>4, <1>5

\* The statements of CreateObligations are in their places.
LEMMA CreateObligationsPlaced == \A k \in 1..5 : Placed(CreateObligations[k], "up", 0, 53 + k)
<1>1. Placed(CreateObligations[1], "up", 0, 54)
  <2> DEFINE op == CreateObligations[1]
  <2>0. Makes(op, "obligations",
               {"id", "created_at", "updated_at", "deleted_at", "clause_id", "description",
                "action_required", "deadline_type", "priority", "status",
                "responsible_department_id", "deadline_expression"},
               {"deleted_at", "responsible_department_id", "deadline_expression"},
               {"id", "created_at", "updated_at", "priority", "status"},
               [deadline_type |-> "obligation_deadline_type", priority |-> "obligation_priority",
               status |-> "obligation_status"],
               {<<"clause_id", "clauses">>, <<"responsible_department_id", "departments">>})
    BY ONLY OldObligationsAre
  <2> HIDE DEF op
  <2>1. FormPlaced(op, "up", 0, 54)
    BY <2>0, AllTablesAre, MadeObligations, OldObligationsAre DEF FormPlaced, Makes, Has, Refers, Others, Blank
  <2>2. TablePlaced(op, "up", 0, 54)
    BY <2>0 DEF TablePlaced, Makes, Has
  <2>3. ColumnPlaced(op, "up", 0, 54)
    BY <2>0 DEF ColumnPlaced, Makes
  <2>4. KeyPlaced(op, "up", 0, 54)
    BY <2>0 DEF KeyPlaced, Makes
  <2>5. IndexPlaced(op, "up", 0, 54)
    BY <2>0 DEF IndexPlaced, Makes
  <2> QED BY ONLY <2>1, <2>2, <2>3, <2>4, <2>5 DEF Placed, op
<1>2. Placed(CreateObligations[2], "up", 0, 55)
  <2>1. CreateObligations[2] = Index("obligations_clause_id_idx", "obligations", {"clause_id"})
    BY ONLY DEF CreateObligations
  <2>2. FirstIndex("obligations_clause_id_idx", "obligations", {"clause_id"}, 55)
    BY OldObligationsAre, MadeObligations, AllTablesAre DEF FirstIndex, Quiet, Makes, Has
  <2> QED BY ONLY <2>1, <2>2, FirstIndexPlaced
<1>3. Placed(CreateObligations[3], "up", 0, 56)
  <2>1. CreateObligations[3] = Index("obligations_department_id_idx", "obligations",
                               {"responsible_department_id"})
    BY ONLY DEF CreateObligations
  <2>2. FirstIndex("obligations_department_id_idx", "obligations", {"responsible_department_id"},
         56)
    BY OldObligationsAre, MadeObligations, AllTablesAre DEF FirstIndex, Quiet, Makes, Has
  <2> QED BY ONLY <2>1, <2>2, FirstIndexPlaced
<1>4. Placed(CreateObligations[4], "up", 0, 57)
  <2>1. CreateObligations[4] = Index("obligations_status_idx", "obligations", {"status"})
    BY ONLY DEF CreateObligations
  <2>2. FirstIndex("obligations_status_idx", "obligations", {"status"}, 57)
    BY OldObligationsAre, MadeObligations, AllTablesAre DEF FirstIndex, Quiet, Makes, Has
  <2> QED BY ONLY <2>1, <2>2, FirstIndexPlaced
<1>5. Placed(CreateObligations[5], "up", 0, 58)
  <2>1. CreateObligations[5] = Trigger("obligations", "set_updated_at")
    BY ONLY DEF CreateObligations, UpdatedAtTrigger
  <2>2. FirstTrigger("obligations", "set_updated_at", 58)
    BY AllTablesAre DEF FirstTrigger, Quiet
  <2> QED BY ONLY <2>1, <2>2, FirstTriggerPlaced
<1> QED BY ONLY <1>1, <1>2, <1>3, <1>4, <1>5

\* The statements of CreateRegulatoryFrameworks are in their places.
LEMMA CreateRegulatoryFrameworksPlaced == \A k \in 1..3 : Placed(CreateRegulatoryFrameworks[k], "up", 0, 58 + k)
<1>1. Placed(CreateRegulatoryFrameworks[1], "up", 0, 59)
  <2> DEFINE op == CreateRegulatoryFrameworks[1]
  <2>0. Makes(op, "regulatory_frameworks",
               {"id", "created_at", "updated_at", "deleted_at", "name", "jurisdiction",
                "issuing_body", "edition_or_version", "effective_date", "description"},
               {"deleted_at", "jurisdiction", "issuing_body", "edition_or_version",
                "effective_date", "description"},
               {"id", "created_at", "updated_at"},
               NoTypes,
               {})
    BY ONLY RegulatoryFrameworksAre
  <2> HIDE DEF op
  <2>1. FormPlaced(op, "up", 0, 59)
    BY <2>0, AllTablesAre, MadeRegulatoryFrameworks, RegulatoryFrameworksAre DEF FormPlaced, Makes, Has, Refers, Others, Blank, NoTypes
  <2>2. TablePlaced(op, "up", 0, 59)
    BY <2>0 DEF TablePlaced, Makes, Has, NoTypes
  <2>3. ColumnPlaced(op, "up", 0, 59)
    BY <2>0 DEF ColumnPlaced, Makes
  <2>4. KeyPlaced(op, "up", 0, 59)
    BY <2>0 DEF KeyPlaced, Makes
  <2>5. IndexPlaced(op, "up", 0, 59)
    BY <2>0 DEF IndexPlaced, Makes
  <2> QED BY ONLY <2>1, <2>2, <2>3, <2>4, <2>5 DEF Placed, op
<1>2. Placed(CreateRegulatoryFrameworks[2], "up", 0, 60)
  <2>1. CreateRegulatoryFrameworks[2] = UniqueIndex("regulatory_frameworks_name_edition_key",
                                        "regulatory_frameworks", {"name", "edition_or_version"})
    BY ONLY DEF CreateRegulatoryFrameworks
  <2>2. FirstIndex("regulatory_frameworks_name_edition_key", "regulatory_frameworks", {"name",
         "edition_or_version"}, 60)
    BY RegulatoryFrameworksAre, MadeRegulatoryFrameworks, AllTablesAre DEF FirstIndex, Quiet, Makes, Has
  <2> QED BY ONLY <2>1, <2>2, FirstIndexPlaced
<1>3. Placed(CreateRegulatoryFrameworks[3], "up", 0, 61)
  <2>1. CreateRegulatoryFrameworks[3] = Trigger("regulatory_frameworks", "set_updated_at")
    BY ONLY DEF CreateRegulatoryFrameworks, UpdatedAtTrigger
  <2>2. FirstTrigger("regulatory_frameworks", "set_updated_at", 61)
    BY AllTablesAre DEF FirstTrigger, Quiet
  <2> QED BY ONLY <2>1, <2>2, FirstTriggerPlaced
<1> QED BY ONLY <1>1, <1>2, <1>3

\* The statements of CreateRegulatoryClauses are in their places.
LEMMA CreateRegulatoryClausesPlaced == \A k \in 1..4 : Placed(CreateRegulatoryClauses[k], "up", 0, 61 + k)
<1>1. Placed(CreateRegulatoryClauses[1], "up", 0, 62)
  <2> DEFINE op == CreateRegulatoryClauses[1]
  <2>0. Makes(op, "regulatory_clauses",
               {"id", "created_at", "updated_at", "deleted_at", "regulatory_framework_id",
                "clause_reference", "title", "text", "category"},
               {"deleted_at", "category"},
               {"id", "created_at", "updated_at"},
               NoTypes,
               {<<"regulatory_framework_id", "regulatory_frameworks">>})
    BY ONLY RegulatoryClausesAre
  <2> HIDE DEF op
  <2>1. FormPlaced(op, "up", 0, 62)
    BY <2>0, AllTablesAre, MadeRegulatoryClauses, RegulatoryClausesAre DEF FormPlaced, Makes, Has, Refers, Others, Blank, NoTypes
  <2>2. TablePlaced(op, "up", 0, 62)
    BY <2>0 DEF TablePlaced, Makes, Has, NoTypes
  <2>3. ColumnPlaced(op, "up", 0, 62)
    BY <2>0 DEF ColumnPlaced, Makes
  <2>4. KeyPlaced(op, "up", 0, 62)
    BY <2>0 DEF KeyPlaced, Makes
  <2>5. IndexPlaced(op, "up", 0, 62)
    BY <2>0 DEF IndexPlaced, Makes
  <2> QED BY ONLY <2>1, <2>2, <2>3, <2>4, <2>5 DEF Placed, op
<1>2. Placed(CreateRegulatoryClauses[2], "up", 0, 63)
  <2>1. CreateRegulatoryClauses[2] = Index("regulatory_clauses_framework_id_idx",
                                     "regulatory_clauses", {"regulatory_framework_id"})
    BY ONLY DEF CreateRegulatoryClauses
  <2>2. FirstIndex("regulatory_clauses_framework_id_idx", "regulatory_clauses",
         {"regulatory_framework_id"}, 63)
    BY RegulatoryClausesAre, MadeRegulatoryClauses, AllTablesAre DEF FirstIndex, Quiet, Makes, Has
  <2> QED BY ONLY <2>1, <2>2, FirstIndexPlaced
<1>3. Placed(CreateRegulatoryClauses[3], "up", 0, 64)
  <2>1. CreateRegulatoryClauses[3] = UniqueIndex("regulatory_clauses_framework_reference_key",
                                     "regulatory_clauses", {"regulatory_framework_id",
                                     "clause_reference"})
    BY ONLY DEF CreateRegulatoryClauses
  <2>2. FirstIndex("regulatory_clauses_framework_reference_key", "regulatory_clauses",
         {"regulatory_framework_id", "clause_reference"}, 64)
    BY RegulatoryClausesAre, MadeRegulatoryClauses, AllTablesAre DEF FirstIndex, Quiet, Makes, Has
  <2> QED BY ONLY <2>1, <2>2, FirstIndexPlaced
<1>4. Placed(CreateRegulatoryClauses[4], "up", 0, 65)
  <2>1. CreateRegulatoryClauses[4] = Trigger("regulatory_clauses", "set_updated_at")
    BY ONLY DEF CreateRegulatoryClauses, UpdatedAtTrigger
  <2>2. FirstTrigger("regulatory_clauses", "set_updated_at", 65)
    BY AllTablesAre DEF FirstTrigger, Quiet
  <2> QED BY ONLY <2>1, <2>2, FirstTriggerPlaced
<1> QED BY ONLY <1>1, <1>2, <1>3, <1>4

\* The statements of CreateClauseRegulatoryMappings are in their places.
LEMMA CreateClauseRegulatoryMappingsPlaced == \A k \in 1..6 : Placed(CreateClauseRegulatoryMappings[k], "up", 0, 65 + k)
<1>1. Placed(CreateClauseRegulatoryMappings[1], "up", 0, 66)
  <2> DEFINE op == CreateClauseRegulatoryMappings[1]
  <2>0. Makes(op, "clause_regulatory_mappings",
               {"id", "created_at", "updated_at", "deleted_at", "clause_id",
                "regulatory_clause_id", "mapping_type", "confidence_score",
                "verified_by_user_id", "verified_at"},
               {"deleted_at", "confidence_score", "verified_by_user_id", "verified_at"},
               {"id", "created_at", "updated_at"},
               [mapping_type |-> "mapping_type"],
               {<<"clause_id", "clauses">>, <<"regulatory_clause_id", "regulatory_clauses">>,
               <<"verified_by_user_id", "users">>})
    BY ONLY ClauseRegulatoryMappingsAre
  <2> HIDE DEF op
  <2>1. FormPlaced(op, "up", 0, 66)
    BY <2>0, AllTablesAre, MadeClauseRegulatoryMappings, ClauseRegulatoryMappingsAre DEF FormPlaced, Makes, Has, Refers, Others, Blank
  <2>2. TablePlaced(op, "up", 0, 66)
    BY <2>0 DEF TablePlaced, Makes, Has
  <2>3. ColumnPlaced(op, "up", 0, 66)
    BY <2>0 DEF ColumnPlaced, Makes
  <2>4. KeyPlaced(op, "up", 0, 66)
    BY <2>0 DEF KeyPlaced, Makes
  <2>5. IndexPlaced(op, "up", 0, 66)
    BY <2>0 DEF IndexPlaced, Makes
  <2> QED BY ONLY <2>1, <2>2, <2>3, <2>4, <2>5 DEF Placed, op
<1>2. Placed(CreateClauseRegulatoryMappings[2], "up", 0, 67)
  <2>1. CreateClauseRegulatoryMappings[2] = Index("crm_clause_id_idx", "clause_regulatory_mappings",
                                            {"clause_id"})
    BY ONLY DEF CreateClauseRegulatoryMappings
  <2>2. FirstIndex("crm_clause_id_idx", "clause_regulatory_mappings", {"clause_id"}, 67)
    BY ClauseRegulatoryMappingsAre, MadeClauseRegulatoryMappings, AllTablesAre DEF FirstIndex, Quiet, Makes, Has
  <2> QED BY ONLY <2>1, <2>2, FirstIndexPlaced
<1>3. Placed(CreateClauseRegulatoryMappings[3], "up", 0, 68)
  <2>1. CreateClauseRegulatoryMappings[3] = Index("crm_regulatory_clause_id_idx",
                                            "clause_regulatory_mappings", {"regulatory_clause_id"})
    BY ONLY DEF CreateClauseRegulatoryMappings
  <2>2. FirstIndex("crm_regulatory_clause_id_idx", "clause_regulatory_mappings",
         {"regulatory_clause_id"}, 68)
    BY ClauseRegulatoryMappingsAre, MadeClauseRegulatoryMappings, AllTablesAre DEF FirstIndex, Quiet, Makes, Has
  <2> QED BY ONLY <2>1, <2>2, FirstIndexPlaced
<1>4. Placed(CreateClauseRegulatoryMappings[4], "up", 0, 69)
  <2>1. CreateClauseRegulatoryMappings[4] = Index("crm_verified_by_idx",
                                            "clause_regulatory_mappings", {"verified_by_user_id"})
    BY ONLY DEF CreateClauseRegulatoryMappings
  <2>2. FirstIndex("crm_verified_by_idx", "clause_regulatory_mappings", {"verified_by_user_id"},
         69)
    BY ClauseRegulatoryMappingsAre, MadeClauseRegulatoryMappings, AllTablesAre DEF FirstIndex, Quiet, Makes, Has
  <2> QED BY ONLY <2>1, <2>2, FirstIndexPlaced
<1>5. Placed(CreateClauseRegulatoryMappings[5], "up", 0, 70)
  <2>1. CreateClauseRegulatoryMappings[5] = UniqueIndex("crm_clause_regulatory_clause_key",
                                            "clause_regulatory_mappings", {"clause_id",
                                            "regulatory_clause_id"})
    BY ONLY DEF CreateClauseRegulatoryMappings
  <2>2. FirstIndex("crm_clause_regulatory_clause_key", "clause_regulatory_mappings", {"clause_id",
         "regulatory_clause_id"}, 70)
    BY ClauseRegulatoryMappingsAre, MadeClauseRegulatoryMappings, AllTablesAre DEF FirstIndex, Quiet, Makes, Has
  <2> QED BY ONLY <2>1, <2>2, FirstIndexPlaced
<1>6. Placed(CreateClauseRegulatoryMappings[6], "up", 0, 71)
  <2>1. CreateClauseRegulatoryMappings[6] = Trigger("clause_regulatory_mappings", "set_updated_at")
    BY ONLY DEF CreateClauseRegulatoryMappings, UpdatedAtTrigger
  <2>2. FirstTrigger("clause_regulatory_mappings", "set_updated_at", 71)
    BY AllTablesAre DEF FirstTrigger, Quiet
  <2> QED BY ONLY <2>1, <2>2, FirstTriggerPlaced
<1> QED BY ONLY <1>1, <1>2, <1>3, <1>4, <1>5, <1>6

\* The statements of CreateFindings are in their places.
LEMMA CreateFindingsPlaced == \A k \in 1..8 : Placed(CreateFindings[k], "up", 0, 71 + k)
<1>1. Placed(CreateFindings[1], "up", 0, 72)
  <2> DEFINE op == CreateFindings[1]
  <2>0. Makes(op, "findings",
               {"id", "created_at", "updated_at", "deleted_at", "company_id", "finding_type",
                "severity", "title", "description", "detection_method", "status", "detected_at",
                "proof_reference", "confidence_score", "regulatory_clause_id",
                "resolved_by_user_id", "resolved_at", "resolution_notes"},
               {"deleted_at", "proof_reference", "confidence_score", "regulatory_clause_id",
                "resolved_by_user_id", "resolved_at", "resolution_notes"},
               {"id", "created_at", "updated_at", "status", "detected_at"},
               [finding_type |-> "finding_type", severity |-> "finding_severity", status |->
               "finding_status", detection_method |-> "detection_method"],
               {<<"company_id", "companies">>, <<"regulatory_clause_id", "regulatory_clauses">>,
               <<"resolved_by_user_id", "users">>})
    BY ONLY FindingsAre
  <2> HIDE DEF op
  <2>1. FormPlaced(op, "up", 0, 72)
    BY <2>0, AllTablesAre, MadeFindings, FindingsAre DEF FormPlaced, Makes, Has, Refers, Others, Blank
  <2>2. TablePlaced(op, "up", 0, 72)
    BY <2>0 DEF TablePlaced, Makes, Has
  <2>3. ColumnPlaced(op, "up", 0, 72)
    BY <2>0 DEF ColumnPlaced, Makes
  <2>4. KeyPlaced(op, "up", 0, 72)
    BY <2>0 DEF KeyPlaced, Makes
  <2>5. IndexPlaced(op, "up", 0, 72)
    BY <2>0 DEF IndexPlaced, Makes
  <2> QED BY ONLY <2>1, <2>2, <2>3, <2>4, <2>5 DEF Placed, op
<1>2. Placed(CreateFindings[2], "up", 0, 73)
  <2>1. CreateFindings[2] = Index("findings_company_id_idx", "findings", {"company_id"})
    BY ONLY DEF CreateFindings
  <2>2. FirstIndex("findings_company_id_idx", "findings", {"company_id"}, 73)
    BY FindingsAre, MadeFindings, AllTablesAre DEF FirstIndex, Quiet, Makes, Has
  <2> QED BY ONLY <2>1, <2>2, FirstIndexPlaced
<1>3. Placed(CreateFindings[3], "up", 0, 74)
  <2>1. CreateFindings[3] = Index("findings_status_idx", "findings", {"status"})
    BY ONLY DEF CreateFindings
  <2>2. FirstIndex("findings_status_idx", "findings", {"status"}, 74)
    BY FindingsAre, MadeFindings, AllTablesAre DEF FirstIndex, Quiet, Makes, Has
  <2> QED BY ONLY <2>1, <2>2, FirstIndexPlaced
<1>4. Placed(CreateFindings[4], "up", 0, 75)
  <2>1. CreateFindings[4] = Index("findings_type_idx", "findings", {"finding_type"})
    BY ONLY DEF CreateFindings
  <2>2. FirstIndex("findings_type_idx", "findings", {"finding_type"}, 75)
    BY FindingsAre, MadeFindings, AllTablesAre DEF FirstIndex, Quiet, Makes, Has
  <2> QED BY ONLY <2>1, <2>2, FirstIndexPlaced
<1>5. Placed(CreateFindings[5], "up", 0, 76)
  <2>1. CreateFindings[5] = Index("findings_severity_idx", "findings", {"severity"})
    BY ONLY DEF CreateFindings
  <2>2. FirstIndex("findings_severity_idx", "findings", {"severity"}, 76)
    BY FindingsAre, MadeFindings, AllTablesAre DEF FirstIndex, Quiet, Makes, Has
  <2> QED BY ONLY <2>1, <2>2, FirstIndexPlaced
<1>6. Placed(CreateFindings[6], "up", 0, 77)
  <2>1. CreateFindings[6] = Index("findings_regulatory_clause_id_idx", "findings",
                            {"regulatory_clause_id"})
    BY ONLY DEF CreateFindings
  <2>2. FirstIndex("findings_regulatory_clause_id_idx", "findings", {"regulatory_clause_id"}, 77)
    BY FindingsAre, MadeFindings, AllTablesAre DEF FirstIndex, Quiet, Makes, Has
  <2> QED BY ONLY <2>1, <2>2, FirstIndexPlaced
<1>7. Placed(CreateFindings[7], "up", 0, 78)
  <2>1. CreateFindings[7] = Index("findings_resolved_by_idx", "findings", {"resolved_by_user_id"})
    BY ONLY DEF CreateFindings
  <2>2. FirstIndex("findings_resolved_by_idx", "findings", {"resolved_by_user_id"}, 78)
    BY FindingsAre, MadeFindings, AllTablesAre DEF FirstIndex, Quiet, Makes, Has
  <2> QED BY ONLY <2>1, <2>2, FirstIndexPlaced
<1>8. Placed(CreateFindings[8], "up", 0, 79)
  <2>1. CreateFindings[8] = Trigger("findings", "set_updated_at")
    BY ONLY DEF CreateFindings, UpdatedAtTrigger
  <2>2. FirstTrigger("findings", "set_updated_at", 79)
    BY AllTablesAre DEF FirstTrigger, Quiet
  <2> QED BY ONLY <2>1, <2>2, FirstTriggerPlaced
<1> QED BY ONLY <1>1, <1>2, <1>3, <1>4, <1>5, <1>6, <1>7, <1>8

\* The statements of CreateFindingClauseLinks are in their places.
LEMMA CreateFindingClauseLinksPlaced == \A k \in 1..5 : Placed(CreateFindingClauseLinks[k], "up", 0, 79 + k)
<1>1. Placed(CreateFindingClauseLinks[1], "up", 0, 80)
  <2> DEFINE op == CreateFindingClauseLinks[1]
  <2>0. Makes(op, "finding_clause_links",
               {"id", "created_at", "updated_at", "deleted_at", "finding_id", "clause_id",
                "role_in_finding"},
               {"deleted_at", "role_in_finding"},
               {"id", "created_at", "updated_at"},
               [role_in_finding |-> "finding_clause_role"],
               {<<"finding_id", "findings">>, <<"clause_id", "clauses">>})
    BY ONLY FindingClauseLinksAre
  <2> HIDE DEF op
  <2>1. FormPlaced(op, "up", 0, 80)
    BY <2>0, AllTablesAre, MadeFindingClauseLinks, FindingClauseLinksAre DEF FormPlaced, Makes, Has, Refers, Others, Blank
  <2>2. TablePlaced(op, "up", 0, 80)
    BY <2>0 DEF TablePlaced, Makes, Has
  <2>3. ColumnPlaced(op, "up", 0, 80)
    BY <2>0 DEF ColumnPlaced, Makes
  <2>4. KeyPlaced(op, "up", 0, 80)
    BY <2>0 DEF KeyPlaced, Makes
  <2>5. IndexPlaced(op, "up", 0, 80)
    BY <2>0 DEF IndexPlaced, Makes
  <2> QED BY ONLY <2>1, <2>2, <2>3, <2>4, <2>5 DEF Placed, op
<1>2. Placed(CreateFindingClauseLinks[2], "up", 0, 81)
  <2>1. CreateFindingClauseLinks[2] = Index("fcl_finding_id_idx", "finding_clause_links",
                                      {"finding_id"})
    BY ONLY DEF CreateFindingClauseLinks
  <2>2. FirstIndex("fcl_finding_id_idx", "finding_clause_links", {"finding_id"}, 81)
    BY FindingClauseLinksAre, MadeFindingClauseLinks, AllTablesAre DEF FirstIndex, Quiet, Makes, Has
  <2> QED BY ONLY <2>1, <2>2, FirstIndexPlaced
<1>3. Placed(CreateFindingClauseLinks[3], "up", 0, 82)
  <2>1. CreateFindingClauseLinks[3] = Index("fcl_clause_id_idx", "finding_clause_links",
                                      {"clause_id"})
    BY ONLY DEF CreateFindingClauseLinks
  <2>2. FirstIndex("fcl_clause_id_idx", "finding_clause_links", {"clause_id"}, 82)
    BY FindingClauseLinksAre, MadeFindingClauseLinks, AllTablesAre DEF FirstIndex, Quiet, Makes, Has
  <2> QED BY ONLY <2>1, <2>2, FirstIndexPlaced
<1>4. Placed(CreateFindingClauseLinks[4], "up", 0, 83)
  <2>1. CreateFindingClauseLinks[4] = UniqueIndex("fcl_finding_clause_key", "finding_clause_links",
                                      {"finding_id", "clause_id"})
    BY ONLY DEF CreateFindingClauseLinks
  <2>2. FirstIndex("fcl_finding_clause_key", "finding_clause_links", {"finding_id", "clause_id"},
         83)
    BY FindingClauseLinksAre, MadeFindingClauseLinks, AllTablesAre DEF FirstIndex, Quiet, Makes, Has
  <2> QED BY ONLY <2>1, <2>2, FirstIndexPlaced
<1>5. Placed(CreateFindingClauseLinks[5], "up", 0, 84)
  <2>1. CreateFindingClauseLinks[5] = Trigger("finding_clause_links", "set_updated_at")
    BY ONLY DEF CreateFindingClauseLinks, UpdatedAtTrigger
  <2>2. FirstTrigger("finding_clause_links", "set_updated_at", 84)
    BY AllTablesAre DEF FirstTrigger, Quiet
  <2> QED BY ONLY <2>1, <2>2, FirstTriggerPlaced
<1> QED BY ONLY <1>1, <1>2, <1>3, <1>4, <1>5

\* The statements of CreateAuditLogs are in their places.
LEMMA CreateAuditLogsPlaced == \A k \in 1..6 : Placed(CreateAuditLogs[k], "up", 0, 84 + k)
<1>1. Placed(CreateAuditLogs[1], "up", 0, 85)
  <2> DEFINE op == CreateAuditLogs[1]
  <2>0. Makes(op, "audit_logs",
               {"id", "company_id", "action", "entity_type", "entity_id", "occurred_at",
                "actor_user_id", "before_state", "after_state", "ip_address"},
               {"actor_user_id", "before_state", "after_state", "ip_address"},
               {"id", "occurred_at"},
               [action |-> "audit_action", entity_type |-> "auditable_entity_type"],
               {<<"company_id", "companies">>, <<"actor_user_id", "users">>})
    BY ONLY AuditLogsAre
  <2> HIDE DEF op
  <2>1. FormPlaced(op, "up", 0, 85)
    BY <2>0, AllTablesAre, MadeAuditLogs, AuditLogsAre DEF FormPlaced, Makes, Has, Refers, Others, Blank
  <2>2. TablePlaced(op, "up", 0, 85)
    BY <2>0 DEF TablePlaced, Makes, Has
  <2>3. ColumnPlaced(op, "up", 0, 85)
    BY <2>0 DEF ColumnPlaced, Makes
  <2>4. KeyPlaced(op, "up", 0, 85)
    BY <2>0 DEF KeyPlaced, Makes
  <2>5. IndexPlaced(op, "up", 0, 85)
    BY <2>0 DEF IndexPlaced, Makes
  <2> QED BY ONLY <2>1, <2>2, <2>3, <2>4, <2>5 DEF Placed, op
<1>2. Placed(CreateAuditLogs[2], "up", 0, 86)
  <2>1. CreateAuditLogs[2] = Index("audit_logs_company_id_idx", "audit_logs", {"company_id"})
    BY ONLY DEF CreateAuditLogs
  <2>2. FirstIndex("audit_logs_company_id_idx", "audit_logs", {"company_id"}, 86)
    BY AuditLogsAre, MadeAuditLogs, AllTablesAre DEF FirstIndex, Quiet, Makes, Has
  <2> QED BY ONLY <2>1, <2>2, FirstIndexPlaced
<1>3. Placed(CreateAuditLogs[3], "up", 0, 87)
  <2>1. CreateAuditLogs[3] = Index("audit_logs_actor_id_idx", "audit_logs", {"actor_user_id"})
    BY ONLY DEF CreateAuditLogs
  <2>2. FirstIndex("audit_logs_actor_id_idx", "audit_logs", {"actor_user_id"}, 87)
    BY AuditLogsAre, MadeAuditLogs, AllTablesAre DEF FirstIndex, Quiet, Makes, Has
  <2> QED BY ONLY <2>1, <2>2, FirstIndexPlaced
<1>4. Placed(CreateAuditLogs[4], "up", 0, 88)
  <2>1. CreateAuditLogs[4] = Index("audit_logs_entity_idx", "audit_logs", {"entity_type",
                             "entity_id"})
    BY ONLY DEF CreateAuditLogs
  <2>2. FirstIndex("audit_logs_entity_idx", "audit_logs", {"entity_type", "entity_id"}, 88)
    BY AuditLogsAre, MadeAuditLogs, AllTablesAre DEF FirstIndex, Quiet, Makes, Has
  <2> QED BY ONLY <2>1, <2>2, FirstIndexPlaced
<1>5. Placed(CreateAuditLogs[5], "up", 0, 89)
  <2>1. CreateAuditLogs[5] = Index("audit_logs_occurred_at_idx", "audit_logs", {"occurred_at"})
    BY ONLY DEF CreateAuditLogs
  <2>2. FirstIndex("audit_logs_occurred_at_idx", "audit_logs", {"occurred_at"}, 89)
    BY AuditLogsAre, MadeAuditLogs, AllTablesAre DEF FirstIndex, Quiet, Makes, Has
  <2> QED BY ONLY <2>1, <2>2, FirstIndexPlaced
<1>6. Placed(CreateAuditLogs[6], "up", 0, 90)
  <2>1. CreateAuditLogs[6] = Trigger("audit_logs", "prevent_mutation")
    BY ONLY DEF CreateAuditLogs
  <2>2. FirstTrigger("audit_logs", "prevent_mutation", 90)
    BY AllTablesAre DEF FirstTrigger, Quiet
  <2> QED BY ONLY <2>1, <2>2, FirstTriggerPlaced
<1> QED BY ONLY <1>1, <1>2, <1>3, <1>4, <1>5, <1>6

\* The statements of AddUploadMetadata are in their places.
LEMMA AddUploadMetadataPlaced == \A k \in 1..7 : Placed(AddUploadMetadata[k], "up", 1, k)
<1>1. Placed(AddUploadMetadata[1], "up", 1, 1)
  <2> DEFINE op == AddUploadMetadata[1]
  <2>0. op = CreateEnum("policy_document_file_type", {"txt", "md", "pdf", "docx"})
    BY ONLY DEF AddUploadMetadata
  <2> HIDE DEF op
  <2>1. FormPlaced(op, "up", 1, 1)
    BY <2>0 DEF FormPlaced
  <2>2. TablePlaced(op, "up", 1, 1)
    BY <2>0 DEF TablePlaced
  <2>3. ColumnPlaced(op, "up", 1, 1)
    BY <2>0 DEF ColumnPlaced
  <2>4. KeyPlaced(op, "up", 1, 1)
    BY <2>0 DEF KeyPlaced
  <2>5. IndexPlaced(op, "up", 1, 1)
    BY <2>0 DEF IndexPlaced, Label
  <2> QED BY ONLY <2>1, <2>2, <2>3, <2>4, <2>5 DEF Placed, op
<1>2. Placed(AddUploadMetadata[2], "up", 1, 2)
  <2> DEFINE op == AddUploadMetadata[2]
  <2>0. op = AddColumn("policy_versions", "original_filename", FALSE, "plain")
    BY ONLY DEF AddUploadMetadata
  <2> HIDE DEF op
  <2>1. FormPlaced(op, "up", 1, 2)
    BY <2>0, AllTablesAre DEF FormPlaced, Blank
  <2>2. TablePlaced(op, "up", 1, 2)
    BY <2>0 DEF TablePlaced
  <2>3. ColumnPlaced(op, "up", 1, 2)
    BY <2>0, PolicyVersionsAre, MadePolicyVersions DEF ColumnPlaced, Makes, Has
  <2>4. KeyPlaced(op, "up", 1, 2)
    BY <2>0 DEF KeyPlaced
  <2>5. IndexPlaced(op, "up", 1, 2)
    BY <2>0 DEF IndexPlaced
  <2> QED BY ONLY <2>1, <2>2, <2>3, <2>4, <2>5 DEF Placed, op
<1>3. Placed(AddUploadMetadata[3], "up", 1, 3)
  <2> DEFINE op == AddUploadMetadata[3]
  <2>0. op = AddColumn("policy_versions", "size_bytes", FALSE, "plain")
    BY ONLY DEF AddUploadMetadata
  <2> HIDE DEF op
  <2>1. FormPlaced(op, "up", 1, 3)
    BY <2>0, AllTablesAre DEF FormPlaced, Blank
  <2>2. TablePlaced(op, "up", 1, 3)
    BY <2>0 DEF TablePlaced
  <2>3. ColumnPlaced(op, "up", 1, 3)
    BY <2>0, PolicyVersionsAre, MadePolicyVersions DEF ColumnPlaced, Makes, Has
  <2>4. KeyPlaced(op, "up", 1, 3)
    BY <2>0 DEF KeyPlaced
  <2>5. IndexPlaced(op, "up", 1, 3)
    BY <2>0 DEF IndexPlaced
  <2> QED BY ONLY <2>1, <2>2, <2>3, <2>4, <2>5 DEF Placed, op
<1>4. Placed(AddUploadMetadata[4], "up", 1, 4)
  <2> DEFINE op == AddUploadMetadata[4]
  <2>0. op = AddColumn("policy_versions", "file_type", FALSE, "policy_document_file_type")
    BY ONLY DEF AddUploadMetadata
  <2> HIDE DEF op
  <2>1. FormPlaced(op, "up", 1, 4)
    BY <2>0, AllTablesAre DEF FormPlaced, Blank
  <2>2. TablePlaced(op, "up", 1, 4)
    BY <2>0 DEF TablePlaced
  <2>3. ColumnPlaced(op, "up", 1, 4)
    BY <2>0, PolicyVersionsAre, MadePolicyVersions DEF ColumnPlaced, Makes, Has
  <2>4. KeyPlaced(op, "up", 1, 4)
    BY <2>0 DEF KeyPlaced
  <2>5. IndexPlaced(op, "up", 1, 4)
    BY <2>0 DEF IndexPlaced
  <2> QED BY ONLY <2>1, <2>2, <2>3, <2>4, <2>5 DEF Placed, op
<1>5. Placed(AddUploadMetadata[5], "up", 1, 5)
  <2> DEFINE op == AddUploadMetadata[5]
  <2>0. op = AddNullable("policy_versions", "description")
    BY ONLY DEF AddUploadMetadata
  <2> HIDE DEF op
  <2>1. FormPlaced(op, "up", 1, 5)
    BY <2>0, AllTablesAre DEF FormPlaced, Blank
  <2>2. TablePlaced(op, "up", 1, 5)
    BY <2>0 DEF TablePlaced
  <2>3. ColumnPlaced(op, "up", 1, 5)
    BY <2>0, PolicyVersionsAre, MadePolicyVersions DEF ColumnPlaced, Makes, Has
  <2>4. KeyPlaced(op, "up", 1, 5)
    BY <2>0 DEF KeyPlaced
  <2>5. IndexPlaced(op, "up", 1, 5)
    BY <2>0 DEF IndexPlaced
  <2> QED BY ONLY <2>1, <2>2, <2>3, <2>4, <2>5 DEF Placed, op
<1>6. Placed(AddUploadMetadata[6], "up", 1, 6)
  <2> DEFINE op == AddUploadMetadata[6]
  <2>0. op = Check("policy_versions_size_bytes_positive", "policy_versions")
    BY ONLY DEF AddUploadMetadata
  <2> HIDE DEF op
  <2>1. FormPlaced(op, "up", 1, 6)
    BY <2>0, AllTablesAre DEF FormPlaced
  <2>2. TablePlaced(op, "up", 1, 6)
    BY <2>0 DEF TablePlaced
  <2>3. ColumnPlaced(op, "up", 1, 6)
    BY <2>0 DEF ColumnPlaced
  <2>4. KeyPlaced(op, "up", 1, 6)
    BY <2>0 DEF KeyPlaced
  <2>5. IndexPlaced(op, "up", 1, 6)
    BY <2>0 DEF IndexPlaced
  <2> QED BY ONLY <2>1, <2>2, <2>3, <2>4, <2>5 DEF Placed, op
<1>7. Placed(AddUploadMetadata[7], "up", 1, 7)
  <2> DEFINE op == AddUploadMetadata[7]
  <2>0. op = SetNullable("policies", "owning_department_id", TRUE)
    BY ONLY DEF AddUploadMetadata
  <2> HIDE DEF op
  <2>1. FormPlaced(op, "up", 1, 7)
    BY <2>0, AllTablesAre DEF FormPlaced, Blank
  <2>2. TablePlaced(op, "up", 1, 7)
    BY <2>0 DEF TablePlaced
  <2>3. ColumnPlaced(op, "up", 1, 7)
    BY <2>0, PoliciesAre, MadePolicies DEF ColumnPlaced, Makes, Has
  <2>4. KeyPlaced(op, "up", 1, 7)
    BY <2>0 DEF KeyPlaced
  <2>5. IndexPlaced(op, "up", 1, 7)
    BY <2>0 DEF IndexPlaced
  <2> QED BY ONLY <2>1, <2>2, <2>3, <2>4, <2>5 DEF Placed, op
<1> QED BY ONLY <1>1, <1>2, <1>3, <1>4, <1>5, <1>6, <1>7

\* The statements of AddClauseHierarchy are in their places.
LEMMA AddClauseHierarchyPlaced == \A k \in 1..12 : Placed(AddClauseHierarchy[k], "up", 2, k)
<1>1. Placed(AddClauseHierarchy[1], "up", 2, 1)
  <2> DEFINE op == AddClauseHierarchy[1]
  <2>0. op = AddLabel("extraction_method", "rule_based")
    BY ONLY DEF AddClauseHierarchy
  <2> HIDE DEF op
  <2>1. FormPlaced(op, "up", 2, 1)
    BY <2>0 DEF FormPlaced
  <2>2. TablePlaced(op, "up", 2, 1)
    BY <2>0 DEF TablePlaced
  <2>3. ColumnPlaced(op, "up", 2, 1)
    BY <2>0 DEF ColumnPlaced
  <2>4. KeyPlaced(op, "up", 2, 1)
    BY <2>0 DEF KeyPlaced
  <2>5. IndexPlaced(op, "up", 2, 1)
    BY <2>0 DEF IndexPlaced
  <2> QED BY ONLY <2>1, <2>2, <2>3, <2>4, <2>5 DEF Placed, op
<1>2. Placed(AddClauseHierarchy[2], "up", 2, 2)
  <2> DEFINE op == AddClauseHierarchy[2]
  <2>0. op = AddNullable("clauses", "policy_id")
    BY ONLY DEF AddClauseHierarchy
  <2> HIDE DEF op
  <2>1. FormPlaced(op, "up", 2, 2)
    BY <2>0, AllTablesAre DEF FormPlaced, Blank
  <2>2. TablePlaced(op, "up", 2, 2)
    BY <2>0 DEF TablePlaced
  <2>3. ColumnPlaced(op, "up", 2, 2)
    BY <2>0, ClausesAre, MadeClauses DEF ColumnPlaced, Makes, Has
  <2>4. KeyPlaced(op, "up", 2, 2)
    BY <2>0 DEF KeyPlaced
  <2>5. IndexPlaced(op, "up", 2, 2)
    BY <2>0 DEF IndexPlaced
  <2> QED BY ONLY <2>1, <2>2, <2>3, <2>4, <2>5 DEF Placed, op
<1>3. Placed(AddClauseHierarchy[3], "up", 2, 3)
  <2> DEFINE op == AddClauseHierarchy[3]
  <2>0. op = Backfill("clauses", "policy_id")
    BY ONLY DEF AddClauseHierarchy
  <2> HIDE DEF op
  <2>1. FormPlaced(op, "up", 2, 3)
    BY <2>0, AllTablesAre DEF FormPlaced
  <2>2. TablePlaced(op, "up", 2, 3)
    BY <2>0 DEF TablePlaced
  <2>3. ColumnPlaced(op, "up", 2, 3)
    BY <2>0, ClausesAre, MadeClauses DEF ColumnPlaced, Makes, Has
  <2>4. KeyPlaced(op, "up", 2, 3)
    BY <2>0 DEF KeyPlaced
  <2>5. IndexPlaced(op, "up", 2, 3)
    BY <2>0 DEF IndexPlaced
  <2> QED BY ONLY <2>1, <2>2, <2>3, <2>4, <2>5 DEF Placed, op
<1>4. Placed(AddClauseHierarchy[4], "up", 2, 4)
  <2> DEFINE op == AddClauseHierarchy[4]
  <2>0. op = SetNullable("clauses", "policy_id", FALSE)
    BY ONLY DEF AddClauseHierarchy
  <2> HIDE DEF op
  <2>1. FormPlaced(op, "up", 2, 4)
    BY <2>0, AllTablesAre DEF FormPlaced, Blank
  <2>2. TablePlaced(op, "up", 2, 4)
    BY <2>0 DEF TablePlaced
  <2>3. ColumnPlaced(op, "up", 2, 4)
    BY <2>0, ClausesAre, MadeClauses DEF ColumnPlaced, Makes, Has
  <2>4. KeyPlaced(op, "up", 2, 4)
    BY <2>0 DEF KeyPlaced
  <2>5. IndexPlaced(op, "up", 2, 4)
    BY <2>0 DEF IndexPlaced
  <2> QED BY ONLY <2>1, <2>2, <2>3, <2>4, <2>5 DEF Placed, op
<1>5. Placed(AddClauseHierarchy[5], "up", 2, 5)
  <2> DEFINE op == AddClauseHierarchy[5]
  <2>0. op = ForeignKey("clauses_policy_id_fkey", "clauses", "policy_id", "policies")
    BY ONLY DEF AddClauseHierarchy
  <2> HIDE DEF op
  <2>1. FormPlaced(op, "up", 2, 5)
    BY <2>0, AllTablesAre DEF FormPlaced, Named
  <2>2. TablePlaced(op, "up", 2, 5)
    BY <2>0 DEF TablePlaced
  <2>3. ColumnPlaced(op, "up", 2, 5)
    BY <2>0, ClausesAre, MadeClauses DEF ColumnPlaced, Makes, Has
  <2>4. KeyPlaced(op, "up", 2, 5)
    BY <2>0 DEF KeyPlaced
  <2>5. IndexPlaced(op, "up", 2, 5)
    BY <2>0 DEF IndexPlaced
  <2> QED BY ONLY <2>1, <2>2, <2>3, <2>4, <2>5 DEF Placed, op
<1>6. Placed(AddClauseHierarchy[6], "up", 2, 6)
  <2> DEFINE op == AddClauseHierarchy[6]
  <2>0. op = Index("clauses_policy_id_idx", "clauses", {"policy_id"})
    BY ONLY DEF AddClauseHierarchy
  <2> HIDE DEF op
  <2>1. FormPlaced(op, "up", 2, 6)
    BY <2>0, AllTablesAre DEF FormPlaced
  <2>2. TablePlaced(op, "up", 2, 6)
    BY <2>0 DEF TablePlaced
  <2>3. ColumnPlaced(op, "up", 2, 6)
    BY <2>0, ClausesAre, MadeClauses DEF ColumnPlaced, Makes, Has
  <2>4. KeyPlaced(op, "up", 2, 6)
    BY <2>0, AllTablesAre DEF KeyPlaced
  <2>5. IndexPlaced(op, "up", 2, 6)
    BY <2>0 DEF IndexPlaced
  <2> QED BY ONLY <2>1, <2>2, <2>3, <2>4, <2>5 DEF Placed, op
<1>7. Placed(AddClauseHierarchy[7], "up", 2, 7)
  <2> DEFINE op == AddClauseHierarchy[7]
  <2>0. op = AddNullable("clauses", "parent_clause_id")
    BY ONLY DEF AddClauseHierarchy
  <2> HIDE DEF op
  <2>1. FormPlaced(op, "up", 2, 7)
    BY <2>0, AllTablesAre DEF FormPlaced, Blank
  <2>2. TablePlaced(op, "up", 2, 7)
    BY <2>0 DEF TablePlaced
  <2>3. ColumnPlaced(op, "up", 2, 7)
    BY <2>0, ClausesAre, MadeClauses DEF ColumnPlaced, Makes, Has
  <2>4. KeyPlaced(op, "up", 2, 7)
    BY <2>0 DEF KeyPlaced
  <2>5. IndexPlaced(op, "up", 2, 7)
    BY <2>0 DEF IndexPlaced
  <2> QED BY ONLY <2>1, <2>2, <2>3, <2>4, <2>5 DEF Placed, op
<1>8. Placed(AddClauseHierarchy[8], "up", 2, 8)
  <2> DEFINE op == AddClauseHierarchy[8]
  <2>0. op = ForeignKey("clauses_parent_clause_id_fkey", "clauses", "parent_clause_id", "clauses")
    BY ONLY DEF AddClauseHierarchy
  <2> HIDE DEF op
  <2>1. FormPlaced(op, "up", 2, 8)
    BY <2>0, AllTablesAre DEF FormPlaced, Named
  <2>2. TablePlaced(op, "up", 2, 8)
    BY <2>0 DEF TablePlaced
  <2>3. ColumnPlaced(op, "up", 2, 8)
    BY <2>0, ClausesAre, MadeClauses DEF ColumnPlaced, Makes, Has
  <2>4. KeyPlaced(op, "up", 2, 8)
    BY <2>0 DEF KeyPlaced
  <2>5. IndexPlaced(op, "up", 2, 8)
    BY <2>0 DEF IndexPlaced
  <2> QED BY ONLY <2>1, <2>2, <2>3, <2>4, <2>5 DEF Placed, op
<1>9. Placed(AddClauseHierarchy[9], "up", 2, 9)
  <2> DEFINE op == AddClauseHierarchy[9]
  <2>0. op = Check("clauses_parent_not_self", "clauses")
    BY ONLY DEF AddClauseHierarchy
  <2> HIDE DEF op
  <2>1. FormPlaced(op, "up", 2, 9)
    BY <2>0, AllTablesAre DEF FormPlaced
  <2>2. TablePlaced(op, "up", 2, 9)
    BY <2>0 DEF TablePlaced
  <2>3. ColumnPlaced(op, "up", 2, 9)
    BY <2>0 DEF ColumnPlaced
  <2>4. KeyPlaced(op, "up", 2, 9)
    BY <2>0 DEF KeyPlaced
  <2>5. IndexPlaced(op, "up", 2, 9)
    BY <2>0 DEF IndexPlaced
  <2> QED BY ONLY <2>1, <2>2, <2>3, <2>4, <2>5 DEF Placed, op
<1>10. Placed(AddClauseHierarchy[10], "up", 2, 10)
  <2> DEFINE op == AddClauseHierarchy[10]
  <2>0. op = Index("clauses_parent_clause_id_idx", "clauses", {"parent_clause_id"})
    BY ONLY DEF AddClauseHierarchy
  <2> HIDE DEF op
  <2>1. FormPlaced(op, "up", 2, 10)
    BY <2>0, AllTablesAre DEF FormPlaced
  <2>2. TablePlaced(op, "up", 2, 10)
    BY <2>0 DEF TablePlaced
  <2>3. ColumnPlaced(op, "up", 2, 10)
    BY <2>0, ClausesAre, MadeClauses DEF ColumnPlaced, Makes, Has
  <2>4. KeyPlaced(op, "up", 2, 10)
    BY <2>0, AllTablesAre DEF KeyPlaced
  <2>5. IndexPlaced(op, "up", 2, 10)
    BY <2>0 DEF IndexPlaced
  <2> QED BY ONLY <2>1, <2>2, <2>3, <2>4, <2>5 DEF Placed, op
<1>11. Placed(AddClauseHierarchy[11], "up", 2, 11)
  <2> DEFINE op == AddClauseHierarchy[11]
  <2>0. op = SetNullable("clauses", "clause_number", TRUE)
    BY ONLY DEF AddClauseHierarchy
  <2> HIDE DEF op
  <2>1. FormPlaced(op, "up", 2, 11)
    BY <2>0, AllTablesAre DEF FormPlaced, Blank
  <2>2. TablePlaced(op, "up", 2, 11)
    BY <2>0 DEF TablePlaced
  <2>3. ColumnPlaced(op, "up", 2, 11)
    BY <2>0, ClausesAre, MadeClauses DEF ColumnPlaced, Makes, Has
  <2>4. KeyPlaced(op, "up", 2, 11)
    BY <2>0 DEF KeyPlaced
  <2>5. IndexPlaced(op, "up", 2, 11)
    BY <2>0 DEF IndexPlaced
  <2> QED BY ONLY <2>1, <2>2, <2>3, <2>4, <2>5 DEF Placed, op
<1>12. Placed(AddClauseHierarchy[12], "up", 2, 12)
  <2> DEFINE op == AddClauseHierarchy[12]
  <2>0. op = SetNullable("clauses", "clause_type", TRUE)
    BY ONLY DEF AddClauseHierarchy
  <2> HIDE DEF op
  <2>1. FormPlaced(op, "up", 2, 12)
    BY <2>0, AllTablesAre DEF FormPlaced, Blank
  <2>2. TablePlaced(op, "up", 2, 12)
    BY <2>0 DEF TablePlaced
  <2>3. ColumnPlaced(op, "up", 2, 12)
    BY <2>0, ClausesAre, MadeClauses DEF ColumnPlaced, Makes, Has
  <2>4. KeyPlaced(op, "up", 2, 12)
    BY <2>0 DEF KeyPlaced
  <2>5. IndexPlaced(op, "up", 2, 12)
    BY <2>0 DEF IndexPlaced
  <2> QED BY ONLY <2>1, <2>2, <2>3, <2>4, <2>5 DEF Placed, op
<1> QED BY ONLY <1>1, <1>2, <1>3, <1>4, <1>5, <1>6, <1>7, <1>8, <1>9, <1>10, <1>11, <1>12

\* The statements of AddExtractedText are in their places.
LEMMA AddExtractedTextPlaced == \A k \in 1..1 : Placed(AddExtractedText[k], "up", 3, k)
<1>1. Placed(AddExtractedText[1], "up", 3, 1)
  <2> DEFINE op == AddExtractedText[1]
  <2>0. op = AddNullable("policy_versions", "extracted_text")
    BY ONLY DEF AddExtractedText
  <2> HIDE DEF op
  <2>1. FormPlaced(op, "up", 3, 1)
    BY <2>0, AllTablesAre DEF FormPlaced, Blank
  <2>2. TablePlaced(op, "up", 3, 1)
    BY <2>0 DEF TablePlaced
  <2>3. ColumnPlaced(op, "up", 3, 1)
    BY <2>0, PolicyVersionsAre, MadePolicyVersions DEF ColumnPlaced, Makes, Has
  <2>4. KeyPlaced(op, "up", 3, 1)
    BY <2>0 DEF KeyPlaced
  <2>5. IndexPlaced(op, "up", 3, 1)
    BY <2>0 DEF IndexPlaced
  <2> QED BY ONLY <2>1, <2>2, <2>3, <2>4, <2>5 DEF Placed, op
<1> QED BY ONLY <1>1

\* The statements of RecreateObligations are in their places.
LEMMA RecreateObligationsPlaced == \A k \in 1..4 : Placed(RecreateObligations[k], "up", 4, k)
<1>1. Placed(RecreateObligations[1], "up", 4, 1)
  <2> DEFINE op == RecreateObligations[1]
  <2>0. op = DropTable("obligations")
    BY ONLY DEF RecreateObligations
  <2> HIDE DEF op
  <2>1. FormPlaced(op, "up", 4, 1)
    BY <2>0, AllTablesAre DEF FormPlaced
  <2>2. TablePlaced(op, "up", 4, 1)
    BY <2>0 DEF TablePlaced, Points
  <2>3. ColumnPlaced(op, "up", 4, 1)
    BY <2>0 DEF ColumnPlaced
  <2>4. KeyPlaced(op, "up", 4, 1)
    BY <2>0 DEF KeyPlaced
  <2>5. IndexPlaced(op, "up", 4, 1)
    BY <2>0 DEF IndexPlaced
  <2> QED BY ONLY <2>1, <2>2, <2>3, <2>4, <2>5 DEF Placed, op
<1>2. Placed(RecreateObligations[2], "up", 4, 2)
  <2> DEFINE op == RecreateObligations[2]
  <2>0. Makes(op, "obligations",
               {"id", "created_at", "updated_at", "deleted_at", "clause_id", "policy_id",
                "subject", "action", "object", "modality", "compliance_category",
                "confidence_score", "ai_model", "conditions", "time_constraint"},
               {"deleted_at", "conditions", "time_constraint"},
               {"id", "created_at", "updated_at"},
               NoTypes,
               {<<"clause_id", "clauses">>, <<"policy_id", "policies">>})
    BY ONLY NewObligationsAre
  <2> HIDE DEF op
  <2>9. Made("obligations", "up", 4, 3) = RecreateObligations[2]
    BY ONLY MadeObligations DEF IsNew, Stands
  <2>1. FormPlaced(op, "up", 4, 2)
    BY <2>0, <2>9, NewObligationsAre, AllTablesAre DEF FormPlaced, Makes, Has, Refers, Others, Blank, NoTypes
  <2>2. TablePlaced(op, "up", 4, 2)
    BY <2>0 DEF TablePlaced, Makes, Has, NoTypes
  <2>3. ColumnPlaced(op, "up", 4, 2)
    BY <2>0 DEF ColumnPlaced, Makes
  <2>4. KeyPlaced(op, "up", 4, 2)
    BY <2>0 DEF KeyPlaced, Makes
  <2>5. IndexPlaced(op, "up", 4, 2)
    BY <2>0 DEF IndexPlaced, Makes
  <2> QED BY ONLY <2>1, <2>2, <2>3, <2>4, <2>5 DEF Placed, op
<1>3. Placed(RecreateObligations[3], "up", 4, 3)
  <2> DEFINE op == RecreateObligations[3]
  <2>0. op = Index("obligations_clause_id_idx", "obligations", {"clause_id"})
    BY ONLY DEF RecreateObligations
  <2> HIDE DEF op
  <2>1. FormPlaced(op, "up", 4, 3)
    BY <2>0, AllTablesAre DEF FormPlaced
  <2>2. TablePlaced(op, "up", 4, 3)
    BY <2>0 DEF TablePlaced
  <2>3. ColumnPlaced(op, "up", 4, 3)
    BY <2>0, NewObligationsAre, MadeObligations DEF ColumnPlaced, Makes, Has
  <2>4. KeyPlaced(op, "up", 4, 3)
    BY <2>0, AllTablesAre DEF KeyPlaced
  <2>5. IndexPlaced(op, "up", 4, 3)
    BY <2>0 DEF IndexPlaced
  <2> QED BY ONLY <2>1, <2>2, <2>3, <2>4, <2>5 DEF Placed, op
<1>4. Placed(RecreateObligations[4], "up", 4, 4)
  <2> DEFINE op == RecreateObligations[4]
  <2>0. op = Index("obligations_policy_id_idx", "obligations", {"policy_id"})
    BY ONLY DEF RecreateObligations
  <2> HIDE DEF op
  <2>1. FormPlaced(op, "up", 4, 4)
    BY <2>0, AllTablesAre DEF FormPlaced
  <2>2. TablePlaced(op, "up", 4, 4)
    BY <2>0 DEF TablePlaced
  <2>3. ColumnPlaced(op, "up", 4, 4)
    BY <2>0, NewObligationsAre, MadeObligations DEF ColumnPlaced, Makes, Has
  <2>4. KeyPlaced(op, "up", 4, 4)
    BY <2>0, AllTablesAre DEF KeyPlaced
  <2>5. IndexPlaced(op, "up", 4, 4)
    BY <2>0 DEF IndexPlaced
  <2> QED BY ONLY <2>1, <2>2, <2>3, <2>4, <2>5 DEF Placed, op
<1> QED BY ONLY <1>1, <1>2, <1>3, <1>4

\* The statements of CreateConflicts are in their places.
LEMMA CreateConflictsPlaced == \A k \in 1..4 : Placed(CreateConflicts[k], "up", 5, k)
<1>1. Placed(CreateConflicts[1], "up", 5, 1)
  <2> DEFINE op == CreateConflicts[1]
  <2>0. Makes(op, "conflicts",
               {"id", "created_at", "updated_at", "deleted_at", "source_policy_id",
                "target_policy_id", "conflict_type", "similarity_score", "severity", "status",
                "source_obligation_id", "target_obligation_id", "ai_explanation"},
               {"deleted_at", "source_obligation_id", "target_obligation_id", "ai_explanation"},
               {"id", "created_at", "updated_at", "status"},
               NoTypes,
               {<<"source_policy_id", "policies">>, <<"target_policy_id", "policies">>,
               <<"source_obligation_id", "obligations">>, <<"target_obligation_id", "obligations">>})
    BY ONLY ConflictsAre
  <2> HIDE DEF op
  <2>1. FormPlaced(op, "up", 5, 1)
    BY <2>0, AllTablesAre, MadeConflicts, ConflictsAre DEF FormPlaced, Makes, Has, Refers, Others, Blank, NoTypes
  <2>2. TablePlaced(op, "up", 5, 1)
    BY <2>0 DEF TablePlaced, Makes, Has, NoTypes
  <2>3. ColumnPlaced(op, "up", 5, 1)
    BY <2>0 DEF ColumnPlaced, Makes
  <2>4. KeyPlaced(op, "up", 5, 1)
    BY <2>0 DEF KeyPlaced, Makes
  <2>5. IndexPlaced(op, "up", 5, 1)
    BY <2>0 DEF IndexPlaced, Makes
  <2> QED BY ONLY <2>1, <2>2, <2>3, <2>4, <2>5 DEF Placed, op
<1>2. Placed(CreateConflicts[2], "up", 5, 2)
  <2> DEFINE op == CreateConflicts[2]
  <2>0. op = Index("ix_conflicts_source_policy_id", "conflicts", {"source_policy_id"})
    BY ONLY DEF CreateConflicts
  <2> HIDE DEF op
  <2>1. FormPlaced(op, "up", 5, 2)
    BY <2>0, AllTablesAre DEF FormPlaced
  <2>2. TablePlaced(op, "up", 5, 2)
    BY <2>0 DEF TablePlaced
  <2>3. ColumnPlaced(op, "up", 5, 2)
    BY <2>0, ConflictsAre, MadeConflicts DEF ColumnPlaced, Makes, Has
  <2>4. KeyPlaced(op, "up", 5, 2)
    BY <2>0, AllTablesAre DEF KeyPlaced
  <2>5. IndexPlaced(op, "up", 5, 2)
    BY <2>0 DEF IndexPlaced
  <2> QED BY ONLY <2>1, <2>2, <2>3, <2>4, <2>5 DEF Placed, op
<1>3. Placed(CreateConflicts[3], "up", 5, 3)
  <2> DEFINE op == CreateConflicts[3]
  <2>0. op = Index("ix_conflicts_target_policy_id", "conflicts", {"target_policy_id"})
    BY ONLY DEF CreateConflicts
  <2> HIDE DEF op
  <2>1. FormPlaced(op, "up", 5, 3)
    BY <2>0, AllTablesAre DEF FormPlaced
  <2>2. TablePlaced(op, "up", 5, 3)
    BY <2>0 DEF TablePlaced
  <2>3. ColumnPlaced(op, "up", 5, 3)
    BY <2>0, ConflictsAre, MadeConflicts DEF ColumnPlaced, Makes, Has
  <2>4. KeyPlaced(op, "up", 5, 3)
    BY <2>0, AllTablesAre DEF KeyPlaced
  <2>5. IndexPlaced(op, "up", 5, 3)
    BY <2>0 DEF IndexPlaced
  <2> QED BY ONLY <2>1, <2>2, <2>3, <2>4, <2>5 DEF Placed, op
<1>4. Placed(CreateConflicts[4], "up", 5, 4)
  <2> DEFINE op == CreateConflicts[4]
  <2>0. op = Index("ix_conflicts_status", "conflicts", {"status"})
    BY ONLY DEF CreateConflicts
  <2> HIDE DEF op
  <2>1. FormPlaced(op, "up", 5, 4)
    BY <2>0, AllTablesAre DEF FormPlaced
  <2>2. TablePlaced(op, "up", 5, 4)
    BY <2>0 DEF TablePlaced
  <2>3. ColumnPlaced(op, "up", 5, 4)
    BY <2>0, ConflictsAre, MadeConflicts DEF ColumnPlaced, Makes, Has
  <2>4. KeyPlaced(op, "up", 5, 4)
    BY <2>0, AllTablesAre DEF KeyPlaced
  <2>5. IndexPlaced(op, "up", 5, 4)
    BY <2>0 DEF IndexPlaced
  <2> QED BY ONLY <2>1, <2>2, <2>3, <2>4, <2>5 DEF Placed, op
<1> QED BY ONLY <1>1, <1>2, <1>3, <1>4

\* The statements of CreateRecommendations are in their places.
LEMMA CreateRecommendationsPlaced == \A k \in 1..3 : Placed(CreateRecommendations[k], "up", 6, k)
<1>1. Placed(CreateRecommendations[1], "up", 6, 1)
  <2> DEFINE op == CreateRecommendations[1]
  <2>0. Makes(op, "recommendations",
               {"id", "created_at", "updated_at", "deleted_at", "conflict_id",
                "recommendation_summary", "suggested_action", "reason", "ai_model",
                "confidence_score", "status", "original_clause", "revised_clause"},
               {"deleted_at", "original_clause", "revised_clause"},
               {"id", "created_at", "updated_at", "status"},
               NoTypes,
               {<<"conflict_id", "conflicts">>})
    BY ONLY RecommendationsAre
  <2> HIDE DEF op
  <2>1. FormPlaced(op, "up", 6, 1)
    BY <2>0, AllTablesAre, MadeRecommendations, RecommendationsAre DEF FormPlaced, Makes, Has, Refers, Others, Blank, NoTypes
  <2>2. TablePlaced(op, "up", 6, 1)
    BY <2>0 DEF TablePlaced, Makes, Has, NoTypes
  <2>3. ColumnPlaced(op, "up", 6, 1)
    BY <2>0 DEF ColumnPlaced, Makes
  <2>4. KeyPlaced(op, "up", 6, 1)
    BY <2>0 DEF KeyPlaced, Makes
  <2>5. IndexPlaced(op, "up", 6, 1)
    BY <2>0 DEF IndexPlaced, Makes
  <2> QED BY ONLY <2>1, <2>2, <2>3, <2>4, <2>5 DEF Placed, op
<1>2. Placed(CreateRecommendations[2], "up", 6, 2)
  <2> DEFINE op == CreateRecommendations[2]
  <2>0. op = Index("ix_recommendations_conflict_id", "recommendations", {"conflict_id"})
    BY ONLY DEF CreateRecommendations
  <2> HIDE DEF op
  <2>1. FormPlaced(op, "up", 6, 2)
    BY <2>0, AllTablesAre DEF FormPlaced
  <2>2. TablePlaced(op, "up", 6, 2)
    BY <2>0 DEF TablePlaced
  <2>3. ColumnPlaced(op, "up", 6, 2)
    BY <2>0, RecommendationsAre, MadeRecommendations DEF ColumnPlaced, Makes, Has
  <2>4. KeyPlaced(op, "up", 6, 2)
    BY <2>0, AllTablesAre DEF KeyPlaced
  <2>5. IndexPlaced(op, "up", 6, 2)
    BY <2>0 DEF IndexPlaced
  <2> QED BY ONLY <2>1, <2>2, <2>3, <2>4, <2>5 DEF Placed, op
<1>3. Placed(CreateRecommendations[3], "up", 6, 3)
  <2> DEFINE op == CreateRecommendations[3]
  <2>0. op = Index("ix_recommendations_status", "recommendations", {"status"})
    BY ONLY DEF CreateRecommendations
  <2> HIDE DEF op
  <2>1. FormPlaced(op, "up", 6, 3)
    BY <2>0, AllTablesAre DEF FormPlaced
  <2>2. TablePlaced(op, "up", 6, 3)
    BY <2>0 DEF TablePlaced
  <2>3. ColumnPlaced(op, "up", 6, 3)
    BY <2>0, RecommendationsAre, MadeRecommendations DEF ColumnPlaced, Makes, Has
  <2>4. KeyPlaced(op, "up", 6, 3)
    BY <2>0, AllTablesAre DEF KeyPlaced
  <2>5. IndexPlaced(op, "up", 6, 3)
    BY <2>0 DEF IndexPlaced
  <2> QED BY ONLY <2>1, <2>2, <2>3, <2>4, <2>5 DEF Placed, op
<1> QED BY ONLY <1>1, <1>2, <1>3

\* The statements of CreateComplianceAuditLogs are in their places.
LEMMA CreateComplianceAuditLogsPlaced == \A k \in 1..3 : Placed(CreateComplianceAuditLogs[k], "up", 7, k)
<1>1. Placed(CreateComplianceAuditLogs[1], "up", 7, 1)
  <2> DEFINE op == CreateComplianceAuditLogs[1]
  <2>0. Makes(op, "compliance_audit_logs",
               {"id", "company_id", "event_type", "user_identifier", "description",
                "occurred_at"},
               {},
               {"id", "occurred_at"},
               NoTypes,
               {<<"company_id", "companies">>})
    BY ONLY ComplianceAuditLogsAre
  <2> HIDE DEF op
  <2>1. FormPlaced(op, "up", 7, 1)
    BY <2>0, AllTablesAre, MadeComplianceAuditLogs, ComplianceAuditLogsAre DEF FormPlaced, Makes, Has, Refers, Others, Blank, NoTypes
  <2>2. TablePlaced(op, "up", 7, 1)
    BY <2>0 DEF TablePlaced, Makes, Has, NoTypes
  <2>3. ColumnPlaced(op, "up", 7, 1)
    BY <2>0 DEF ColumnPlaced, Makes
  <2>4. KeyPlaced(op, "up", 7, 1)
    BY <2>0 DEF KeyPlaced, Makes
  <2>5. IndexPlaced(op, "up", 7, 1)
    BY <2>0 DEF IndexPlaced, Makes
  <2> QED BY ONLY <2>1, <2>2, <2>3, <2>4, <2>5 DEF Placed, op
<1>2. Placed(CreateComplianceAuditLogs[2], "up", 7, 2)
  <2> DEFINE op == CreateComplianceAuditLogs[2]
  <2>0. op = Index("ix_compliance_audit_logs_company_id", "compliance_audit_logs", {"company_id"})
    BY ONLY DEF CreateComplianceAuditLogs
  <2> HIDE DEF op
  <2>1. FormPlaced(op, "up", 7, 2)
    BY <2>0, AllTablesAre DEF FormPlaced
  <2>2. TablePlaced(op, "up", 7, 2)
    BY <2>0 DEF TablePlaced
  <2>3. ColumnPlaced(op, "up", 7, 2)
    BY <2>0, ComplianceAuditLogsAre, MadeComplianceAuditLogs DEF ColumnPlaced, Makes, Has
  <2>4. KeyPlaced(op, "up", 7, 2)
    BY <2>0, AllTablesAre DEF KeyPlaced
  <2>5. IndexPlaced(op, "up", 7, 2)
    BY <2>0 DEF IndexPlaced
  <2> QED BY ONLY <2>1, <2>2, <2>3, <2>4, <2>5 DEF Placed, op
<1>3. Placed(CreateComplianceAuditLogs[3], "up", 7, 3)
  <2> DEFINE op == CreateComplianceAuditLogs[3]
  <2>0. op = Index("ix_compliance_audit_logs_event_type", "compliance_audit_logs", {"event_type"})
    BY ONLY DEF CreateComplianceAuditLogs
  <2> HIDE DEF op
  <2>1. FormPlaced(op, "up", 7, 3)
    BY <2>0, AllTablesAre DEF FormPlaced
  <2>2. TablePlaced(op, "up", 7, 3)
    BY <2>0 DEF TablePlaced
  <2>3. ColumnPlaced(op, "up", 7, 3)
    BY <2>0, ComplianceAuditLogsAre, MadeComplianceAuditLogs DEF ColumnPlaced, Makes, Has
  <2>4. KeyPlaced(op, "up", 7, 3)
    BY <2>0, AllTablesAre DEF KeyPlaced
  <2>5. IndexPlaced(op, "up", 7, 3)
    BY <2>0 DEF IndexPlaced
  <2> QED BY ONLY <2>1, <2>2, <2>3, <2>4, <2>5 DEF Placed, op
<1> QED BY ONLY <1>1, <1>2, <1>3

\* The statements of AddReviewFields are in their places.
LEMMA AddReviewFieldsPlaced == \A k \in 1..3 : Placed(AddReviewFields[k], "up", 8, k)
<1>1. Placed(AddReviewFields[1], "up", 8, 1)
  <2> DEFINE op == AddReviewFields[1]
  <2>0. op = AddNullable("recommendations", "reviewer_name")
    BY ONLY DEF AddReviewFields
  <2> HIDE DEF op
  <2>1. FormPlaced(op, "up", 8, 1)
    BY <2>0, AllTablesAre DEF FormPlaced, Blank
  <2>2. TablePlaced(op, "up", 8, 1)
    BY <2>0 DEF TablePlaced
  <2>3. ColumnPlaced(op, "up", 8, 1)
    BY <2>0, RecommendationsAre, MadeRecommendations DEF ColumnPlaced, Makes, Has
  <2>4. KeyPlaced(op, "up", 8, 1)
    BY <2>0 DEF KeyPlaced
  <2>5. IndexPlaced(op, "up", 8, 1)
    BY <2>0 DEF IndexPlaced
  <2> QED BY ONLY <2>1, <2>2, <2>3, <2>4, <2>5 DEF Placed, op
<1>2. Placed(AddReviewFields[2], "up", 8, 2)
  <2> DEFINE op == AddReviewFields[2]
  <2>0. op = AddNullable("recommendations", "reviewed_at")
    BY ONLY DEF AddReviewFields
  <2> HIDE DEF op
  <2>1. FormPlaced(op, "up", 8, 2)
    BY <2>0, AllTablesAre DEF FormPlaced, Blank
  <2>2. TablePlaced(op, "up", 8, 2)
    BY <2>0 DEF TablePlaced
  <2>3. ColumnPlaced(op, "up", 8, 2)
    BY <2>0, RecommendationsAre, MadeRecommendations DEF ColumnPlaced, Makes, Has
  <2>4. KeyPlaced(op, "up", 8, 2)
    BY <2>0 DEF KeyPlaced
  <2>5. IndexPlaced(op, "up", 8, 2)
    BY <2>0 DEF IndexPlaced
  <2> QED BY ONLY <2>1, <2>2, <2>3, <2>4, <2>5 DEF Placed, op
<1>3. Placed(AddReviewFields[3], "up", 8, 3)
  <2> DEFINE op == AddReviewFields[3]
  <2>0. op = AddNullable("recommendations", "review_comments")
    BY ONLY DEF AddReviewFields
  <2> HIDE DEF op
  <2>1. FormPlaced(op, "up", 8, 3)
    BY <2>0, AllTablesAre DEF FormPlaced, Blank
  <2>2. TablePlaced(op, "up", 8, 3)
    BY <2>0 DEF TablePlaced
  <2>3. ColumnPlaced(op, "up", 8, 3)
    BY <2>0, RecommendationsAre, MadeRecommendations DEF ColumnPlaced, Makes, Has
  <2>4. KeyPlaced(op, "up", 8, 3)
    BY <2>0 DEF KeyPlaced
  <2>5. IndexPlaced(op, "up", 8, 3)
    BY <2>0 DEF IndexPlaced
  <2> QED BY ONLY <2>1, <2>2, <2>3, <2>4, <2>5 DEF Placed, op
<1> QED BY ONLY <1>1, <1>2, <1>3

\* The statements of AddRelationshipColumns are in their places.
LEMMA AddRelationshipColumnsPlaced == \A k \in 1..3 : Placed(AddRelationshipColumns[k], "up", 9, k)
<1>1. Placed(AddRelationshipColumns[1], "up", 9, 1)
  <2> DEFINE op == AddRelationshipColumns[1]
  <2>0. op = AddNullable("conflicts", "relationship_type")
    BY ONLY DEF AddRelationshipColumns
  <2> HIDE DEF op
  <2>1. FormPlaced(op, "up", 9, 1)
    BY <2>0, AllTablesAre DEF FormPlaced, Blank
  <2>2. TablePlaced(op, "up", 9, 1)
    BY <2>0 DEF TablePlaced
  <2>3. ColumnPlaced(op, "up", 9, 1)
    BY <2>0, ConflictsAre, MadeConflicts DEF ColumnPlaced, Makes, Has
  <2>4. KeyPlaced(op, "up", 9, 1)
    BY <2>0 DEF KeyPlaced
  <2>5. IndexPlaced(op, "up", 9, 1)
    BY <2>0 DEF IndexPlaced
  <2> QED BY ONLY <2>1, <2>2, <2>3, <2>4, <2>5 DEF Placed, op
<1>2. Placed(AddRelationshipColumns[2], "up", 9, 2)
  <2> DEFINE op == AddRelationshipColumns[2]
  <2>0. op = AddNullable("conflicts", "explanation")
    BY ONLY DEF AddRelationshipColumns
  <2> HIDE DEF op
  <2>1. FormPlaced(op, "up", 9, 2)
    BY <2>0, AllTablesAre DEF FormPlaced, Blank
  <2>2. TablePlaced(op, "up", 9, 2)
    BY <2>0 DEF TablePlaced
  <2>3. ColumnPlaced(op, "up", 9, 2)
    BY <2>0, ConflictsAre, MadeConflicts DEF ColumnPlaced, Makes, Has
  <2>4. KeyPlaced(op, "up", 9, 2)
    BY <2>0 DEF KeyPlaced
  <2>5. IndexPlaced(op, "up", 9, 2)
    BY <2>0 DEF IndexPlaced
  <2> QED BY ONLY <2>1, <2>2, <2>3, <2>4, <2>5 DEF Placed, op
<1>3. Placed(AddRelationshipColumns[3], "up", 9, 3)
  <2> DEFINE op == AddRelationshipColumns[3]
  <2>0. op = AddNullable("conflicts", "confidence_score")
    BY ONLY DEF AddRelationshipColumns
  <2> HIDE DEF op
  <2>1. FormPlaced(op, "up", 9, 3)
    BY <2>0, AllTablesAre DEF FormPlaced, Blank
  <2>2. TablePlaced(op, "up", 9, 3)
    BY <2>0 DEF TablePlaced
  <2>3. ColumnPlaced(op, "up", 9, 3)
    BY <2>0, ConflictsAre, MadeConflicts DEF ColumnPlaced, Makes, Has
  <2>4. KeyPlaced(op, "up", 9, 3)
    BY <2>0 DEF KeyPlaced
  <2>5. IndexPlaced(op, "up", 9, 3)
    BY <2>0 DEF IndexPlaced
  <2> QED BY ONLY <2>1, <2>2, <2>3, <2>4, <2>5 DEF Placed, op
<1> QED BY ONLY <1>1, <1>2, <1>3

\* The statements of AddFindingsColumns are in their places.
LEMMA AddFindingsColumnsPlaced == \A k \in 1..4 : Placed(AddFindingsColumns[k], "up", 10, k)
<1>1. Placed(AddFindingsColumns[1], "up", 10, 1)
  <2> DEFINE op == AddFindingsColumns[1]
  <2>0. op = AddNullable("conflicts", "temporal_conflict")
    BY ONLY DEF AddFindingsColumns
  <2> HIDE DEF op
  <2>1. FormPlaced(op, "up", 10, 1)
    BY <2>0, AllTablesAre DEF FormPlaced, Blank
  <2>2. TablePlaced(op, "up", 10, 1)
    BY <2>0 DEF TablePlaced
  <2>3. ColumnPlaced(op, "up", 10, 1)
    BY <2>0, ConflictsAre, MadeConflicts DEF ColumnPlaced, Makes, Has
  <2>4. KeyPlaced(op, "up", 10, 1)
    BY <2>0 DEF KeyPlaced
  <2>5. IndexPlaced(op, "up", 10, 1)
    BY <2>0 DEF IndexPlaced
  <2> QED BY ONLY <2>1, <2>2, <2>3, <2>4, <2>5 DEF Placed, op
<1>2. Placed(AddFindingsColumns[2], "up", 10, 2)
  <2> DEFINE op == AddFindingsColumns[2]
  <2>0. op = AddNullable("conflicts", "strength_conflict")
    BY ONLY DEF AddFindingsColumns
  <2> HIDE DEF op
  <2>1. FormPlaced(op, "up", 10, 2)
    BY <2>0, AllTablesAre DEF FormPlaced, Blank
  <2>2. TablePlaced(op, "up", 10, 2)
    BY <2>0 DEF TablePlaced
  <2>3. ColumnPlaced(op, "up", 10, 2)
    BY <2>0, ConflictsAre, MadeConflicts DEF ColumnPlaced, Makes, Has
  <2>4. KeyPlaced(op, "up", 10, 2)
    BY <2>0 DEF KeyPlaced
  <2>5. IndexPlaced(op, "up", 10, 2)
    BY <2>0 DEF IndexPlaced
  <2> QED BY ONLY <2>1, <2>2, <2>3, <2>4, <2>5 DEF Placed, op
<1>3. Placed(AddFindingsColumns[3], "up", 10, 3)
  <2> DEFINE op == AddFindingsColumns[3]
  <2>0. op = AddNullable("conflicts", "staleness_status")
    BY ONLY DEF AddFindingsColumns
  <2> HIDE DEF op
  <2>1. FormPlaced(op, "up", 10, 3)
    BY <2>0, AllTablesAre DEF FormPlaced, Blank
  <2>2. TablePlaced(op, "up", 10, 3)
    BY <2>0 DEF TablePlaced
  <2>3. ColumnPlaced(op, "up", 10, 3)
    BY <2>0, ConflictsAre, MadeConflicts DEF ColumnPlaced, Makes, Has
  <2>4. KeyPlaced(op, "up", 10, 3)
    BY <2>0 DEF KeyPlaced
  <2>5. IndexPlaced(op, "up", 10, 3)
    BY <2>0 DEF IndexPlaced
  <2> QED BY ONLY <2>1, <2>2, <2>3, <2>4, <2>5 DEF Placed, op
<1>4. Placed(AddFindingsColumns[4], "up", 10, 4)
  <2> DEFINE op == AddFindingsColumns[4]
  <2>0. op = AddNullable("conflicts", "detected_parameters")
    BY ONLY DEF AddFindingsColumns
  <2> HIDE DEF op
  <2>1. FormPlaced(op, "up", 10, 4)
    BY <2>0, AllTablesAre DEF FormPlaced, Blank
  <2>2. TablePlaced(op, "up", 10, 4)
    BY <2>0 DEF TablePlaced
  <2>3. ColumnPlaced(op, "up", 10, 4)
    BY <2>0, ConflictsAre, MadeConflicts DEF ColumnPlaced, Makes, Has
  <2>4. KeyPlaced(op, "up", 10, 4)
    BY <2>0 DEF KeyPlaced
  <2>5. IndexPlaced(op, "up", 10, 4)
    BY <2>0 DEF IndexPlaced
  <2> QED BY ONLY <2>1, <2>2, <2>3, <2>4, <2>5 DEF Placed, op
<1> QED BY ONLY <1>1, <1>2, <1>3, <1>4

\* The statements of CreateRegulatoryMappings are in their places.
LEMMA CreateRegulatoryMappingsPlaced == \A k \in 1..1 : Placed(CreateRegulatoryMappings[k], "up", 11, k)
<1>1. Placed(CreateRegulatoryMappings[1], "up", 11, 1)
  <2> DEFINE op == CreateRegulatoryMappings[1]
  <2>0. Makes(op, "regulatory_mappings",
               {"id", "created_at", "updated_at", "deleted_at", "policy_id", "obligation_id",
                "framework_name", "regulation_id", "clause_number", "confidence_score",
                "ai_explanation"},
               {"deleted_at"},
               {"id", "created_at", "updated_at"},
               NoTypes,
               {<<"obligation_id", "obligations">>, <<"policy_id", "policies">>})
    BY ONLY RegulatoryMappingsAre
  <2> HIDE DEF op
  <2>1. FormPlaced(op, "up", 11, 1)
    BY <2>0, AllTablesAre, MadeRegulatoryMappings, RegulatoryMappingsAre DEF FormPlaced, Makes, Has, Refers, Others, Blank, NoTypes
  <2>2. TablePlaced(op, "up", 11, 1)
    BY <2>0 DEF TablePlaced, Makes, Has, NoTypes
  <2>3. ColumnPlaced(op, "up", 11, 1)
    BY <2>0 DEF ColumnPlaced, Makes
  <2>4. KeyPlaced(op, "up", 11, 1)
    BY <2>0 DEF KeyPlaced, Makes
  <2>5. IndexPlaced(op, "up", 11, 1)
    BY <2>0 DEF IndexPlaced, Makes
  <2> QED BY ONLY <2>1, <2>2, <2>3, <2>4, <2>5 DEF Placed, op
<1> QED BY ONLY <1>1

\* The statements of CreateStoredFiles are in their places.
LEMMA CreateStoredFilesPlaced == \A k \in 1..1 : Placed(CreateStoredFiles[k], "up", 12, k)
<1>1. Placed(CreateStoredFiles[1], "up", 12, 1)
  <2> DEFINE op == CreateStoredFiles[1]
  <2>0. Makes(op, "stored_files",
               {"storage_path", "content", "size_bytes", "content_type", "created_at"},
               {"content_type"},
               {"created_at"},
               NoTypes,
               {})
    BY ONLY StoredFilesAre
  <2> HIDE DEF op
  <2>1. FormPlaced(op, "up", 12, 1)
    BY <2>0, AllTablesAre, MadeStoredFiles, StoredFilesAre DEF FormPlaced, Makes, Has, Refers, Others, Blank, NoTypes
  <2>2. TablePlaced(op, "up", 12, 1)
    BY <2>0 DEF TablePlaced, Makes, Has, NoTypes
  <2>3. ColumnPlaced(op, "up", 12, 1)
    BY <2>0 DEF ColumnPlaced, Makes
  <2>4. KeyPlaced(op, "up", 12, 1)
    BY <2>0 DEF KeyPlaced, Makes
  <2>5. IndexPlaced(op, "up", 12, 1)
    BY <2>0 DEF IndexPlaced, Makes
  <2> QED BY ONLY <2>1, <2>2, <2>3, <2>4, <2>5 DEF Placed, op
<1> QED BY ONLY <1>1

\* The statements of RemoveVersionNumberKey are in their places.
LEMMA RemoveVersionNumberKeyPlaced == \A k \in 1..1 : Placed(RemoveVersionNumberKey[k], "up", 13, k)
<1>1. Placed(RemoveVersionNumberKey[1], "up", 13, 1)
  <2> DEFINE op == RemoveVersionNumberKey[1]
  <2>0. op = DropIndex("clauses_version_number_key", "clauses")
    BY ONLY DEF RemoveVersionNumberKey
  <2> HIDE DEF op
  <2>1. FormPlaced(op, "up", 13, 1)
    BY <2>0, AllTablesAre DEF FormPlaced
  <2>2. TablePlaced(op, "up", 13, 1)
    BY <2>0 DEF TablePlaced
  <2>3. ColumnPlaced(op, "up", 13, 1)
    BY <2>0 DEF ColumnPlaced
  <2>4. KeyPlaced(op, "up", 13, 1)
    BY <2>0, AllTablesAre DEF KeyPlaced
  <2>5. IndexPlaced(op, "up", 13, 1)
    BY <2>0 DEF IndexPlaced
  <2> QED BY ONLY <2>1, <2>2, <2>3, <2>4, <2>5 DEF Placed, op
<1> QED BY ONLY <1>1

\* The statements of InitialDowngrade are in their places.
LEMMA InitialDowngradePlaced == \A k \in 1..32 : Placed(InitialDowngrade[k], "down", 1, k)
<1>1. Placed(InitialDowngrade[1], "down", 1, 1)
  <2> DEFINE op == InitialDowngrade[1]
  <2>0. op = DropConstraint("policies_current_version_fk", "policies")
    BY ONLY InitialDowngradeIs
  <2> HIDE DEF op
  <2>1. FormPlaced(op, "down", 1, 1)
    BY <2>0, AllTablesAre DEF FormPlaced
  <2>2. TablePlaced(op, "down", 1, 1)
    BY <2>0 DEF TablePlaced
  <2>3. ColumnPlaced(op, "down", 1, 1)
    BY <2>0 DEF ColumnPlaced
  <2>4. KeyPlaced(op, "down", 1, 1)
    BY <2>0 DEF KeyPlaced
  <2>5. IndexPlaced(op, "down", 1, 1)
    BY <2>0 DEF IndexPlaced
  <2> QED BY ONLY <2>1, <2>2, <2>3, <2>4, <2>5 DEF Placed, op
<1>2. Placed(InitialDowngrade[2], "down", 1, 2)
  <2> DEFINE op == InitialDowngrade[2]
  <2>0. op = DropTable("audit_logs")
    BY ONLY InitialDowngradeIs
  <2> HIDE DEF op
  <2>1. FormPlaced(op, "down", 1, 2)
    BY <2>0, AllTablesAre DEF FormPlaced
  <2>2. TablePlaced(op, "down", 1, 2)
    BY <2>0 DEF TablePlaced, Points
  <2>3. ColumnPlaced(op, "down", 1, 2)
    BY <2>0 DEF ColumnPlaced
  <2>4. KeyPlaced(op, "down", 1, 2)
    BY <2>0 DEF KeyPlaced
  <2>5. IndexPlaced(op, "down", 1, 2)
    BY <2>0 DEF IndexPlaced
  <2> QED BY ONLY <2>1, <2>2, <2>3, <2>4, <2>5 DEF Placed, op
<1>3. Placed(InitialDowngrade[3], "down", 1, 3)
  <2> DEFINE op == InitialDowngrade[3]
  <2>0. op = DropTable("finding_clause_links")
    BY ONLY InitialDowngradeIs
  <2> HIDE DEF op
  <2>1. FormPlaced(op, "down", 1, 3)
    BY <2>0, AllTablesAre DEF FormPlaced
  <2>2. TablePlaced(op, "down", 1, 3)
    BY <2>0 DEF TablePlaced, Points
  <2>3. ColumnPlaced(op, "down", 1, 3)
    BY <2>0 DEF ColumnPlaced
  <2>4. KeyPlaced(op, "down", 1, 3)
    BY <2>0 DEF KeyPlaced
  <2>5. IndexPlaced(op, "down", 1, 3)
    BY <2>0 DEF IndexPlaced
  <2> QED BY ONLY <2>1, <2>2, <2>3, <2>4, <2>5 DEF Placed, op
<1>4. Placed(InitialDowngrade[4], "down", 1, 4)
  <2> DEFINE op == InitialDowngrade[4]
  <2>0. op = DropTable("findings")
    BY ONLY InitialDowngradeIs
  <2> HIDE DEF op
  <2>1. FormPlaced(op, "down", 1, 4)
    BY <2>0, AllTablesAre DEF FormPlaced
  <2>2. TablePlaced(op, "down", 1, 4)
    BY <2>0 DEF TablePlaced, Points
  <2>3. ColumnPlaced(op, "down", 1, 4)
    BY <2>0 DEF ColumnPlaced
  <2>4. KeyPlaced(op, "down", 1, 4)
    BY <2>0 DEF KeyPlaced
  <2>5. IndexPlaced(op, "down", 1, 4)
    BY <2>0 DEF IndexPlaced
  <2> QED BY ONLY <2>1, <2>2, <2>3, <2>4, <2>5 DEF Placed, op
<1>5. Placed(InitialDowngrade[5], "down", 1, 5)
  <2> DEFINE op == InitialDowngrade[5]
  <2>0. op = DropTable("clause_regulatory_mappings")
    BY ONLY InitialDowngradeIs
  <2> HIDE DEF op
  <2>1. FormPlaced(op, "down", 1, 5)
    BY <2>0, AllTablesAre DEF FormPlaced
  <2>2. TablePlaced(op, "down", 1, 5)
    BY <2>0 DEF TablePlaced, Points
  <2>3. ColumnPlaced(op, "down", 1, 5)
    BY <2>0 DEF ColumnPlaced
  <2>4. KeyPlaced(op, "down", 1, 5)
    BY <2>0 DEF KeyPlaced
  <2>5. IndexPlaced(op, "down", 1, 5)
    BY <2>0 DEF IndexPlaced
  <2> QED BY ONLY <2>1, <2>2, <2>3, <2>4, <2>5 DEF Placed, op
<1>6. Placed(InitialDowngrade[6], "down", 1, 6)
  <2> DEFINE op == InitialDowngrade[6]
  <2>0. op = DropTable("regulatory_clauses")
    BY ONLY InitialDowngradeIs
  <2> HIDE DEF op
  <2>1. FormPlaced(op, "down", 1, 6)
    BY <2>0, AllTablesAre DEF FormPlaced
  <2>2. TablePlaced(op, "down", 1, 6)
    BY <2>0 DEF TablePlaced, Points
  <2>3. ColumnPlaced(op, "down", 1, 6)
    BY <2>0 DEF ColumnPlaced
  <2>4. KeyPlaced(op, "down", 1, 6)
    BY <2>0 DEF KeyPlaced
  <2>5. IndexPlaced(op, "down", 1, 6)
    BY <2>0 DEF IndexPlaced
  <2> QED BY ONLY <2>1, <2>2, <2>3, <2>4, <2>5 DEF Placed, op
<1>7. Placed(InitialDowngrade[7], "down", 1, 7)
  <2> DEFINE op == InitialDowngrade[7]
  <2>0. op = DropTable("regulatory_frameworks")
    BY ONLY InitialDowngradeIs
  <2> HIDE DEF op
  <2>1. FormPlaced(op, "down", 1, 7)
    BY <2>0, AllTablesAre DEF FormPlaced
  <2>2. TablePlaced(op, "down", 1, 7)
    BY <2>0 DEF TablePlaced, Points
  <2>3. ColumnPlaced(op, "down", 1, 7)
    BY <2>0 DEF ColumnPlaced
  <2>4. KeyPlaced(op, "down", 1, 7)
    BY <2>0 DEF KeyPlaced
  <2>5. IndexPlaced(op, "down", 1, 7)
    BY <2>0 DEF IndexPlaced
  <2> QED BY ONLY <2>1, <2>2, <2>3, <2>4, <2>5 DEF Placed, op
<1>8. Placed(InitialDowngrade[8], "down", 1, 8)
  <2> DEFINE op == InitialDowngrade[8]
  <2>0. op = DropTable("obligations")
    BY ONLY InitialDowngradeIs
  <2> HIDE DEF op
  <2>1. FormPlaced(op, "down", 1, 8)
    BY <2>0, AllTablesAre DEF FormPlaced
  <2>2. TablePlaced(op, "down", 1, 8)
    BY <2>0 DEF TablePlaced, Points
  <2>3. ColumnPlaced(op, "down", 1, 8)
    BY <2>0 DEF ColumnPlaced
  <2>4. KeyPlaced(op, "down", 1, 8)
    BY <2>0 DEF KeyPlaced
  <2>5. IndexPlaced(op, "down", 1, 8)
    BY <2>0 DEF IndexPlaced
  <2> QED BY ONLY <2>1, <2>2, <2>3, <2>4, <2>5 DEF Placed, op
<1>9. Placed(InitialDowngrade[9], "down", 1, 9)
  <2> DEFINE op == InitialDowngrade[9]
  <2>0. op = DropTable("clauses")
    BY ONLY InitialDowngradeIs
  <2> HIDE DEF op
  <2>1. FormPlaced(op, "down", 1, 9)
    BY <2>0, AllTablesAre DEF FormPlaced
  <2>2. TablePlaced(op, "down", 1, 9)
    BY <2>0 DEF TablePlaced, Points
  <2>3. ColumnPlaced(op, "down", 1, 9)
    BY <2>0 DEF ColumnPlaced
  <2>4. KeyPlaced(op, "down", 1, 9)
    BY <2>0 DEF KeyPlaced
  <2>5. IndexPlaced(op, "down", 1, 9)
    BY <2>0 DEF IndexPlaced
  <2> QED BY ONLY <2>1, <2>2, <2>3, <2>4, <2>5 DEF Placed, op
<1>10. Placed(InitialDowngrade[10], "down", 1, 10)
  <2> DEFINE op == InitialDowngrade[10]
  <2>0. op = DropTable("policy_versions")
    BY ONLY InitialDowngradeIs
  <2> HIDE DEF op
  <2>1. FormPlaced(op, "down", 1, 10)
    BY <2>0, AllTablesAre DEF FormPlaced
  <2>2. TablePlaced(op, "down", 1, 10)
    BY <2>0 DEF TablePlaced, Points
  <2>3. ColumnPlaced(op, "down", 1, 10)
    BY <2>0 DEF ColumnPlaced
  <2>4. KeyPlaced(op, "down", 1, 10)
    BY <2>0 DEF KeyPlaced
  <2>5. IndexPlaced(op, "down", 1, 10)
    BY <2>0 DEF IndexPlaced
  <2> QED BY ONLY <2>1, <2>2, <2>3, <2>4, <2>5 DEF Placed, op
<1>11. Placed(InitialDowngrade[11], "down", 1, 11)
  <2> DEFINE op == InitialDowngrade[11]
  <2>0. op = DropTable("policies")
    BY ONLY InitialDowngradeIs
  <2> HIDE DEF op
  <2>1. FormPlaced(op, "down", 1, 11)
    BY <2>0, AllTablesAre DEF FormPlaced
  <2>2. TablePlaced(op, "down", 1, 11)
    BY <2>0 DEF TablePlaced, Points
  <2>3. ColumnPlaced(op, "down", 1, 11)
    BY <2>0 DEF ColumnPlaced
  <2>4. KeyPlaced(op, "down", 1, 11)
    BY <2>0 DEF KeyPlaced
  <2>5. IndexPlaced(op, "down", 1, 11)
    BY <2>0 DEF IndexPlaced
  <2> QED BY ONLY <2>1, <2>2, <2>3, <2>4, <2>5 DEF Placed, op
<1>12. Placed(InitialDowngrade[12], "down", 1, 12)
  <2> DEFINE op == InitialDowngrade[12]
  <2>0. op = DropTable("users")
    BY ONLY InitialDowngradeIs
  <2> HIDE DEF op
  <2>1. FormPlaced(op, "down", 1, 12)
    BY <2>0, AllTablesAre DEF FormPlaced
  <2>2. TablePlaced(op, "down", 1, 12)
    BY <2>0 DEF TablePlaced, Points
  <2>3. ColumnPlaced(op, "down", 1, 12)
    BY <2>0 DEF ColumnPlaced
  <2>4. KeyPlaced(op, "down", 1, 12)
    BY <2>0 DEF KeyPlaced
  <2>5. IndexPlaced(op, "down", 1, 12)
    BY <2>0 DEF IndexPlaced
  <2> QED BY ONLY <2>1, <2>2, <2>3, <2>4, <2>5 DEF Placed, op
<1>13. Placed(InitialDowngrade[13], "down", 1, 13)
  <2> DEFINE op == InitialDowngrade[13]
  <2>0. op = DropTable("departments")
    BY ONLY InitialDowngradeIs
  <2> HIDE DEF op
  <2>1. FormPlaced(op, "down", 1, 13)
    BY <2>0, AllTablesAre DEF FormPlaced
  <2>2. TablePlaced(op, "down", 1, 13)
    BY <2>0 DEF TablePlaced, Points
  <2>3. ColumnPlaced(op, "down", 1, 13)
    BY <2>0 DEF ColumnPlaced
  <2>4. KeyPlaced(op, "down", 1, 13)
    BY <2>0 DEF KeyPlaced
  <2>5. IndexPlaced(op, "down", 1, 13)
    BY <2>0 DEF IndexPlaced
  <2> QED BY ONLY <2>1, <2>2, <2>3, <2>4, <2>5 DEF Placed, op
<1>14. Placed(InitialDowngrade[14], "down", 1, 14)
  <2> DEFINE op == InitialDowngrade[14]
  <2>0. op = DropTable("companies")
    BY ONLY InitialDowngradeIs
  <2> HIDE DEF op
  <2>1. FormPlaced(op, "down", 1, 14)
    BY <2>0, AllTablesAre DEF FormPlaced
  <2>2. TablePlaced(op, "down", 1, 14)
    BY <2>0 DEF TablePlaced, Points
  <2>3. ColumnPlaced(op, "down", 1, 14)
    BY <2>0 DEF ColumnPlaced
  <2>4. KeyPlaced(op, "down", 1, 14)
    BY <2>0 DEF KeyPlaced
  <2>5. IndexPlaced(op, "down", 1, 14)
    BY <2>0 DEF IndexPlaced
  <2> QED BY ONLY <2>1, <2>2, <2>3, <2>4, <2>5 DEF Placed, op
<1>15. Placed(InitialDowngrade[15], "down", 1, 15)
  <2> DEFINE op == InitialDowngrade[15]
  <2>0. op = DropFunction("prevent_mutation")
    BY ONLY InitialDowngradeIs
  <2> HIDE DEF op
  <2>1. FormPlaced(op, "down", 1, 15)
    BY <2>0 DEF FormPlaced
  <2>2. TablePlaced(op, "down", 1, 15)
    BY <2>0 DEF TablePlaced
  <2>3. ColumnPlaced(op, "down", 1, 15)
    BY <2>0 DEF ColumnPlaced
  <2>4. KeyPlaced(op, "down", 1, 15)
    BY <2>0 DEF KeyPlaced
  <2>5. IndexPlaced(op, "down", 1, 15)
    BY <2>0 DEF IndexPlaced
  <2> QED BY ONLY <2>1, <2>2, <2>3, <2>4, <2>5 DEF Placed, op
<1>16. Placed(InitialDowngrade[16], "down", 1, 16)
  <2> DEFINE op == InitialDowngrade[16]
  <2>0. op = DropFunction("set_updated_at")
    BY ONLY InitialDowngradeIs
  <2> HIDE DEF op
  <2>1. FormPlaced(op, "down", 1, 16)
    BY <2>0 DEF FormPlaced
  <2>2. TablePlaced(op, "down", 1, 16)
    BY <2>0 DEF TablePlaced
  <2>3. ColumnPlaced(op, "down", 1, 16)
    BY <2>0 DEF ColumnPlaced
  <2>4. KeyPlaced(op, "down", 1, 16)
    BY <2>0 DEF KeyPlaced
  <2>5. IndexPlaced(op, "down", 1, 16)
    BY <2>0 DEF IndexPlaced
  <2> QED BY ONLY <2>1, <2>2, <2>3, <2>4, <2>5 DEF Placed, op
<1>17. \A i \in 1..16 : Placed(InitialDowngrade[16 + i], "down", 1, 16 + i)
  BY ONLY InitialDowngradeIs, LastEnumsPlaced
<1>18. ASSUME NEW k \in 17..32 PROVE Placed(InitialDowngrade[k], "down", 1, k)
  <2>1. k - 16 \in 1..16 /\ 16 + (k - 16) = k
    OBVIOUS
  <2> QED BY ONLY <1>17, <2>1
<1> QED BY ONLY <1>1, <1>2, <1>3, <1>4, <1>5, <1>6, <1>7, <1>8, <1>9, <1>10, <1>11, <1>12, <1>13,
               <1>14, <1>15, <1>16, <1>18

\* The statements of DropUploadMetadata are in their places.
LEMMA DropUploadMetadataPlaced == \A k \in 1..7 : Placed(DropUploadMetadata[k], "down", 2, k)
<1>1. Placed(DropUploadMetadata[1], "down", 2, 1)
  <2> DEFINE op == DropUploadMetadata[1]
  <2>0. op = SetNullable("policies", "owning_department_id", FALSE)
    BY ONLY DEF DropUploadMetadata
  <2> HIDE DEF op
  <2>1. FormPlaced(op, "down", 2, 1)
    BY <2>0, AllTablesAre DEF FormPlaced, Blank
  <2>2. TablePlaced(op, "down", 2, 1)
    BY <2>0 DEF TablePlaced
  <2>3. ColumnPlaced(op, "down", 2, 1)
    BY <2>0, PoliciesAre, MadePolicies DEF ColumnPlaced, Makes, Has
  <2>4. KeyPlaced(op, "down", 2, 1)
    BY <2>0 DEF KeyPlaced
  <2>5. IndexPlaced(op, "down", 2, 1)
    BY <2>0 DEF IndexPlaced
  <2> QED BY ONLY <2>1, <2>2, <2>3, <2>4, <2>5 DEF Placed, op
<1>2. Placed(DropUploadMetadata[2], "down", 2, 2)
  <2> DEFINE op == DropUploadMetadata[2]
  <2>0. op = DropConstraint("policy_versions_size_bytes_positive", "policy_versions")
    BY ONLY DEF DropUploadMetadata
  <2> HIDE DEF op
  <2>1. FormPlaced(op, "down", 2, 2)
    BY <2>0, AllTablesAre DEF FormPlaced
  <2>2. TablePlaced(op, "down", 2, 2)
    BY <2>0 DEF TablePlaced
  <2>3. ColumnPlaced(op, "down", 2, 2)
    BY <2>0 DEF ColumnPlaced
  <2>4. KeyPlaced(op, "down", 2, 2)
    BY <2>0 DEF KeyPlaced
  <2>5. IndexPlaced(op, "down", 2, 2)
    BY <2>0 DEF IndexPlaced
  <2> QED BY ONLY <2>1, <2>2, <2>3, <2>4, <2>5 DEF Placed, op
<1>3. Placed(DropUploadMetadata[3], "down", 2, 3)
  <2> DEFINE op == DropUploadMetadata[3]
  <2>0. op = DropColumn("policy_versions", "description")
    BY ONLY DEF DropUploadMetadata
  <2> HIDE DEF op
  <2>1. FormPlaced(op, "down", 2, 3)
    BY <2>0, AllTablesAre DEF FormPlaced, Refers
  <2>2. TablePlaced(op, "down", 2, 3)
    BY <2>0 DEF TablePlaced
  <2>3. ColumnPlaced(op, "down", 2, 3)
    BY <2>0, PolicyVersionsAre, MadePolicyVersions DEF ColumnPlaced, Makes, Has
  <2>4. KeyPlaced(op, "down", 2, 3)
    BY <2>0 DEF KeyPlaced
  <2>5. IndexPlaced(op, "down", 2, 3)
    BY <2>0 DEF IndexPlaced
  <2> QED BY ONLY <2>1, <2>2, <2>3, <2>4, <2>5 DEF Placed, op
<1>4. Placed(DropUploadMetadata[4], "down", 2, 4)
  <2> DEFINE op == DropUploadMetadata[4]
  <2>0. op = DropColumn("policy_versions", "file_type")
    BY ONLY DEF DropUploadMetadata
  <2> HIDE DEF op
  <2>1. FormPlaced(op, "down", 2, 4)
    BY <2>0, AllTablesAre DEF FormPlaced, Refers
  <2>2. TablePlaced(op, "down", 2, 4)
    BY <2>0 DEF TablePlaced
  <2>3. ColumnPlaced(op, "down", 2, 4)
    BY <2>0, PolicyVersionsAre, MadePolicyVersions DEF ColumnPlaced, Makes, Has
  <2>4. KeyPlaced(op, "down", 2, 4)
    BY <2>0 DEF KeyPlaced
  <2>5. IndexPlaced(op, "down", 2, 4)
    BY <2>0 DEF IndexPlaced
  <2> QED BY ONLY <2>1, <2>2, <2>3, <2>4, <2>5 DEF Placed, op
<1>5. Placed(DropUploadMetadata[5], "down", 2, 5)
  <2> DEFINE op == DropUploadMetadata[5]
  <2>0. op = DropColumn("policy_versions", "size_bytes")
    BY ONLY DEF DropUploadMetadata
  <2> HIDE DEF op
  <2>1. FormPlaced(op, "down", 2, 5)
    BY <2>0, AllTablesAre DEF FormPlaced, Refers
  <2>2. TablePlaced(op, "down", 2, 5)
    BY <2>0 DEF TablePlaced
  <2>3. ColumnPlaced(op, "down", 2, 5)
    BY <2>0, PolicyVersionsAre, MadePolicyVersions DEF ColumnPlaced, Makes, Has
  <2>4. KeyPlaced(op, "down", 2, 5)
    BY <2>0 DEF KeyPlaced
  <2>5. IndexPlaced(op, "down", 2, 5)
    BY <2>0 DEF IndexPlaced
  <2> QED BY ONLY <2>1, <2>2, <2>3, <2>4, <2>5 DEF Placed, op
<1>6. Placed(DropUploadMetadata[6], "down", 2, 6)
  <2> DEFINE op == DropUploadMetadata[6]
  <2>0. op = DropColumn("policy_versions", "original_filename")
    BY ONLY DEF DropUploadMetadata
  <2> HIDE DEF op
  <2>1. FormPlaced(op, "down", 2, 6)
    BY <2>0, AllTablesAre DEF FormPlaced, Refers
  <2>2. TablePlaced(op, "down", 2, 6)
    BY <2>0 DEF TablePlaced
  <2>3. ColumnPlaced(op, "down", 2, 6)
    BY <2>0, PolicyVersionsAre, MadePolicyVersions DEF ColumnPlaced, Makes, Has
  <2>4. KeyPlaced(op, "down", 2, 6)
    BY <2>0 DEF KeyPlaced
  <2>5. IndexPlaced(op, "down", 2, 6)
    BY <2>0 DEF IndexPlaced
  <2> QED BY ONLY <2>1, <2>2, <2>3, <2>4, <2>5 DEF Placed, op
<1>7. Placed(DropUploadMetadata[7], "down", 2, 7)
  <2> DEFINE op == DropUploadMetadata[7]
  <2>0. op = DropEnum("policy_document_file_type")
    BY ONLY DEF DropUploadMetadata
  <2> HIDE DEF op
  <2>1. FormPlaced(op, "down", 2, 7)
    BY <2>0 DEF FormPlaced
  <2>2. TablePlaced(op, "down", 2, 7)
    BY <2>0 DEF TablePlaced
  <2>3. ColumnPlaced(op, "down", 2, 7)
    BY <2>0 DEF ColumnPlaced
  <2>4. KeyPlaced(op, "down", 2, 7)
    BY <2>0 DEF KeyPlaced
  <2>5. IndexPlaced(op, "down", 2, 7)
    BY <2>0 DEF IndexPlaced
  <2> QED BY ONLY <2>1, <2>2, <2>3, <2>4, <2>5 DEF Placed, op
<1> QED BY ONLY <1>1, <1>2, <1>3, <1>4, <1>5, <1>6, <1>7

\* The statements of DropClauseHierarchy are in their places.
LEMMA DropClauseHierarchyPlaced == \A k \in 1..9 : Placed(DropClauseHierarchy[k], "down", 3, k)
<1>1. Placed(DropClauseHierarchy[1], "down", 3, 1)
  <2> DEFINE op == DropClauseHierarchy[1]
  <2>0. op = SetNullable("clauses", "clause_type", FALSE)
    BY ONLY DEF DropClauseHierarchy
  <2> HIDE DEF op
  <2>1. FormPlaced(op, "down", 3, 1)
    BY <2>0, AllTablesAre DEF FormPlaced, Blank
  <2>2. TablePlaced(op, "down", 3, 1)
    BY <2>0 DEF TablePlaced
  <2>3. ColumnPlaced(op, "down", 3, 1)
    BY <2>0, ClausesAre, MadeClauses DEF ColumnPlaced, Makes, Has
  <2>4. KeyPlaced(op, "down", 3, 1)
    BY <2>0 DEF KeyPlaced
  <2>5. IndexPlaced(op, "down", 3, 1)
    BY <2>0 DEF IndexPlaced
  <2> QED BY ONLY <2>1, <2>2, <2>3, <2>4, <2>5 DEF Placed, op
<1>2. Placed(DropClauseHierarchy[2], "down", 3, 2)
  <2> DEFINE op == DropClauseHierarchy[2]
  <2>0. op = SetNullable("clauses", "clause_number", FALSE)
    BY ONLY DEF DropClauseHierarchy
  <2> HIDE DEF op
  <2>1. FormPlaced(op, "down", 3, 2)
    BY <2>0, AllTablesAre DEF FormPlaced, Blank
  <2>2. TablePlaced(op, "down", 3, 2)
    BY <2>0 DEF TablePlaced
  <2>3. ColumnPlaced(op, "down", 3, 2)
    BY <2>0, ClausesAre, MadeClauses DEF ColumnPlaced, Makes, Has
  <2>4. KeyPlaced(op, "down", 3, 2)
    BY <2>0 DEF KeyPlaced
  <2>5. IndexPlaced(op, "down", 3, 2)
    BY <2>0 DEF IndexPlaced
  <2> QED BY ONLY <2>1, <2>2, <2>3, <2>4, <2>5 DEF Placed, op
<1>3. Placed(DropClauseHierarchy[3], "down", 3, 3)
  <2> DEFINE op == DropClauseHierarchy[3]
  <2>0. op = DropIndex("clauses_parent_clause_id_idx", "clauses")
    BY ONLY DEF DropClauseHierarchy
  <2> HIDE DEF op
  <2>1. FormPlaced(op, "down", 3, 3)
    BY <2>0, AllTablesAre DEF FormPlaced
  <2>2. TablePlaced(op, "down", 3, 3)
    BY <2>0 DEF TablePlaced
  <2>3. ColumnPlaced(op, "down", 3, 3)
    BY <2>0 DEF ColumnPlaced
  <2>4. KeyPlaced(op, "down", 3, 3)
    BY <2>0, AllTablesAre DEF KeyPlaced
  <2>5. IndexPlaced(op, "down", 3, 3)
    BY <2>0 DEF IndexPlaced
  <2> QED BY ONLY <2>1, <2>2, <2>3, <2>4, <2>5 DEF Placed, op
<1>4. Placed(DropClauseHierarchy[4], "down", 3, 4)
  <2> DEFINE op == DropClauseHierarchy[4]
  <2>0. op = DropConstraint("clauses_parent_not_self", "clauses")
    BY ONLY DEF DropClauseHierarchy
  <2> HIDE DEF op
  <2>1. FormPlaced(op, "down", 3, 4)
    BY <2>0, AllTablesAre DEF FormPlaced
  <2>2. TablePlaced(op, "down", 3, 4)
    BY <2>0 DEF TablePlaced
  <2>3. ColumnPlaced(op, "down", 3, 4)
    BY <2>0 DEF ColumnPlaced
  <2>4. KeyPlaced(op, "down", 3, 4)
    BY <2>0 DEF KeyPlaced
  <2>5. IndexPlaced(op, "down", 3, 4)
    BY <2>0 DEF IndexPlaced
  <2> QED BY ONLY <2>1, <2>2, <2>3, <2>4, <2>5 DEF Placed, op
<1>5. Placed(DropClauseHierarchy[5], "down", 3, 5)
  <2> DEFINE op == DropClauseHierarchy[5]
  <2>0. op = DropConstraint("clauses_parent_clause_id_fkey", "clauses")
    BY ONLY DEF DropClauseHierarchy
  <2> HIDE DEF op
  <2>1. FormPlaced(op, "down", 3, 5)
    BY <2>0, AllTablesAre DEF FormPlaced
  <2>2. TablePlaced(op, "down", 3, 5)
    BY <2>0 DEF TablePlaced
  <2>3. ColumnPlaced(op, "down", 3, 5)
    BY <2>0 DEF ColumnPlaced
  <2>4. KeyPlaced(op, "down", 3, 5)
    BY <2>0 DEF KeyPlaced
  <2>5. IndexPlaced(op, "down", 3, 5)
    BY <2>0 DEF IndexPlaced
  <2> QED BY ONLY <2>1, <2>2, <2>3, <2>4, <2>5 DEF Placed, op
<1>6. Placed(DropClauseHierarchy[6], "down", 3, 6)
  <2> DEFINE op == DropClauseHierarchy[6]
  <2>0. op = DropColumn("clauses", "parent_clause_id")
    BY ONLY DEF DropClauseHierarchy
  <2> HIDE DEF op
  <2>1. FormPlaced(op, "down", 3, 6)
    BY <2>0, AllTablesAre DEF FormPlaced, Refers
  <2>2. TablePlaced(op, "down", 3, 6)
    BY <2>0 DEF TablePlaced
  <2>3. ColumnPlaced(op, "down", 3, 6)
    BY <2>0, ClausesAre, MadeClauses DEF ColumnPlaced, Makes, Has
  <2>4. KeyPlaced(op, "down", 3, 6)
    BY <2>0 DEF KeyPlaced
  <2>5. IndexPlaced(op, "down", 3, 6)
    BY <2>0 DEF IndexPlaced
  <2> QED BY ONLY <2>1, <2>2, <2>3, <2>4, <2>5 DEF Placed, op
<1>7. Placed(DropClauseHierarchy[7], "down", 3, 7)
  <2> DEFINE op == DropClauseHierarchy[7]
  <2>0. op = DropIndex("clauses_policy_id_idx", "clauses")
    BY ONLY DEF DropClauseHierarchy
  <2> HIDE DEF op
  <2>1. FormPlaced(op, "down", 3, 7)
    BY <2>0, AllTablesAre DEF FormPlaced
  <2>2. TablePlaced(op, "down", 3, 7)
    BY <2>0 DEF TablePlaced
  <2>3. ColumnPlaced(op, "down", 3, 7)
    BY <2>0 DEF ColumnPlaced
  <2>4. KeyPlaced(op, "down", 3, 7)
    BY <2>0, AllTablesAre DEF KeyPlaced
  <2>5. IndexPlaced(op, "down", 3, 7)
    BY <2>0 DEF IndexPlaced
  <2> QED BY ONLY <2>1, <2>2, <2>3, <2>4, <2>5 DEF Placed, op
<1>8. Placed(DropClauseHierarchy[8], "down", 3, 8)
  <2> DEFINE op == DropClauseHierarchy[8]
  <2>0. op = DropConstraint("clauses_policy_id_fkey", "clauses")
    BY ONLY DEF DropClauseHierarchy
  <2> HIDE DEF op
  <2>1. FormPlaced(op, "down", 3, 8)
    BY <2>0, AllTablesAre DEF FormPlaced
  <2>2. TablePlaced(op, "down", 3, 8)
    BY <2>0 DEF TablePlaced
  <2>3. ColumnPlaced(op, "down", 3, 8)
    BY <2>0 DEF ColumnPlaced
  <2>4. KeyPlaced(op, "down", 3, 8)
    BY <2>0 DEF KeyPlaced
  <2>5. IndexPlaced(op, "down", 3, 8)
    BY <2>0 DEF IndexPlaced
  <2> QED BY ONLY <2>1, <2>2, <2>3, <2>4, <2>5 DEF Placed, op
<1>9. Placed(DropClauseHierarchy[9], "down", 3, 9)
  <2> DEFINE op == DropClauseHierarchy[9]
  <2>0. op = DropColumn("clauses", "policy_id")
    BY ONLY DEF DropClauseHierarchy
  <2> HIDE DEF op
  <2>1. FormPlaced(op, "down", 3, 9)
    BY <2>0, AllTablesAre DEF FormPlaced, Refers
  <2>2. TablePlaced(op, "down", 3, 9)
    BY <2>0 DEF TablePlaced
  <2>3. ColumnPlaced(op, "down", 3, 9)
    BY <2>0, ClausesAre, MadeClauses DEF ColumnPlaced, Makes, Has
  <2>4. KeyPlaced(op, "down", 3, 9)
    BY <2>0 DEF KeyPlaced
  <2>5. IndexPlaced(op, "down", 3, 9)
    BY <2>0 DEF IndexPlaced
  <2> QED BY ONLY <2>1, <2>2, <2>3, <2>4, <2>5 DEF Placed, op
<1> QED BY ONLY <1>1, <1>2, <1>3, <1>4, <1>5, <1>6, <1>7, <1>8, <1>9

\* The statements of DropExtractedText are in their places.
LEMMA DropExtractedTextPlaced == \A k \in 1..1 : Placed(DropExtractedText[k], "down", 4, k)
<1>1. Placed(DropExtractedText[1], "down", 4, 1)
  <2> DEFINE op == DropExtractedText[1]
  <2>0. op = DropColumn("policy_versions", "extracted_text")
    BY ONLY DEF DropExtractedText
  <2> HIDE DEF op
  <2>1. FormPlaced(op, "down", 4, 1)
    BY <2>0, AllTablesAre DEF FormPlaced, Refers
  <2>2. TablePlaced(op, "down", 4, 1)
    BY <2>0 DEF TablePlaced
  <2>3. ColumnPlaced(op, "down", 4, 1)
    BY <2>0, PolicyVersionsAre, MadePolicyVersions DEF ColumnPlaced, Makes, Has
  <2>4. KeyPlaced(op, "down", 4, 1)
    BY <2>0 DEF KeyPlaced
  <2>5. IndexPlaced(op, "down", 4, 1)
    BY <2>0 DEF IndexPlaced
  <2> QED BY ONLY <2>1, <2>2, <2>3, <2>4, <2>5 DEF Placed, op
<1> QED BY ONLY <1>1

\* The statements of RestoreObligations are in their places.
LEMMA RestoreObligationsPlaced == \A k \in 1..4 : Placed(RestoreObligations[k], "down", 5, k)
<1>1. Placed(RestoreObligations[1], "down", 5, 1)
  <2> DEFINE op == RestoreObligations[1]
  <2>0. op = DropIndex("obligations_policy_id_idx", "obligations")
    BY ONLY DEF RestoreObligations
  <2> HIDE DEF op
  <2>1. FormPlaced(op, "down", 5, 1)
    BY <2>0, AllTablesAre DEF FormPlaced
  <2>2. TablePlaced(op, "down", 5, 1)
    BY <2>0 DEF TablePlaced
  <2>3. ColumnPlaced(op, "down", 5, 1)
    BY <2>0 DEF ColumnPlaced
  <2>4. KeyPlaced(op, "down", 5, 1)
    BY <2>0, AllTablesAre DEF KeyPlaced
  <2>5. IndexPlaced(op, "down", 5, 1)
    BY <2>0 DEF IndexPlaced
  <2> QED BY ONLY <2>1, <2>2, <2>3, <2>4, <2>5 DEF Placed, op
<1>2. Placed(RestoreObligations[2], "down", 5, 2)
  <2> DEFINE op == RestoreObligations[2]
  <2>0. op = DropIndex("obligations_clause_id_idx", "obligations")
    BY ONLY DEF RestoreObligations
  <2> HIDE DEF op
  <2>1. FormPlaced(op, "down", 5, 2)
    BY <2>0, AllTablesAre DEF FormPlaced
  <2>2. TablePlaced(op, "down", 5, 2)
    BY <2>0 DEF TablePlaced
  <2>3. ColumnPlaced(op, "down", 5, 2)
    BY <2>0 DEF ColumnPlaced
  <2>4. KeyPlaced(op, "down", 5, 2)
    BY <2>0, AllTablesAre DEF KeyPlaced
  <2>5. IndexPlaced(op, "down", 5, 2)
    BY <2>0 DEF IndexPlaced
  <2> QED BY ONLY <2>1, <2>2, <2>3, <2>4, <2>5 DEF Placed, op
<1>3. Placed(RestoreObligations[3], "down", 5, 3)
  <2> DEFINE op == RestoreObligations[3]
  <2>0. op = DropTable("obligations")
    BY ONLY DEF RestoreObligations
  <2> HIDE DEF op
  <2>1. FormPlaced(op, "down", 5, 3)
    BY <2>0, AllTablesAre DEF FormPlaced
  <2>2. TablePlaced(op, "down", 5, 3)
    BY <2>0 DEF TablePlaced, Points
  <2>3. ColumnPlaced(op, "down", 5, 3)
    BY <2>0 DEF ColumnPlaced
  <2>4. KeyPlaced(op, "down", 5, 3)
    BY <2>0 DEF KeyPlaced
  <2>5. IndexPlaced(op, "down", 5, 3)
    BY <2>0 DEF IndexPlaced
  <2> QED BY ONLY <2>1, <2>2, <2>3, <2>4, <2>5 DEF Placed, op
<1>4. Placed(RestoreObligations[4], "down", 5, 4)
  <2> DEFINE op == RestoreObligations[4]
  <2>0. Makes(op, "obligations",
               {"deleted_at", "id", "clause_id", "description", "action_required",
                "deadline_type", "priority", "status", "created_at", "updated_at",
                "responsible_department_id", "deadline_expression"},
               {"deleted_at", "responsible_department_id", "deadline_expression"},
               {},
               [deadline_type |-> "obligation_deadline_type", priority |-> "obligation_priority",
               status |-> "obligation_status"],
               {<<"clause_id", "clauses">>, <<"responsible_department_id", "departments">>})
    BY ONLY RestoredObligationsAre
  <2> HIDE DEF op
  <2>1. FormPlaced(op, "down", 5, 4)
    BY <2>0, AllTablesAre, OldObligationsAre, MadeObligations DEF FormPlaced, Makes, Has, Refers, Others, Blank
  <2>2. TablePlaced(op, "down", 5, 4)
    BY <2>0 DEF TablePlaced, Makes, Has
  <2>3. ColumnPlaced(op, "down", 5, 4)
    BY <2>0 DEF ColumnPlaced, Makes
  <2>4. KeyPlaced(op, "down", 5, 4)
    BY <2>0 DEF KeyPlaced, Makes
  <2>5. IndexPlaced(op, "down", 5, 4)
    BY <2>0 DEF IndexPlaced, Makes
  <2> QED BY ONLY <2>1, <2>2, <2>3, <2>4, <2>5 DEF Placed, op
<1> QED BY ONLY <1>1, <1>2, <1>3, <1>4

\* The statements of DropConflicts are in their places.
LEMMA DropConflictsPlaced == \A k \in 1..4 : Placed(DropConflicts[k], "down", 6, k)
<1>1. Placed(DropConflicts[1], "down", 6, 1)
  <2> DEFINE op == DropConflicts[1]
  <2>0. op = DropIndex("ix_conflicts_status", "conflicts")
    BY ONLY DEF DropConflicts
  <2> HIDE DEF op
  <2>1. FormPlaced(op, "down", 6, 1)
    BY <2>0, AllTablesAre DEF FormPlaced
  <2>2. TablePlaced(op, "down", 6, 1)
    BY <2>0 DEF TablePlaced
  <2>3. ColumnPlaced(op, "down", 6, 1)
    BY <2>0 DEF ColumnPlaced
  <2>4. KeyPlaced(op, "down", 6, 1)
    BY <2>0, AllTablesAre DEF KeyPlaced
  <2>5. IndexPlaced(op, "down", 6, 1)
    BY <2>0 DEF IndexPlaced
  <2> QED BY ONLY <2>1, <2>2, <2>3, <2>4, <2>5 DEF Placed, op
<1>2. Placed(DropConflicts[2], "down", 6, 2)
  <2> DEFINE op == DropConflicts[2]
  <2>0. op = DropIndex("ix_conflicts_target_policy_id", "conflicts")
    BY ONLY DEF DropConflicts
  <2> HIDE DEF op
  <2>1. FormPlaced(op, "down", 6, 2)
    BY <2>0, AllTablesAre DEF FormPlaced
  <2>2. TablePlaced(op, "down", 6, 2)
    BY <2>0 DEF TablePlaced
  <2>3. ColumnPlaced(op, "down", 6, 2)
    BY <2>0 DEF ColumnPlaced
  <2>4. KeyPlaced(op, "down", 6, 2)
    BY <2>0, AllTablesAre DEF KeyPlaced
  <2>5. IndexPlaced(op, "down", 6, 2)
    BY <2>0 DEF IndexPlaced
  <2> QED BY ONLY <2>1, <2>2, <2>3, <2>4, <2>5 DEF Placed, op
<1>3. Placed(DropConflicts[3], "down", 6, 3)
  <2> DEFINE op == DropConflicts[3]
  <2>0. op = DropIndex("ix_conflicts_source_policy_id", "conflicts")
    BY ONLY DEF DropConflicts
  <2> HIDE DEF op
  <2>1. FormPlaced(op, "down", 6, 3)
    BY <2>0, AllTablesAre DEF FormPlaced
  <2>2. TablePlaced(op, "down", 6, 3)
    BY <2>0 DEF TablePlaced
  <2>3. ColumnPlaced(op, "down", 6, 3)
    BY <2>0 DEF ColumnPlaced
  <2>4. KeyPlaced(op, "down", 6, 3)
    BY <2>0, AllTablesAre DEF KeyPlaced
  <2>5. IndexPlaced(op, "down", 6, 3)
    BY <2>0 DEF IndexPlaced
  <2> QED BY ONLY <2>1, <2>2, <2>3, <2>4, <2>5 DEF Placed, op
<1>4. Placed(DropConflicts[4], "down", 6, 4)
  <2> DEFINE op == DropConflicts[4]
  <2>0. op = DropTable("conflicts")
    BY ONLY DEF DropConflicts
  <2> HIDE DEF op
  <2>1. FormPlaced(op, "down", 6, 4)
    BY <2>0, AllTablesAre DEF FormPlaced
  <2>2. TablePlaced(op, "down", 6, 4)
    BY <2>0 DEF TablePlaced, Points
  <2>3. ColumnPlaced(op, "down", 6, 4)
    BY <2>0 DEF ColumnPlaced
  <2>4. KeyPlaced(op, "down", 6, 4)
    BY <2>0 DEF KeyPlaced
  <2>5. IndexPlaced(op, "down", 6, 4)
    BY <2>0 DEF IndexPlaced
  <2> QED BY ONLY <2>1, <2>2, <2>3, <2>4, <2>5 DEF Placed, op
<1> QED BY ONLY <1>1, <1>2, <1>3, <1>4

\* The statements of DropRecommendations are in their places.
LEMMA DropRecommendationsPlaced == \A k \in 1..3 : Placed(DropRecommendations[k], "down", 7, k)
<1>1. Placed(DropRecommendations[1], "down", 7, 1)
  <2> DEFINE op == DropRecommendations[1]
  <2>0. op = DropIndex("ix_recommendations_status", "recommendations")
    BY ONLY DEF DropRecommendations
  <2> HIDE DEF op
  <2>1. FormPlaced(op, "down", 7, 1)
    BY <2>0, AllTablesAre DEF FormPlaced
  <2>2. TablePlaced(op, "down", 7, 1)
    BY <2>0 DEF TablePlaced
  <2>3. ColumnPlaced(op, "down", 7, 1)
    BY <2>0 DEF ColumnPlaced
  <2>4. KeyPlaced(op, "down", 7, 1)
    BY <2>0, AllTablesAre DEF KeyPlaced
  <2>5. IndexPlaced(op, "down", 7, 1)
    BY <2>0 DEF IndexPlaced
  <2> QED BY ONLY <2>1, <2>2, <2>3, <2>4, <2>5 DEF Placed, op
<1>2. Placed(DropRecommendations[2], "down", 7, 2)
  <2> DEFINE op == DropRecommendations[2]
  <2>0. op = DropIndex("ix_recommendations_conflict_id", "recommendations")
    BY ONLY DEF DropRecommendations
  <2> HIDE DEF op
  <2>1. FormPlaced(op, "down", 7, 2)
    BY <2>0, AllTablesAre DEF FormPlaced
  <2>2. TablePlaced(op, "down", 7, 2)
    BY <2>0 DEF TablePlaced
  <2>3. ColumnPlaced(op, "down", 7, 2)
    BY <2>0 DEF ColumnPlaced
  <2>4. KeyPlaced(op, "down", 7, 2)
    BY <2>0, AllTablesAre DEF KeyPlaced
  <2>5. IndexPlaced(op, "down", 7, 2)
    BY <2>0 DEF IndexPlaced
  <2> QED BY ONLY <2>1, <2>2, <2>3, <2>4, <2>5 DEF Placed, op
<1>3. Placed(DropRecommendations[3], "down", 7, 3)
  <2> DEFINE op == DropRecommendations[3]
  <2>0. op = DropTable("recommendations")
    BY ONLY DEF DropRecommendations
  <2> HIDE DEF op
  <2>1. FormPlaced(op, "down", 7, 3)
    BY <2>0, AllTablesAre DEF FormPlaced
  <2>2. TablePlaced(op, "down", 7, 3)
    BY <2>0 DEF TablePlaced, Points
  <2>3. ColumnPlaced(op, "down", 7, 3)
    BY <2>0 DEF ColumnPlaced
  <2>4. KeyPlaced(op, "down", 7, 3)
    BY <2>0 DEF KeyPlaced
  <2>5. IndexPlaced(op, "down", 7, 3)
    BY <2>0 DEF IndexPlaced
  <2> QED BY ONLY <2>1, <2>2, <2>3, <2>4, <2>5 DEF Placed, op
<1> QED BY ONLY <1>1, <1>2, <1>3

\* The statements of DropComplianceAuditLogs are in their places.
LEMMA DropComplianceAuditLogsPlaced == \A k \in 1..3 : Placed(DropComplianceAuditLogs[k], "down", 8, k)
<1>1. Placed(DropComplianceAuditLogs[1], "down", 8, 1)
  <2> DEFINE op == DropComplianceAuditLogs[1]
  <2>0. op = DropIndex("ix_compliance_audit_logs_event_type", "compliance_audit_logs")
    BY ONLY DEF DropComplianceAuditLogs
  <2> HIDE DEF op
  <2>1. FormPlaced(op, "down", 8, 1)
    BY <2>0, AllTablesAre DEF FormPlaced
  <2>2. TablePlaced(op, "down", 8, 1)
    BY <2>0 DEF TablePlaced
  <2>3. ColumnPlaced(op, "down", 8, 1)
    BY <2>0 DEF ColumnPlaced
  <2>4. KeyPlaced(op, "down", 8, 1)
    BY <2>0, AllTablesAre DEF KeyPlaced
  <2>5. IndexPlaced(op, "down", 8, 1)
    BY <2>0 DEF IndexPlaced
  <2> QED BY ONLY <2>1, <2>2, <2>3, <2>4, <2>5 DEF Placed, op
<1>2. Placed(DropComplianceAuditLogs[2], "down", 8, 2)
  <2> DEFINE op == DropComplianceAuditLogs[2]
  <2>0. op = DropIndex("ix_compliance_audit_logs_company_id", "compliance_audit_logs")
    BY ONLY DEF DropComplianceAuditLogs
  <2> HIDE DEF op
  <2>1. FormPlaced(op, "down", 8, 2)
    BY <2>0, AllTablesAre DEF FormPlaced
  <2>2. TablePlaced(op, "down", 8, 2)
    BY <2>0 DEF TablePlaced
  <2>3. ColumnPlaced(op, "down", 8, 2)
    BY <2>0 DEF ColumnPlaced
  <2>4. KeyPlaced(op, "down", 8, 2)
    BY <2>0, AllTablesAre DEF KeyPlaced
  <2>5. IndexPlaced(op, "down", 8, 2)
    BY <2>0 DEF IndexPlaced
  <2> QED BY ONLY <2>1, <2>2, <2>3, <2>4, <2>5 DEF Placed, op
<1>3. Placed(DropComplianceAuditLogs[3], "down", 8, 3)
  <2> DEFINE op == DropComplianceAuditLogs[3]
  <2>0. op = DropTable("compliance_audit_logs")
    BY ONLY DEF DropComplianceAuditLogs
  <2> HIDE DEF op
  <2>1. FormPlaced(op, "down", 8, 3)
    BY <2>0, AllTablesAre DEF FormPlaced
  <2>2. TablePlaced(op, "down", 8, 3)
    BY <2>0 DEF TablePlaced, Points
  <2>3. ColumnPlaced(op, "down", 8, 3)
    BY <2>0 DEF ColumnPlaced
  <2>4. KeyPlaced(op, "down", 8, 3)
    BY <2>0 DEF KeyPlaced
  <2>5. IndexPlaced(op, "down", 8, 3)
    BY <2>0 DEF IndexPlaced
  <2> QED BY ONLY <2>1, <2>2, <2>3, <2>4, <2>5 DEF Placed, op
<1> QED BY ONLY <1>1, <1>2, <1>3

\* The statements of DropReviewFields are in their places.
LEMMA DropReviewFieldsPlaced == \A k \in 1..3 : Placed(DropReviewFields[k], "down", 9, k)
<1>1. Placed(DropReviewFields[1], "down", 9, 1)
  <2> DEFINE op == DropReviewFields[1]
  <2>0. op = DropColumn("recommendations", "review_comments")
    BY ONLY DEF DropReviewFields
  <2> HIDE DEF op
  <2>1. FormPlaced(op, "down", 9, 1)
    BY <2>0, AllTablesAre DEF FormPlaced, Refers
  <2>2. TablePlaced(op, "down", 9, 1)
    BY <2>0 DEF TablePlaced
  <2>3. ColumnPlaced(op, "down", 9, 1)
    BY <2>0, RecommendationsAre, MadeRecommendations DEF ColumnPlaced, Makes, Has
  <2>4. KeyPlaced(op, "down", 9, 1)
    BY <2>0 DEF KeyPlaced
  <2>5. IndexPlaced(op, "down", 9, 1)
    BY <2>0 DEF IndexPlaced
  <2> QED BY ONLY <2>1, <2>2, <2>3, <2>4, <2>5 DEF Placed, op
<1>2. Placed(DropReviewFields[2], "down", 9, 2)
  <2> DEFINE op == DropReviewFields[2]
  <2>0. op = DropColumn("recommendations", "reviewed_at")
    BY ONLY DEF DropReviewFields
  <2> HIDE DEF op
  <2>1. FormPlaced(op, "down", 9, 2)
    BY <2>0, AllTablesAre DEF FormPlaced, Refers
  <2>2. TablePlaced(op, "down", 9, 2)
    BY <2>0 DEF TablePlaced
  <2>3. ColumnPlaced(op, "down", 9, 2)
    BY <2>0, RecommendationsAre, MadeRecommendations DEF ColumnPlaced, Makes, Has
  <2>4. KeyPlaced(op, "down", 9, 2)
    BY <2>0 DEF KeyPlaced
  <2>5. IndexPlaced(op, "down", 9, 2)
    BY <2>0 DEF IndexPlaced
  <2> QED BY ONLY <2>1, <2>2, <2>3, <2>4, <2>5 DEF Placed, op
<1>3. Placed(DropReviewFields[3], "down", 9, 3)
  <2> DEFINE op == DropReviewFields[3]
  <2>0. op = DropColumn("recommendations", "reviewer_name")
    BY ONLY DEF DropReviewFields
  <2> HIDE DEF op
  <2>1. FormPlaced(op, "down", 9, 3)
    BY <2>0, AllTablesAre DEF FormPlaced, Refers
  <2>2. TablePlaced(op, "down", 9, 3)
    BY <2>0 DEF TablePlaced
  <2>3. ColumnPlaced(op, "down", 9, 3)
    BY <2>0, RecommendationsAre, MadeRecommendations DEF ColumnPlaced, Makes, Has
  <2>4. KeyPlaced(op, "down", 9, 3)
    BY <2>0 DEF KeyPlaced
  <2>5. IndexPlaced(op, "down", 9, 3)
    BY <2>0 DEF IndexPlaced
  <2> QED BY ONLY <2>1, <2>2, <2>3, <2>4, <2>5 DEF Placed, op
<1> QED BY ONLY <1>1, <1>2, <1>3

\* The statements of DropRelationshipColumns are in their places.
LEMMA DropRelationshipColumnsPlaced == \A k \in 1..3 : Placed(DropRelationshipColumns[k], "down", 10, k)
<1>1. Placed(DropRelationshipColumns[1], "down", 10, 1)
  <2> DEFINE op == DropRelationshipColumns[1]
  <2>0. op = DropColumn("conflicts", "confidence_score")
    BY ONLY DEF DropRelationshipColumns
  <2> HIDE DEF op
  <2>1. FormPlaced(op, "down", 10, 1)
    BY <2>0, AllTablesAre DEF FormPlaced, Refers
  <2>2. TablePlaced(op, "down", 10, 1)
    BY <2>0 DEF TablePlaced
  <2>3. ColumnPlaced(op, "down", 10, 1)
    BY <2>0, ConflictsAre, MadeConflicts DEF ColumnPlaced, Makes, Has
  <2>4. KeyPlaced(op, "down", 10, 1)
    BY <2>0 DEF KeyPlaced
  <2>5. IndexPlaced(op, "down", 10, 1)
    BY <2>0 DEF IndexPlaced
  <2> QED BY ONLY <2>1, <2>2, <2>3, <2>4, <2>5 DEF Placed, op
<1>2. Placed(DropRelationshipColumns[2], "down", 10, 2)
  <2> DEFINE op == DropRelationshipColumns[2]
  <2>0. op = DropColumn("conflicts", "explanation")
    BY ONLY DEF DropRelationshipColumns
  <2> HIDE DEF op
  <2>1. FormPlaced(op, "down", 10, 2)
    BY <2>0, AllTablesAre DEF FormPlaced, Refers
  <2>2. TablePlaced(op, "down", 10, 2)
    BY <2>0 DEF TablePlaced
  <2>3. ColumnPlaced(op, "down", 10, 2)
    BY <2>0, ConflictsAre, MadeConflicts DEF ColumnPlaced, Makes, Has
  <2>4. KeyPlaced(op, "down", 10, 2)
    BY <2>0 DEF KeyPlaced
  <2>5. IndexPlaced(op, "down", 10, 2)
    BY <2>0 DEF IndexPlaced
  <2> QED BY ONLY <2>1, <2>2, <2>3, <2>4, <2>5 DEF Placed, op
<1>3. Placed(DropRelationshipColumns[3], "down", 10, 3)
  <2> DEFINE op == DropRelationshipColumns[3]
  <2>0. op = DropColumn("conflicts", "relationship_type")
    BY ONLY DEF DropRelationshipColumns
  <2> HIDE DEF op
  <2>1. FormPlaced(op, "down", 10, 3)
    BY <2>0, AllTablesAre DEF FormPlaced, Refers
  <2>2. TablePlaced(op, "down", 10, 3)
    BY <2>0 DEF TablePlaced
  <2>3. ColumnPlaced(op, "down", 10, 3)
    BY <2>0, ConflictsAre, MadeConflicts DEF ColumnPlaced, Makes, Has
  <2>4. KeyPlaced(op, "down", 10, 3)
    BY <2>0 DEF KeyPlaced
  <2>5. IndexPlaced(op, "down", 10, 3)
    BY <2>0 DEF IndexPlaced
  <2> QED BY ONLY <2>1, <2>2, <2>3, <2>4, <2>5 DEF Placed, op
<1> QED BY ONLY <1>1, <1>2, <1>3

\* The statements of DropFindingsColumns are in their places.
LEMMA DropFindingsColumnsPlaced == \A k \in 1..4 : Placed(DropFindingsColumns[k], "down", 11, k)
<1>1. Placed(DropFindingsColumns[1], "down", 11, 1)
  <2> DEFINE op == DropFindingsColumns[1]
  <2>0. op = DropColumn("conflicts", "detected_parameters")
    BY ONLY DEF DropFindingsColumns
  <2> HIDE DEF op
  <2>1. FormPlaced(op, "down", 11, 1)
    BY <2>0, AllTablesAre DEF FormPlaced, Refers
  <2>2. TablePlaced(op, "down", 11, 1)
    BY <2>0 DEF TablePlaced
  <2>3. ColumnPlaced(op, "down", 11, 1)
    BY <2>0, ConflictsAre, MadeConflicts DEF ColumnPlaced, Makes, Has
  <2>4. KeyPlaced(op, "down", 11, 1)
    BY <2>0 DEF KeyPlaced
  <2>5. IndexPlaced(op, "down", 11, 1)
    BY <2>0 DEF IndexPlaced
  <2> QED BY ONLY <2>1, <2>2, <2>3, <2>4, <2>5 DEF Placed, op
<1>2. Placed(DropFindingsColumns[2], "down", 11, 2)
  <2> DEFINE op == DropFindingsColumns[2]
  <2>0. op = DropColumn("conflicts", "staleness_status")
    BY ONLY DEF DropFindingsColumns
  <2> HIDE DEF op
  <2>1. FormPlaced(op, "down", 11, 2)
    BY <2>0, AllTablesAre DEF FormPlaced, Refers
  <2>2. TablePlaced(op, "down", 11, 2)
    BY <2>0 DEF TablePlaced
  <2>3. ColumnPlaced(op, "down", 11, 2)
    BY <2>0, ConflictsAre, MadeConflicts DEF ColumnPlaced, Makes, Has
  <2>4. KeyPlaced(op, "down", 11, 2)
    BY <2>0 DEF KeyPlaced
  <2>5. IndexPlaced(op, "down", 11, 2)
    BY <2>0 DEF IndexPlaced
  <2> QED BY ONLY <2>1, <2>2, <2>3, <2>4, <2>5 DEF Placed, op
<1>3. Placed(DropFindingsColumns[3], "down", 11, 3)
  <2> DEFINE op == DropFindingsColumns[3]
  <2>0. op = DropColumn("conflicts", "strength_conflict")
    BY ONLY DEF DropFindingsColumns
  <2> HIDE DEF op
  <2>1. FormPlaced(op, "down", 11, 3)
    BY <2>0, AllTablesAre DEF FormPlaced, Refers
  <2>2. TablePlaced(op, "down", 11, 3)
    BY <2>0 DEF TablePlaced
  <2>3. ColumnPlaced(op, "down", 11, 3)
    BY <2>0, ConflictsAre, MadeConflicts DEF ColumnPlaced, Makes, Has
  <2>4. KeyPlaced(op, "down", 11, 3)
    BY <2>0 DEF KeyPlaced
  <2>5. IndexPlaced(op, "down", 11, 3)
    BY <2>0 DEF IndexPlaced
  <2> QED BY ONLY <2>1, <2>2, <2>3, <2>4, <2>5 DEF Placed, op
<1>4. Placed(DropFindingsColumns[4], "down", 11, 4)
  <2> DEFINE op == DropFindingsColumns[4]
  <2>0. op = DropColumn("conflicts", "temporal_conflict")
    BY ONLY DEF DropFindingsColumns
  <2> HIDE DEF op
  <2>1. FormPlaced(op, "down", 11, 4)
    BY <2>0, AllTablesAre DEF FormPlaced, Refers
  <2>2. TablePlaced(op, "down", 11, 4)
    BY <2>0 DEF TablePlaced
  <2>3. ColumnPlaced(op, "down", 11, 4)
    BY <2>0, ConflictsAre, MadeConflicts DEF ColumnPlaced, Makes, Has
  <2>4. KeyPlaced(op, "down", 11, 4)
    BY <2>0 DEF KeyPlaced
  <2>5. IndexPlaced(op, "down", 11, 4)
    BY <2>0 DEF IndexPlaced
  <2> QED BY ONLY <2>1, <2>2, <2>3, <2>4, <2>5 DEF Placed, op
<1> QED BY ONLY <1>1, <1>2, <1>3, <1>4

\* The statements of DropRegulatoryMappings are in their places.
LEMMA DropRegulatoryMappingsPlaced == \A k \in 1..1 : Placed(DropRegulatoryMappings[k], "down", 12, k)
<1>1. Placed(DropRegulatoryMappings[1], "down", 12, 1)
  <2> DEFINE op == DropRegulatoryMappings[1]
  <2>0. op = DropTable("regulatory_mappings")
    BY ONLY DEF DropRegulatoryMappings
  <2> HIDE DEF op
  <2>1. FormPlaced(op, "down", 12, 1)
    BY <2>0, AllTablesAre DEF FormPlaced
  <2>2. TablePlaced(op, "down", 12, 1)
    BY <2>0 DEF TablePlaced, Points
  <2>3. ColumnPlaced(op, "down", 12, 1)
    BY <2>0 DEF ColumnPlaced
  <2>4. KeyPlaced(op, "down", 12, 1)
    BY <2>0 DEF KeyPlaced
  <2>5. IndexPlaced(op, "down", 12, 1)
    BY <2>0 DEF IndexPlaced
  <2> QED BY ONLY <2>1, <2>2, <2>3, <2>4, <2>5 DEF Placed, op
<1> QED BY ONLY <1>1

\* The statements of DropStoredFiles are in their places.
LEMMA DropStoredFilesPlaced == \A k \in 1..1 : Placed(DropStoredFiles[k], "down", 13, k)
<1>1. Placed(DropStoredFiles[1], "down", 13, 1)
  <2> DEFINE op == DropStoredFiles[1]
  <2>0. op = DropTable("stored_files")
    BY ONLY DEF DropStoredFiles
  <2> HIDE DEF op
  <2>1. FormPlaced(op, "down", 13, 1)
    BY <2>0, AllTablesAre DEF FormPlaced
  <2>2. TablePlaced(op, "down", 13, 1)
    BY <2>0 DEF TablePlaced, Points
  <2>3. ColumnPlaced(op, "down", 13, 1)
    BY <2>0 DEF ColumnPlaced
  <2>4. KeyPlaced(op, "down", 13, 1)
    BY <2>0 DEF KeyPlaced
  <2>5. IndexPlaced(op, "down", 13, 1)
    BY <2>0 DEF IndexPlaced
  <2> QED BY ONLY <2>1, <2>2, <2>3, <2>4, <2>5 DEF Placed, op
<1> QED BY ONLY <1>1

\* The statements of RestoreVersionNumberKey are in their places.
LEMMA RestoreVersionNumberKeyPlaced == \A k \in 1..1 : Placed(RestoreVersionNumberKey[k], "down", 14, k)
<1>1. Placed(RestoreVersionNumberKey[1], "down", 14, 1)
  <2> DEFINE op == RestoreVersionNumberKey[1]
  <2>0. op = UniqueIndex("clauses_version_number_key", "clauses", {"policy_version_id",
             "clause_number"})
    BY ONLY DEF RestoreVersionNumberKey
  <2> HIDE DEF op
  <2>1. FormPlaced(op, "down", 14, 1)
    BY <2>0, AllTablesAre DEF FormPlaced
  <2>2. TablePlaced(op, "down", 14, 1)
    BY <2>0 DEF TablePlaced
  <2>3. ColumnPlaced(op, "down", 14, 1)
    BY <2>0, ClausesAre, MadeClauses DEF ColumnPlaced, Makes, Has
  <2>4. KeyPlaced(op, "down", 14, 1)
    BY <2>0, AllTablesAre DEF KeyPlaced
  <2>5. IndexPlaced(op, "down", 14, 1)
    BY <2>0 DEF IndexPlaced
  <2> QED BY ONLY <2>1, <2>2, <2>3, <2>4, <2>5 DEF Placed, op
<1> QED BY ONLY <1>1

HIDE DEF Stands, Regular, OnTable, AltersTable, ReadyTable, ReadyColumn, ReadyOther, MovesTables,
         MakesTable, MovesColumns, MovesKeys, MovesIndexes, MovesEnums, Creates, Drops, OnColumn,
         RemovesIndex, IsNew, OldGone, HasTable, LateColumn, Loose, HasCheck, HasKey, VersionKey,
         NamedIndex, HasIndex, Unsure, Early, DocumentType, HasEnum, HasRuleBased, HasFunction,
         Column, IsMade, DroppedIndexes, AddNullable, AddColumn, UpdatedAtTrigger, Trigger,
         SetNullable, Index, UniqueIndex, DropIndex, ForeignKey, Check, DropConstraint,
         CreateFunction, DropFunction, CreateEnum, AddLabel, DropEnum, DropTable, DropColumn,
         Backfill

-----------------------------------------------------------------------------
(* The scripts as a whole.                                                 *)

\* Statements of AddUploadMetadata.
LEMMA AddUploadMetadataLength == Len(AddUploadMetadata) = 7
BY DEF AddUploadMetadata

\* Statements of AddClauseHierarchy.
LEMMA AddClauseHierarchyLength == Len(AddClauseHierarchy) = 12
BY DEF AddClauseHierarchy

\* Statements of AddExtractedText.
LEMMA AddExtractedTextLength == Len(AddExtractedText) = 1
BY DEF AddExtractedText

\* Statements of RecreateObligations.
LEMMA RecreateObligationsLength == Len(RecreateObligations) = 4
BY DEF RecreateObligations

\* Statements of CreateConflicts.
LEMMA CreateConflictsLength == Len(CreateConflicts) = 4
BY DEF CreateConflicts

\* Statements of CreateRecommendations.
LEMMA CreateRecommendationsLength == Len(CreateRecommendations) = 3
BY DEF CreateRecommendations

\* Statements of CreateComplianceAuditLogs.
LEMMA CreateComplianceAuditLogsLength == Len(CreateComplianceAuditLogs) = 3
BY DEF CreateComplianceAuditLogs

\* Statements of AddReviewFields.
LEMMA AddReviewFieldsLength == Len(AddReviewFields) = 3
BY DEF AddReviewFields

\* Statements of AddRelationshipColumns.
LEMMA AddRelationshipColumnsLength == Len(AddRelationshipColumns) = 3
BY DEF AddRelationshipColumns

\* Statements of AddFindingsColumns.
LEMMA AddFindingsColumnsLength == Len(AddFindingsColumns) = 4
BY DEF AddFindingsColumns

\* Statements of CreateRegulatoryMappings.
LEMMA CreateRegulatoryMappingsLength == Len(CreateRegulatoryMappings) = 1
BY DEF CreateRegulatoryMappings

\* Statements of CreateStoredFiles.
LEMMA CreateStoredFilesLength == Len(CreateStoredFiles) = 1
BY DEF CreateStoredFiles

\* Statements of RemoveVersionNumberKey.
LEMMA RemoveVersionNumberKeyLength == Len(RemoveVersionNumberKey) = 1
BY DEF RemoveVersionNumberKey

\* Statements of DropUploadMetadata.
LEMMA DropUploadMetadataLength == Len(DropUploadMetadata) = 7
BY DEF DropUploadMetadata

\* Statements of DropClauseHierarchy.
LEMMA DropClauseHierarchyLength == Len(DropClauseHierarchy) = 9
BY DEF DropClauseHierarchy

\* Statements of DropExtractedText.
LEMMA DropExtractedTextLength == Len(DropExtractedText) = 1
BY DEF DropExtractedText

\* Statements of RestoreObligations.
LEMMA RestoreObligationsLength == Len(RestoreObligations) = 4
BY DEF RestoreObligations

\* Statements of DropConflicts.
LEMMA DropConflictsLength == Len(DropConflicts) = 4
BY DEF DropConflicts

\* Statements of DropRecommendations.
LEMMA DropRecommendationsLength == Len(DropRecommendations) = 3
BY DEF DropRecommendations

\* Statements of DropComplianceAuditLogs.
LEMMA DropComplianceAuditLogsLength == Len(DropComplianceAuditLogs) = 3
BY DEF DropComplianceAuditLogs

\* Statements of DropReviewFields.
LEMMA DropReviewFieldsLength == Len(DropReviewFields) = 3
BY DEF DropReviewFields

\* Statements of DropRelationshipColumns.
LEMMA DropRelationshipColumnsLength == Len(DropRelationshipColumns) = 3
BY DEF DropRelationshipColumns

\* Statements of DropFindingsColumns.
LEMMA DropFindingsColumnsLength == Len(DropFindingsColumns) = 4
BY DEF DropFindingsColumns

\* Statements of DropRegulatoryMappings.
LEMMA DropRegulatoryMappingsLength == Len(DropRegulatoryMappings) = 1
BY DEF DropRegulatoryMappings

\* Statements of DropStoredFiles.
LEMMA DropStoredFilesLength == Len(DropStoredFiles) = 1
BY DEF DropStoredFiles

\* Statements of RestoreVersionNumberKey.
LEMMA RestoreVersionNumberKeyLength == Len(RestoreVersionNumberKey) = 1
BY DEF RestoreVersionNumberKey

\* The initial upgrade, part by part.
LEMMA InitialUpgradePlaced == \A n \in 1..90 : Placed(InitialUpgrade[n], "up", 0, n)
<1>1. \A n \in 1..16 : Placed(InitialUpgrade[n], "up", 0, n)
  <2>1. \A k \in 1..16 : InitialUpgrade[0 + k] = AllEnums[k]
    BY InitialUpgradeIs, AllEnumsLength DEF StartsAt
  <2>2. \A k \in 1..16 : Placed(InitialUpgrade[0 + k], "up", 0, 0 + k)
    BY <2>1, AllEnumsPlaced
  <2>3. ASSUME NEW n \in 1..16 PROVE Placed(InitialUpgrade[n], "up", 0, n)
    <3>1. n - 0 \in 1..16 /\ 0 + (n - 0) = n
      OBVIOUS
    <3> QED BY <2>2, <3>1
  <2> QED BY <2>3
<1>2. \A n \in 17..18 : Placed(InitialUpgrade[n], "up", 0, n)
  <2>1. \A k \in 1..2 : InitialUpgrade[16 + k] = Functions[k]
    BY InitialUpgradeIs, FunctionsLength DEF StartsAt
  <2>2. \A k \in 1..2 : Placed(InitialUpgrade[16 + k], "up", 0, 16 + k)
    BY <2>1, FunctionsPlaced
  <2>3. ASSUME NEW n \in 17..18 PROVE Placed(InitialUpgrade[n], "up", 0, n)
    <3>1. n - 16 \in 1..2 /\ 16 + (n - 16) = n
      OBVIOUS
    <3> QED BY <2>2, <3>1
  <2> QED BY <2>3
<1>3. \A n \in 19..22 : Placed(InitialUpgrade[n], "up", 0, n)
  <2>1. \A k \in 1..4 : InitialUpgrade[18 + k] = CreateCompanies[k]
    BY InitialUpgradeIs, CreateCompaniesLength DEF StartsAt
  <2>2. \A k \in 1..4 : Placed(InitialUpgrade[18 + k], "up", 0, 18 + k)
    BY <2>1, CreateCompaniesPlaced
  <2>3. ASSUME NEW n \in 19..22 PROVE Placed(InitialUpgrade[n], "up", 0, n)
    <3>1. n - 18 \in 1..4 /\ 18 + (n - 18) = n
      OBVIOUS
    <3> QED BY <2>2, <3>1
  <2> QED BY <2>3
<1>4. \A n \in 23..27 : Placed(InitialUpgrade[n], "up", 0, n)
  <2>1. \A k \in 1..5 : InitialUpgrade[22 + k] = CreateDepartments[k]
    BY InitialUpgradeIs, CreateDepartmentsLength DEF StartsAt
  <2>2. \A k \in 1..5 : Placed(InitialUpgrade[22 + k], "up", 0, 22 + k)
    BY <2>1, CreateDepartmentsPlaced
  <2>3. ASSUME NEW n \in 23..27 PROVE Placed(InitialUpgrade[n], "up", 0, n)
    <3>1. n - 22 \in 1..5 /\ 22 + (n - 22) = n
      OBVIOUS
    <3> QED BY <2>2, <3>1
  <2> QED BY <2>3
<1>5. \A n \in 28..33 : Placed(InitialUpgrade[n], "up", 0, n)
  <2>1. \A k \in 1..6 : InitialUpgrade[27 + k] = CreateUsers[k]
    BY InitialUpgradeIs, CreateUsersLength DEF StartsAt
  <2>2. \A k \in 1..6 : Placed(InitialUpgrade[27 + k], "up", 0, 27 + k)
    BY <2>1, CreateUsersPlaced
  <2>3. ASSUME NEW n \in 28..33 PROVE Placed(InitialUpgrade[n], "up", 0, n)
    <3>1. n - 27 \in 1..6 /\ 27 + (n - 27) = n
      OBVIOUS
    <3> QED BY <2>2, <3>1
  <2> QED BY <2>3
<1>6. \A n \in 34..39 : Placed(InitialUpgrade[n], "up", 0, n)
  <2>1. \A k \in 1..6 : InitialUpgrade[33 + k] = CreatePolicies[k]
    BY InitialUpgradeIs, CreatePoliciesLength DEF StartsAt
  <2>2. \A k \in 1..6 : Placed(InitialUpgrade[33 + k], "up", 0, 33 + k)
    BY <2>1, CreatePoliciesPlaced
  <2>3. ASSUME NEW n \in 34..39 PROVE Placed(InitialUpgrade[n], "up", 0, n)
    <3>1. n - 33 \in 1..6 /\ 33 + (n - 33) = n
      OBVIOUS
    <3> QED BY <2>2, <3>1
  <2> QED BY <2>3
<1>7. \A n \in 40..46 : Placed(InitialUpgrade[n], "up", 0, n)
  <2>1. \A k \in 1..7 : InitialUpgrade[39 + k] = CreatePolicyVersions[k]
    BY InitialUpgradeIs, CreatePolicyVersionsLength DEF StartsAt
  <2>2. \A k \in 1..7 : Placed(InitialUpgrade[39 + k], "up", 0, 39 + k)
    BY <2>1, CreatePolicyVersionsPlaced
  <2>3. ASSUME NEW n \in 40..46 PROVE Placed(InitialUpgrade[n], "up", 0, n)
    <3>1. n - 39 \in 1..7 /\ 39 + (n - 39) = n
      OBVIOUS
    <3> QED BY <2>2, <3>1
  <2> QED BY <2>3
<1>8. \A n \in 47..48 : Placed(InitialUpgrade[n], "up", 0, n)
  <2>1. \A k \in 1..2 : InitialUpgrade[46 + k] = CloseCurrentVersion[k]
    BY InitialUpgradeIs, CloseCurrentVersionLength DEF StartsAt
  <2>2. \A k \in 1..2 : Placed(InitialUpgrade[46 + k], "up", 0, 46 + k)
    BY <2>1, CloseCurrentVersionPlaced
  <2>3. ASSUME NEW n \in 47..48 PROVE Placed(InitialUpgrade[n], "up", 0, n)
    <3>1. n - 46 \in 1..2 /\ 46 + (n - 46) = n
      OBVIOUS
    <3> QED BY <2>2, <3>1
  <2> QED BY <2>3
<1>9. \A n \in 49..53 : Placed(InitialUpgrade[n], "up", 0, n)
  <2>1. \A k \in 1..5 : InitialUpgrade[48 + k] = CreateClauses[k]
    BY InitialUpgradeIs, CreateClausesLength DEF StartsAt
  <2>2. \A k \in 1..5 : Placed(InitialUpgrade[48 + k], "up", 0, 48 + k)
    BY <2>1, CreateClausesPlaced
  <2>3. ASSUME NEW n \in 49..53 PROVE Placed(InitialUpgrade[n], "up", 0, n)
    <3>1. n - 48 \in 1..5 /\ 48 + (n - 48) = n
      OBVIOUS
    <3> QED BY <2>2, <3>1
  <2> QED BY <2>3
<1>10. \A n \in 54..58 : Placed(InitialUpgrade[n], "up", 0, n)
  <2>1. \A k \in 1..5 : InitialUpgrade[53 + k] = CreateObligations[k]
    BY InitialUpgradeIs, CreateObligationsLength DEF StartsAt
  <2>2. \A k \in 1..5 : Placed(InitialUpgrade[53 + k], "up", 0, 53 + k)
    BY <2>1, CreateObligationsPlaced
  <2>3. ASSUME NEW n \in 54..58 PROVE Placed(InitialUpgrade[n], "up", 0, n)
    <3>1. n - 53 \in 1..5 /\ 53 + (n - 53) = n
      OBVIOUS
    <3> QED BY <2>2, <3>1
  <2> QED BY <2>3
<1>11. \A n \in 59..61 : Placed(InitialUpgrade[n], "up", 0, n)
  <2>1. \A k \in 1..3 : InitialUpgrade[58 + k] = CreateRegulatoryFrameworks[k]
    BY InitialUpgradeIs, CreateRegulatoryFrameworksLength DEF StartsAt
  <2>2. \A k \in 1..3 : Placed(InitialUpgrade[58 + k], "up", 0, 58 + k)
    BY <2>1, CreateRegulatoryFrameworksPlaced
  <2>3. ASSUME NEW n \in 59..61 PROVE Placed(InitialUpgrade[n], "up", 0, n)
    <3>1. n - 58 \in 1..3 /\ 58 + (n - 58) = n
      OBVIOUS
    <3> QED BY <2>2, <3>1
  <2> QED BY <2>3
<1>12. \A n \in 62..65 : Placed(InitialUpgrade[n], "up", 0, n)
  <2>1. \A k \in 1..4 : InitialUpgrade[61 + k] = CreateRegulatoryClauses[k]
    BY InitialUpgradeIs, CreateRegulatoryClausesLength DEF StartsAt
  <2>2. \A k \in 1..4 : Placed(InitialUpgrade[61 + k], "up", 0, 61 + k)
    BY <2>1, CreateRegulatoryClausesPlaced
  <2>3. ASSUME NEW n \in 62..65 PROVE Placed(InitialUpgrade[n], "up", 0, n)
    <3>1. n - 61 \in 1..4 /\ 61 + (n - 61) = n
      OBVIOUS
    <3> QED BY <2>2, <3>1
  <2> QED BY <2>3
<1>13. \A n \in 66..71 : Placed(InitialUpgrade[n], "up", 0, n)
  <2>1. \A k \in 1..6 : InitialUpgrade[65 + k] = CreateClauseRegulatoryMappings[k]
    BY InitialUpgradeIs, CreateClauseRegulatoryMappingsLength DEF StartsAt
  <2>2. \A k \in 1..6 : Placed(InitialUpgrade[65 + k], "up", 0, 65 + k)
    BY <2>1, CreateClauseRegulatoryMappingsPlaced
  <2>3. ASSUME NEW n \in 66..71 PROVE Placed(InitialUpgrade[n], "up", 0, n)
    <3>1. n - 65 \in 1..6 /\ 65 + (n - 65) = n
      OBVIOUS
    <3> QED BY <2>2, <3>1
  <2> QED BY <2>3
<1>14. \A n \in 72..79 : Placed(InitialUpgrade[n], "up", 0, n)
  <2>1. \A k \in 1..8 : InitialUpgrade[71 + k] = CreateFindings[k]
    BY InitialUpgradeIs, CreateFindingsLength DEF StartsAt
  <2>2. \A k \in 1..8 : Placed(InitialUpgrade[71 + k], "up", 0, 71 + k)
    BY <2>1, CreateFindingsPlaced
  <2>3. ASSUME NEW n \in 72..79 PROVE Placed(InitialUpgrade[n], "up", 0, n)
    <3>1. n - 71 \in 1..8 /\ 71 + (n - 71) = n
      OBVIOUS
    <3> QED BY <2>2, <3>1
  <2> QED BY <2>3
<1>15. \A n \in 80..84 : Placed(InitialUpgrade[n], "up", 0, n)
  <2>1. \A k \in 1..5 : InitialUpgrade[79 + k] = CreateFindingClauseLinks[k]
    BY InitialUpgradeIs, CreateFindingClauseLinksLength DEF StartsAt
  <2>2. \A k \in 1..5 : Placed(InitialUpgrade[79 + k], "up", 0, 79 + k)
    BY <2>1, CreateFindingClauseLinksPlaced
  <2>3. ASSUME NEW n \in 80..84 PROVE Placed(InitialUpgrade[n], "up", 0, n)
    <3>1. n - 79 \in 1..5 /\ 79 + (n - 79) = n
      OBVIOUS
    <3> QED BY <2>2, <3>1
  <2> QED BY <2>3
<1>16. \A n \in 85..90 : Placed(InitialUpgrade[n], "up", 0, n)
  <2>1. \A k \in 1..6 : InitialUpgrade[84 + k] = CreateAuditLogs[k]
    BY InitialUpgradeIs, CreateAuditLogsLength DEF StartsAt
  <2>2. \A k \in 1..6 : Placed(InitialUpgrade[84 + k], "up", 0, 84 + k)
    BY <2>1, CreateAuditLogsPlaced
  <2>3. ASSUME NEW n \in 85..90 PROVE Placed(InitialUpgrade[n], "up", 0, n)
    <3>1. n - 84 \in 1..6 /\ 84 + (n - 84) = n
      OBVIOUS
    <3> QED BY <2>2, <3>1
  <2> QED BY <2>3
<1>17. \A n \in 1..90 : n \in 1..16 \/ n \in 17..18 \/ n \in 19..22 \/ n \in 23..27 \/ n \in 28..33 \/ n \in 34..39
        \/ n \in 40..46 \/ n \in 47..48 \/ n \in 49..53 \/ n \in 54..58 \/ n \in 59..61 \/ n \in
        62..65 \/ n \in 66..71 \/ n \in 72..79 \/ n \in 80..84 \/ n \in 85..90
  OBVIOUS
<1> QED BY ONLY <1>1, <1>2, <1>3, <1>4, <1>5, <1>6, <1>7, <1>8, <1>9, <1>10, <1>11, <1>12, <1>13,
               <1>14, <1>15, <1>16, <1>17

\* Every statement of every migration, in both directions, is in its place: the
\* schema before it holds what it needs, and it leads to the schema of the next.
THEOREM ScriptsPlaced ==
    ASSUME NEW d, NEW r, Moves(d, r)
    PROVE  /\ Len(Script(d, r)) = Length(d, r)
           /\ \A n \in 1..Length(d, r) : Placed(Script(d, r)[n], d, r, n)
<1> DEFINE Good(e, q) == /\ Len(Script(e, q)) = Length(e, q)
                         /\ \A n \in 1..Length(e, q) : Placed(Script(e, q)[n], e, q, n)
<1>1. Good("up", 0)
  <2>1. Script("up", 0) = InitialUpgrade /\ Length("up", 0) = 90
    BY DEF Script, Revisions, Length
  <2> QED BY <2>1, InitialUpgradeIs, InitialUpgradePlaced
<1>2. Good("up", 1)
  <2>1. Script("up", 1) = AddUploadMetadata /\ Length("up", 1) = 7
    BY DEF Script, Revisions, Length
  <2> QED BY <2>1, AddUploadMetadataLength, AddUploadMetadataPlaced
<1>3. Good("up", 2)
  <2>1. Script("up", 2) = AddClauseHierarchy /\ Length("up", 2) = 12
    BY DEF Script, Revisions, Length
  <2> QED BY <2>1, AddClauseHierarchyLength, AddClauseHierarchyPlaced
<1>4. Good("up", 3)
  <2>1. Script("up", 3) = AddExtractedText /\ Length("up", 3) = 1
    BY DEF Script, Revisions, Length
  <2> QED BY <2>1, AddExtractedTextLength, AddExtractedTextPlaced
<1>5. Good("up", 4)
  <2>1. Script("up", 4) = RecreateObligations /\ Length("up", 4) = 4
    BY DEF Script, Revisions, Length
  <2> QED BY <2>1, RecreateObligationsLength, RecreateObligationsPlaced
<1>6. Good("up", 5)
  <2>1. Script("up", 5) = CreateConflicts /\ Length("up", 5) = 4
    BY DEF Script, Revisions, Length
  <2> QED BY <2>1, CreateConflictsLength, CreateConflictsPlaced
<1>7. Good("up", 6)
  <2>1. Script("up", 6) = CreateRecommendations /\ Length("up", 6) = 3
    BY DEF Script, Revisions, Length
  <2> QED BY <2>1, CreateRecommendationsLength, CreateRecommendationsPlaced
<1>8. Good("up", 7)
  <2>1. Script("up", 7) = CreateComplianceAuditLogs /\ Length("up", 7) = 3
    BY DEF Script, Revisions, Length
  <2> QED BY <2>1, CreateComplianceAuditLogsLength, CreateComplianceAuditLogsPlaced
<1>9. Good("up", 8)
  <2>1. Script("up", 8) = AddReviewFields /\ Length("up", 8) = 3
    BY DEF Script, Revisions, Length
  <2> QED BY <2>1, AddReviewFieldsLength, AddReviewFieldsPlaced
<1>10. Good("up", 9)
  <2>1. Script("up", 9) = AddRelationshipColumns /\ Length("up", 9) = 3
    BY DEF Script, Revisions, Length
  <2> QED BY <2>1, AddRelationshipColumnsLength, AddRelationshipColumnsPlaced
<1>11. Good("up", 10)
  <2>1. Script("up", 10) = AddFindingsColumns /\ Length("up", 10) = 4
    BY DEF Script, Revisions, Length
  <2> QED BY <2>1, AddFindingsColumnsLength, AddFindingsColumnsPlaced
<1>12. Good("up", 11)
  <2>1. Script("up", 11) = CreateRegulatoryMappings /\ Length("up", 11) = 1
    BY DEF Script, Revisions, Length
  <2> QED BY <2>1, CreateRegulatoryMappingsLength, CreateRegulatoryMappingsPlaced
<1>13. Good("up", 12)
  <2>1. Script("up", 12) = CreateStoredFiles /\ Length("up", 12) = 1
    BY DEF Script, Revisions, Length
  <2> QED BY <2>1, CreateStoredFilesLength, CreateStoredFilesPlaced
<1>14. Good("up", 13)
  <2>1. Script("up", 13) = RemoveVersionNumberKey /\ Length("up", 13) = 1
    BY DEF Script, Revisions, Length
  <2> QED BY <2>1, RemoveVersionNumberKeyLength, RemoveVersionNumberKeyPlaced
<1>15. Good("down", 1)
  <2>1. Script("down", 1) = InitialDowngrade /\ Length("down", 1) = 32
    BY DEF Script, Revisions, Length
  <2> QED BY <2>1, InitialDowngradeIs, InitialDowngradePlaced
<1>16. Good("down", 2)
  <2>1. Script("down", 2) = DropUploadMetadata /\ Length("down", 2) = 7
    BY DEF Script, Revisions, Length
  <2> QED BY <2>1, DropUploadMetadataLength, DropUploadMetadataPlaced
<1>17. Good("down", 3)
  <2>1. Script("down", 3) = DropClauseHierarchy /\ Length("down", 3) = 9
    BY DEF Script, Revisions, Length
  <2> QED BY <2>1, DropClauseHierarchyLength, DropClauseHierarchyPlaced
<1>18. Good("down", 4)
  <2>1. Script("down", 4) = DropExtractedText /\ Length("down", 4) = 1
    BY DEF Script, Revisions, Length
  <2> QED BY <2>1, DropExtractedTextLength, DropExtractedTextPlaced
<1>19. Good("down", 5)
  <2>1. Script("down", 5) = RestoreObligations /\ Length("down", 5) = 4
    BY DEF Script, Revisions, Length
  <2> QED BY <2>1, RestoreObligationsLength, RestoreObligationsPlaced
<1>20. Good("down", 6)
  <2>1. Script("down", 6) = DropConflicts /\ Length("down", 6) = 4
    BY DEF Script, Revisions, Length
  <2> QED BY <2>1, DropConflictsLength, DropConflictsPlaced
<1>21. Good("down", 7)
  <2>1. Script("down", 7) = DropRecommendations /\ Length("down", 7) = 3
    BY DEF Script, Revisions, Length
  <2> QED BY <2>1, DropRecommendationsLength, DropRecommendationsPlaced
<1>22. Good("down", 8)
  <2>1. Script("down", 8) = DropComplianceAuditLogs /\ Length("down", 8) = 3
    BY DEF Script, Revisions, Length
  <2> QED BY <2>1, DropComplianceAuditLogsLength, DropComplianceAuditLogsPlaced
<1>23. Good("down", 9)
  <2>1. Script("down", 9) = DropReviewFields /\ Length("down", 9) = 3
    BY DEF Script, Revisions, Length
  <2> QED BY <2>1, DropReviewFieldsLength, DropReviewFieldsPlaced
<1>24. Good("down", 10)
  <2>1. Script("down", 10) = DropRelationshipColumns /\ Length("down", 10) = 3
    BY DEF Script, Revisions, Length
  <2> QED BY <2>1, DropRelationshipColumnsLength, DropRelationshipColumnsPlaced
<1>25. Good("down", 11)
  <2>1. Script("down", 11) = DropFindingsColumns /\ Length("down", 11) = 4
    BY DEF Script, Revisions, Length
  <2> QED BY <2>1, DropFindingsColumnsLength, DropFindingsColumnsPlaced
<1>26. Good("down", 12)
  <2>1. Script("down", 12) = DropRegulatoryMappings /\ Length("down", 12) = 1
    BY DEF Script, Revisions, Length
  <2> QED BY <2>1, DropRegulatoryMappingsLength, DropRegulatoryMappingsPlaced
<1>27. Good("down", 13)
  <2>1. Script("down", 13) = DropStoredFiles /\ Length("down", 13) = 1
    BY DEF Script, Revisions, Length
  <2> QED BY <2>1, DropStoredFilesLength, DropStoredFilesPlaced
<1>28. Good("down", 14)
  <2>1. Script("down", 14) = RestoreVersionNumberKey /\ Length("down", 14) = 1
    BY DEF Script, Revisions, Length
  <2> QED BY <2>1, RestoreVersionNumberKeyLength, RestoreVersionNumberKeyPlaced
<1> HIDE DEF Good
<1>29. ASSUME d = "up" PROVE Good(d, r)
  <2>1. r \in 0..13
    BY <1>29 DEF Moves
  <2> QED BY ONLY <1>29, <2>1, <1>1, <1>2, <1>3, <1>4, <1>5, <1>6, <1>7, <1>8, <1>9, <1>10, <1>11, <1>12, <1>13,
              <1>14
<1>30. ASSUME d = "down" PROVE Good(d, r)
  <2>1. r \in 1..14
    BY <1>30 DEF Moves
  <2> QED BY ONLY <1>30, <2>1, <1>15, <1>16, <1>17, <1>18, <1>19, <1>20, <1>21, <1>22, <1>23, <1>24, <1>25, <1>26,
              <1>27, <1>28
<1>31. Good(d, r)
  BY <1>29, <1>30 DEF Moves
<1> QED BY <1>31 DEF Good

\* Every statement of every revision keeps to what is said of its direction.
LEMMA ScriptsRegular ==
    ASSUME NEW dir, NEW r, Moves(dir, r), NEW n \in 1..Len(Script(dir, r))
    PROVE  Regular(dir, Script(dir, r)[n])
<1>1. n \in 1..Length(dir, r) /\ Placed(Script(dir, r)[n], dir, r, n)
  BY ScriptsPlaced
<1> QED BY <1>1 DEF Placed, FormPlaced

=============================================================================
