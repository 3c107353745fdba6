--------------------------------- MODULE Ddl ---------------------------------
(***************************************************************************)
(* The statements the migrations are written in, and what PostgreSQL makes *)
(* of them: what a statement needs of the schema and of the rows, what it  *)
(* does to both, and which tables it keeps writers away from.              *)
(*                                                                         *)
(* Of a column the schema keeps whether it may be null, whether it has a   *)
(* server default and, where one is used, its enum type; of a table its    *)
(* foreign keys, named constraints and trigger.  Of a row it keeps who     *)
(* wrote it, the columns that are null and the unique indexes it would     *)
(* break: what a statement can trip over.                                  *)
(***************************************************************************)
EXTENDS Naturals, Sequences, FiniteSets, SequencesExt

(* f, and g where f is not defined. *)
f ++ g == [x \in DOMAIN f \cup DOMAIN g |-> IF x \in DOMAIN f THEN f[x] ELSE g[x]]

-----------------------------------------------------------------------------
(* Statements.  A migration is a sequence of these records. *)

Req(S)  == [c \in S |-> [null |-> FALSE, default |-> FALSE]]
Dflt(S) == [c \in S |-> [null |-> FALSE, default |-> TRUE]]
Opt(S)  == [c \in S |-> [null |-> TRUE,  default |-> FALSE]]

NoTypes == [c \in {} |-> ""]

CreateTable(t, cols, types, refs) ==
    [do |-> "create_table", table |-> t, cols |-> cols, types |-> types, refs |-> refs]
DropTable(t) == [do |-> "drop_table", table |-> t]
AddColumn(t, c, null, type) ==
    [do |-> "add_column", table |-> t, column |-> c, null |-> null, type |-> type]
AddNullable(t, c) == AddColumn(t, c, TRUE, "plain")
DropColumn(t, c) == [do |-> "drop_column", table |-> t, column |-> c]
SetNullable(t, c, null) ==
    [do |-> "alter_column", table |-> t, column |-> c, null |-> null]
(* "UPDATE t SET c = ..." that leaves no null behind *)
Backfill(t, c) == [do |-> "backfill", table |-> t, column |-> c]
Index(i, t, columns) ==
    [do |-> "create_index", name |-> i, table |-> t, columns |-> columns, unique |-> FALSE]
UniqueIndex(i, t, columns) ==
    [do |-> "create_index", name |-> i, table |-> t, columns |-> columns, unique |-> TRUE]
DropIndex(i, t) == [do |-> "drop_index", name |-> i, table |-> t]
ForeignKey(n, t, c, ref) ==
    [do |-> "create_foreign_key", name |-> n, table |-> t, column |-> c, ref |-> ref]
Check(n, t) == [do |-> "create_check", name |-> n, table |-> t]
DropConstraint(n, t) == [do |-> "drop_constraint", name |-> n, table |-> t]
CreateFunction(f) == [do |-> "create_function", name |-> f]
DropFunction(f) == [do |-> "drop_function", name |-> f]
Trigger(t, f) == [do |-> "create_trigger", table |-> t, name |-> f]
CreateEnum(e, labels) == [do |-> "create_enum", name |-> e, labels |-> labels]
AddLabel(e, label) == [do |-> "add_label", name |-> e, labels |-> {label}]
DropEnum(e) == [do |-> "drop_enum", name |-> e]

(* The statements on a table, and those of them that alter it. *)
AltersTable(op) ==
    op.do \in {"add_column", "drop_column", "alter_column", "create_foreign_key", "create_check",
               "drop_constraint", "create_trigger"}
OnTable(op) ==
    AltersTable(op)
    \/ op.do \in {"create_table", "drop_table", "backfill", "create_index", "drop_index"}

-----------------------------------------------------------------------------
(* What a statement needs and does.  A schema is a record of functions: its
   tables, its indexes, its enum types and the set of its functions. *)

EmptySchema == [tables |-> <<>>, indexes |-> <<>>, enums |-> <<>>, functions |-> {}]

Tables(s) == DOMAIN s.tables
Only(f, S) == [x \in DOMAIN f \cap S |-> f[x]]
Without(f, x) == [y \in DOMAIN f \ {x} |-> f[y]]
ForeignKeysOf(s, t) ==
    {<<t, k[1], k[2]>> : k \in s.tables[t].refs}
Referencing(s, t) == {u \in Tables(s) : \E k \in s.tables[u].refs : k[2] = t}
HasColumn(s, t, c) == t \in Tables(s) /\ c \in DOMAIN s.tables[t].cols
Nullable(s, t) == {c \in DOMAIN s.tables[t].cols : s.tables[t].cols[c].null}
TypesExist(s, T) == T \subseteq (DOMAIN s.enums \cup {"plain"})

(* The schema allows the statement. *)
SchemaAllows(op, s) ==
    /\ op.do = "create_table" =>
            /\ op.table \notin Tables(s) \cup DOMAIN s.indexes
            /\ \A k \in op.refs : k[1] \in DOMAIN op.cols /\ k[2] \in Tables(s) \cup {op.table}
            /\ DOMAIN op.types \subseteq DOMAIN op.cols
            /\ TypesExist(s, {op.types[c] : c \in DOMAIN op.types})
    /\ op.do = "drop_table" => op.table \in Tables(s) /\ Referencing(s, op.table) \subseteq {op.table}
    /\ op.do = "add_column" =>
            op.table \in Tables(s) /\ ~HasColumn(s, op.table, op.column) /\ TypesExist(s, {op.type})
    /\ op.do \in {"drop_column", "alter_column", "backfill"} => HasColumn(s, op.table, op.column)
    /\ op.do = "create_index" =>
            /\ op.name \notin Tables(s) \cup DOMAIN s.indexes
            /\ \A c \in op.columns : HasColumn(s, op.table, c)
    /\ op.do = "drop_index" => op.name \in DOMAIN s.indexes
    /\ op.do = "create_foreign_key" => HasColumn(s, op.table, op.column) /\ op.ref \in Tables(s)
    /\ op.do = "create_check" => op.table \in Tables(s) /\ op.name \notin s.tables[op.table].checks
    /\ op.do = "drop_constraint" =>
            /\ op.table \in Tables(s)
            /\ op.name \in s.tables[op.table].checks \cup {k[3] : k \in s.tables[op.table].refs}
    /\ op.do = "create_trigger" => op.table \in Tables(s) /\ op.name \in s.functions
    /\ op.do = "drop_function" => \A t \in Tables(s) : s.tables[t].trigger # op.name
    /\ op.do = "add_label" => op.name \in DOMAIN s.enums
    /\ op.do = "drop_enum" =>
            \A t \in Tables(s) : \A c \in DOMAIN s.tables[t].types : s.tables[t].types[c] # op.name

(* The rows allow the statement: a required column without a default needs an
   empty table, a column made required needs values, a unique index needs
   rows that do not repeat. *)
RowsAllow(op, rows) ==
    /\ op.do = "add_column" => op.null \/ rows[op.table] = {}
    /\ op.do = "alter_column" => op.null \/ \A r \in rows[op.table] : op.column \notin r.nulls
    /\ op.do = "create_index" => (op.unique => \A r \in rows[op.table] : op.name \notin r.repeats)

(* The table a statement creates, and what one on it makes of its parts. *)
NewTable(op) ==
    [cols |-> op.cols, types |-> op.types, checks |-> {}, trigger |-> "none",
     refs |-> {<<k[1], k[2], "">> : k \in op.refs}]

Columns(op, cols) ==
    IF op.do = "add_column"
    THEN cols ++ [c \in {op.column} |-> [null |-> op.null, default |-> FALSE]]
    ELSE IF op.do = "drop_column" THEN Without(cols, op.column)
    ELSE IF op.do = "alter_column"
    THEN [cols EXCEPT ![op.column] = [null |-> op.null, default |-> @.default]]
    ELSE cols
Types(op, types) ==
    IF op.do = "add_column" /\ op.type # "plain" THEN types ++ [c \in {op.column} |-> op.type]
    ELSE IF op.do = "drop_column" THEN Without(types, op.column)
    ELSE types
Checks(op, checks) ==
    IF op.do = "create_check" THEN checks \cup {op.name}
    ELSE IF op.do = "drop_constraint" THEN checks \ {op.name}
    ELSE checks
References(op, refs) ==
    IF op.do = "create_foreign_key" THEN refs \cup {<<op.column, op.ref, op.name>>}
    ELSE {k \in refs : /\ op.do = "drop_column" => k[1] # op.column
                       /\ op.do = "drop_constraint" => k[3] # op.name}

Altered(op, table) ==
    [cols |-> Columns(op, table.cols), types |-> Types(op, table.types),
     checks |-> Checks(op, table.checks), refs |-> References(op, table.refs),
     trigger |-> IF op.do = "create_trigger" THEN op.name ELSE table.trigger]

TablesAfter(op, s) ==
    IF op.do = "create_table" THEN s.tables ++ [t \in {op.table} |-> NewTable(op)]
    ELSE IF op.do = "drop_table" THEN Without(s.tables, op.table)
    ELSE IF AltersTable(op) THEN [s.tables EXCEPT ![op.table] = Altered(op, s.tables[op.table])]
    ELSE s.tables

(* An index goes with its table and with each of its columns. *)
DropsIndex(op, s, i) ==
    \/ op.do = "drop_index" /\ i = op.name
    \/ op.do = "drop_table" /\ s.indexes[i].table = op.table
    \/ op.do = "drop_column" /\ s.indexes[i].table = op.table /\ op.column \in s.indexes[i].columns
IndexesAfter(op, s) ==
    IF op.do = "create_index"
    THEN s.indexes ++ [i \in {op.name} |->
                          [table |-> op.table, columns |-> op.columns, unique |-> op.unique]]
    ELSE Only(s.indexes, {i \in DOMAIN s.indexes : ~DropsIndex(op, s, i)})

EnumsAfter(op, enums) ==
    IF op.do = "create_enum"       \* checkfirst: an existing type is kept
    THEN enums ++ [e \in {op.name} |-> op.labels]
    ELSE IF op.do = "add_label" THEN [enums EXCEPT ![op.name] = @ \cup op.labels]
    ELSE IF op.do = "drop_enum" THEN Without(enums, op.name)
    ELSE enums

FunctionsAfter(op, functions) ==
    IF op.do = "create_function" THEN functions \cup {op.name}
    ELSE IF op.do = "drop_function" THEN functions \ {op.name}
    ELSE functions

Statement(op, s) ==
    [tables |-> TablesAfter(op, s), indexes |-> IndexesAfter(op, s),
     enums |-> EnumsAfter(op, s.enums), functions |-> FunctionsAfter(op, s.functions)]

(* A row keeps its writer; of its null columns it gains or loses one. *)
RowAfter(op, r) ==
    [by |-> r.by, repeats |-> r.repeats,
     nulls |-> IF op.do = "add_column" THEN r.nulls \cup {op.column}
               ELSE IF op.do \in {"drop_column", "backfill"} THEN r.nulls \ {op.column}
               ELSE r.nulls]
OnRows(op, rows) ==
    IF op.do \in {"create_table", "drop_table"} THEN [rows EXCEPT ![op.table] = {}]
    ELSE IF op.do \in {"add_column", "drop_column", "backfill"}
    THEN [rows EXCEPT ![op.table] = {RowAfter(op, r) : r \in rows[op.table]}]
    ELSE rows

(* The tables a statement locks against writers until the transaction ends:
   its own and, for foreign keys, the ones they point to. *)
Locks(op, s) ==
    (IF OnTable(op) THEN {op.table} ELSE {})
    \cup (IF op.do = "create_table" THEN {k[2] : k \in op.refs} ELSE {})
    \cup (IF op.do = "drop_table" THEN {k[2] : k \in s.tables[op.table].refs} ELSE {})
    \cup (IF op.do = "create_foreign_key" THEN {op.ref} ELSE {})

=============================================================================
