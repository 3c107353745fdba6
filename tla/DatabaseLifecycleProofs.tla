---------------------- MODULE DatabaseLifecycleProofs -----------------------
(***************************************************************************)
(* Proofs about DatabaseLifecycle, for every choice of revisions to stop at *)
(* and of uploads: committed rows always fit the committed schema; migrating *)
(* loses nothing but obligations; a migration fails only over data, at four *)
(* places; and the head revision always serves the models, also when it was *)
(* reached by downgrades that are not the inverse of their upgrade.        *)
(***************************************************************************)
EXTENDS DatabaseScriptProofs

\* There are fourteen revisions.
LEMMA HeadIs == HeadRevision = 14
BY DEF HeadRevision, Revisions

-----------------------------------------------------------------------------
(* What statements do to schemas.                                          *)

(* What a statement makes of the tables. *)
LEMMA TablesCreated ==
    ASSUME NEW s, NEW op, op.do = "create_table", op.table \notin Tables(s)
    PROVE  LET S == Statement(op, s) IN
           /\ Tables(S) = Tables(s) \cup {op.table}
           /\ S.tables[op.table] = NewTable(op)
           /\ \A t \in Tables(s) : S.tables[t] = s.tables[t]
BY DEF Statement, TablesAfter, Tables, ++

\* Dropping a table leaves the others as they are.
LEMMA TablesDropped ==
    ASSUME NEW s, NEW op, op.do = "drop_table"
    PROVE  LET S == Statement(op, s) IN
           /\ Tables(S) = Tables(s) \ {op.table}
           /\ \A t \in Tables(S) : S.tables[t] = s.tables[t]
BY DEF Statement, TablesAfter, Tables, Without

\* Altering a table leaves the others as they are.
LEMMA TablesAltered ==
    ASSUME NEW s, NEW op, AltersTable(op)
    PROVE  LET S == Statement(op, s) IN
           /\ Tables(S) = Tables(s)
           /\ op.table \in Tables(s) => S.tables[op.table] = Altered(op, s.tables[op.table])
           /\ \A t \in Tables(s) \ {op.table} : S.tables[t] = s.tables[t]
<1>1. op.do # "create_table" /\ op.do # "drop_table"
  BY DEF AltersTable
<1>2. Statement(op, s).tables = [s.tables EXCEPT ![op.table] = Altered(op, s.tables[op.table])]
  BY <1>1 DEF Statement, TablesAfter
<1> QED BY <1>2 DEF Tables

\* Every other statement leaves the tables as they are.
LEMMA TablesKept ==
    ASSUME NEW s, NEW op, ~AltersTable(op), op.do # "create_table", op.do # "drop_table"
    PROVE  Statement(op, s).tables = s.tables
BY DEF Statement, TablesAfter

(* The columns of an altered table. *)
LEMMA ColumnAdded ==
    ASSUME NEW op, NEW cols, op.do = "add_column", op.column \notin DOMAIN cols
    PROVE  /\ DOMAIN Columns(op, cols) = DOMAIN cols \cup {op.column}
           /\ \A c \in DOMAIN cols : Columns(op, cols)[c] = cols[c]
BY DEF Columns, ++

\* An added column has the nullability it is given, and no default.
LEMMA AddedColumn ==
    ASSUME NEW op, NEW cols, op.do = "add_column", op.column \notin DOMAIN cols
    PROVE  /\ Columns(op, cols)[op.column].null = op.null
           /\ Columns(op, cols)[op.column].default = FALSE
BY DEF Columns, ++

\* The columns that stay when one is dropped.
LEMMA ColumnDropped ==
    ASSUME NEW op, NEW cols, op.do = "drop_column"
    PROVE  /\ DOMAIN Columns(op, cols) = DOMAIN cols \ {op.column}
           /\ \A c \in DOMAIN cols \ {op.column} : Columns(op, cols)[c] = cols[c]
BY DEF Columns, Without

\* Altering a column changes whether it may be null, and nothing else.
LEMMA ColumnChanged ==
    ASSUME NEW op, NEW cols, op.do = "alter_column"
    PROVE  /\ DOMAIN Columns(op, cols) = DOMAIN cols
           /\ \A c \in DOMAIN cols \ {op.column} : Columns(op, cols)[c] = cols[c]
BY DEF Columns

\* Altering a column changes whether it may be null, and nothing else.
LEMMA NullAltered ==
    ASSUME NEW op, NEW cols, op.do = "alter_column", op.column \in DOMAIN cols
    PROVE  /\ Columns(op, cols)[op.column].null = op.null
           /\ Columns(op, cols)[op.column].default = cols[op.column].default
BY DEF Columns

\* No other statement touches columns.
LEMMA ColumnsKept ==
    ASSUME NEW op, NEW cols, op.do \notin {"add_column", "drop_column", "alter_column"}
    PROVE  Columns(op, cols) = cols
BY DEF Columns

\* An altered table keeps to what is said of tables whatever the place.
LEMMA AlteredOk ==
    ASSUME NEW d, NEW op, NEW table, NEW t, Regular(d, op), TableOk(table, t), op.table = t, AltersTable(op),
           t \in AllTables,
           op.do = "add_column" => op.column \notin DOMAIN table.cols,
           op.do = "create_foreign_key" => op.column \in DOMAIN table.cols
    PROVE  TableOk(Altered(op, table), t)
<1> DEFINE T == Altered(op, table)
<1>1. T.cols = Columns(op, table.cols) /\ T.refs = References(op, table.refs)
  BY DEF Altered
<1> HIDE DEF T
<1>2. \A c \in DOMAIN table.cols : c \in DOMAIN T.cols \/ (op.do = "drop_column" /\ c = op.column)
  <2>1. CASE op.do = "add_column"
    <3>1. DOMAIN Columns(op, table.cols) = DOMAIN table.cols \cup {op.column}
      BY <2>1, ColumnAdded
    <3> QED BY <3>1, <1>1
  <2>2. CASE op.do = "drop_column"
    <3>1. DOMAIN Columns(op, table.cols) = DOMAIN table.cols \ {op.column}
      BY <2>2, ColumnDropped
    <3> QED BY <3>1, <1>1, <2>2
  <2>3. CASE op.do = "alter_column"
    BY <2>3, <1>1, ColumnChanged
  <2>4. CASE op.do \notin {"add_column", "drop_column", "alter_column"}
    BY <2>4, <1>1, ColumnsKept
  <2> QED BY <2>1, <2>2, <2>3, <2>4
<1>3. \A k \in T.refs : KeyOk(k, T, t)
  <2>1. CASE op.do = "create_foreign_key"
    <3>1. T.refs = table.refs \cup {<<op.column, op.ref, op.name>>}
      BY <1>1, <2>1 DEF References
    <3>2. KeyOk(<<op.column, op.ref, op.name>>, T, t)
      BY <1>2, <2>1 DEF KeyOk, Regular
    <3>3. \A k \in table.refs : KeyOk(k, T, t)
      BY <1>2, <2>1 DEF KeyOk, TableOk
    <3> QED BY <3>1, <3>2, <3>3
  <2>2. CASE op.do # "create_foreign_key"
    <3>1. T.refs \subseteq table.refs /\ \A k \in T.refs : op.do = "drop_column" => k[1] # op.column
      BY <1>1, <2>2 DEF References
    <3> QED BY <3>1, <1>2 DEF KeyOk, TableOk
  <2> QED BY <2>1, <2>2
<1>4. ASSUME NEW k \in Refers[t] PROVE <<k[1], k[2], "">> \in T.refs
  <2>1. <<k[1], k[2], "">> \in table.refs
    BY <1>4 DEF TableOk
  <2>2. op.do = "drop_column" => k[1] # op.column
    <3>1. KeyOk(<<k[1], k[2], "">>, table, t)
      BY <2>1 DEF TableOk
    <3>2. k = <<k[1], k[2]>>
      BY <1>4, AllTablesAre DEF Refers
    <3> QED BY <3>2, <1>4 DEF Regular
  <2>3. op.do = "drop_constraint" => op.name # ""
    BY DEF Regular
  <2> QED BY <1>1, <2>1, <2>2, <2>3 DEF References
<1>5. ASSUME NEW c \in Blank[t] \cap DOMAIN T.cols PROVE T.cols[c].null
  <2>1. c \in DOMAIN table.cols => table.cols[c].null
    BY <1>5 DEF TableOk
  <2>2. op.do \in {"add_column", "alter_column"} => op.column # c
    BY <1>5 DEF Regular
  <2>3. CASE op.do = "add_column"
    <3>0. op.column \notin DOMAIN table.cols
      BY <2>3
    <3>1. /\ DOMAIN Columns(op, table.cols) = DOMAIN table.cols \cup {op.column}
          /\ \A x \in DOMAIN table.cols : Columns(op, table.cols)[x] = table.cols[x]
      BY <3>0, <2>3, ColumnAdded
    <3> QED BY <3>1, <1>1, <1>5, <2>1, <2>2, <2>3
  <2>4. CASE op.do = "drop_column"
    <3>1. /\ DOMAIN Columns(op, table.cols) = DOMAIN table.cols \ {op.column}
          /\ \A x \in DOMAIN table.cols \ {op.column} : Columns(op, table.cols)[x] = table.cols[x]
      BY <2>4, ColumnDropped
    <3> QED BY <3>1, <1>1, <1>5, <2>1
  <2>5. CASE op.do = "alter_column"
    BY <2>1, <2>2, <2>5, <1>5, <1>1, ColumnChanged
  <2>6. CASE op.do \notin {"add_column", "drop_column", "alter_column"}
    BY <2>1, <2>6, <1>5, <1>1, ColumnsKept
  <2> QED BY <2>3, <2>4, <2>5, <2>6
<1> QED BY <1>3, <1>4, <1>5 DEF TableOk, T

\* So does a table that is created.
LEMMA NewTableOk ==
    ASSUME NEW d, NEW op, Regular(d, op), op.do = "create_table", op.table \in AllTables,
           \A k \in op.refs : k[1] \in DOMAIN op.cols
    PROVE  TableOk(NewTable(op), op.table)
<1> DEFINE T == NewTable(op)
<1>1. T.cols = op.cols /\ T.refs = {<<k[1], k[2], "">> : k \in op.refs}
  BY DEF NewTable
<1> HIDE DEF T
<1>2. ASSUME NEW k \in T.refs PROVE KeyOk(k, T, op.table)
  <2>1. PICK l \in op.refs : k = <<l[1], l[2], "">>
    BY <1>1, <1>2
  <2>2. l = <<l[1], l[2]>> /\ l \in Refers[op.table] \cup Others[op.table]
    BY DEF Regular
  <2> QED BY <1>1, <2>1, <2>2 DEF KeyOk
<1>3. ASSUME NEW k \in Refers[op.table] PROVE <<k[1], k[2], "">> \in T.refs
  BY <1>1, <1>3 DEF Regular
<1>4. \A c \in Blank[op.table] \cap DOMAIN T.cols : T.cols[c].null
  BY <1>1 DEF Regular
<1> QED BY <1>2, <1>3, <1>4 DEF TableOk, T

(* A version-number key is made and dropped with statements on clauses. *)
LEMMA VersionKeyMoves ==
    ASSUME NEW d, NEW s, NEW op, Regular(d, op),
           VersionKey \in DOMAIN s.indexes => s.indexes[VersionKey].table = "clauses"
    PROVE  LET S == Statement(op, s) IN
           /\ VersionKey \in DOMAIN S.indexes => S.indexes[VersionKey].table = "clauses"
           /\ \/ VersionKey \in DOMAIN S.indexes <=> VersionKey \in DOMAIN s.indexes
              \/ OnTable(op) /\ op.table = "clauses"
<1> DEFINE I == IndexesAfter(op, s)
<1>1. CASE op.do = "create_index"
  <2>1. I = s.indexes ++ [i \in {op.name} |->
                          [table |-> op.table, columns |-> op.columns, unique |-> op.unique]]
    BY <1>1 DEF IndexesAfter
  <2>2. DOMAIN I = DOMAIN s.indexes \cup {op.name} /\ \A i \in DOMAIN s.indexes : I[i] = s.indexes[i]
    BY <2>1 DEF ++
  <2>3. op.name \notin DOMAIN s.indexes => I[op.name].table = op.table
    BY <2>1 DEF ++
  <2>4. op.name = VersionKey => op.table = "clauses" /\ OnTable(op)
    BY <1>1 DEF Regular, OnTable
  <2> HIDE DEF I
  <2> QED BY <2>2, <2>3, <2>4 DEF Statement, I
<1>2. CASE op.do # "create_index"
  <2>1. I = Only(s.indexes, {i \in DOMAIN s.indexes : ~DropsIndex(op, s, i)})
    BY <1>2 DEF IndexesAfter
  <2>2. /\ \A i : i \in DOMAIN I <=> i \in DOMAIN s.indexes /\ ~DropsIndex(op, s, i)
        /\ \A i \in DOMAIN I : I[i] = s.indexes[i]
    BY <2>1 DEF Only
  <2>3. VersionKey \in DOMAIN s.indexes /\ DropsIndex(op, s, VersionKey) =>
            OnTable(op) /\ op.table = "clauses"
    BY DEF DropsIndex, Regular, OnTable, AltersTable
  <2> HIDE DEF I
  <2> QED BY <2>2, <2>3 DEF Statement, I
<1> QED BY <1>1, <1>2

\* So does the schema after any statement it allows.
LEMMA StatementOk ==
    ASSUME NEW d, NEW s, NEW op, Regular(d, op), SchemaOk(s), SchemaAllows(op, s)
    PROVE  SchemaOk(Statement(op, s))
<1> DEFINE S == Statement(op, s)
<1>0. \A t \in Tables(s) : t \in AllTables /\ TableOk(s.tables[t], t)
  BY DEF SchemaOk
<1>1. S = [tables |-> S.tables, indexes |-> S.indexes, enums |-> S.enums, functions |-> S.functions]
  BY DEF Statement
<1>2. VersionKey \in DOMAIN S.indexes => S.indexes[VersionKey].table = "clauses"
  BY VersionKeyMoves DEF SchemaOk
<1>3. Tables(S) \subseteq AllTables /\ \A t \in Tables(S) : TableOk(S.tables[t], t)
  <2>1. CASE op.do = "create_table"
    <3>1. op.table \notin Tables(s) /\ \A k \in op.refs : k[1] \in DOMAIN op.cols
      BY <2>1 DEF SchemaAllows
    <3>2. op.table \in AllTables
      BY <2>1 DEF Regular, OnTable
    <3>3. /\ Tables(S) = Tables(s) \cup {op.table}
          /\ S.tables[op.table] = NewTable(op)
          /\ \A t \in Tables(s) : S.tables[t] = s.tables[t]
      BY <2>1, <3>1, TablesCreated
    <3>4. TableOk(NewTable(op), op.table)
      BY <2>1, <3>1, <3>2, NewTableOk
    <3> HIDE DEF S
    <3> QED BY <1>0, <3>2, <3>3, <3>4
  <2>2. CASE op.do = "drop_table"
    <3>1. Tables(S) = Tables(s) \ {op.table} /\ \A t \in Tables(S) : S.tables[t] = s.tables[t]
      BY <2>2, TablesDropped
    <3> HIDE DEF S
    <3> QED BY <1>0, <3>1
  <2>3. CASE AltersTable(op)
    <3>1. /\ Tables(S) = Tables(s)
          /\ op.table \in Tables(s) => S.tables[op.table] = Altered(op, s.tables[op.table])
          /\ \A t \in Tables(s) \ {op.table} : S.tables[t] = s.tables[t]
      BY <2>3, TablesAltered
    <3>2. op.do = "add_column" => op.column \notin DOMAIN s.tables[op.table].cols
      BY DEF SchemaAllows, HasColumn
    <3>3. op.do = "create_foreign_key" => op.column \in DOMAIN s.tables[op.table].cols
      BY DEF SchemaAllows, HasColumn
    <3>4. op.table \in Tables(s) => TableOk(Altered(op, s.tables[op.table]), op.table)
      BY <1>0, <2>3, <3>2, <3>3, AlteredOk
    <3> HIDE DEF S
    <3> QED BY <1>0, <3>1, <3>4
  <2>4. CASE ~AltersTable(op) /\ op.do # "create_table" /\ op.do # "drop_table"
    BY <2>4, <1>0, TablesKept DEF Tables
  <2> QED BY <2>1, <2>2, <2>3, <2>4
<1> HIDE DEF S
<1> QED BY <1>1, <1>2, <1>3 DEF SchemaOk, S

-----------------------------------------------------------------------------
(* What statements do to rows.                                             *)

(* What a statement makes of the rows. *)
LEMMA RowsCleared ==
    ASSUME NEW op, NEW rows, op.do \in {"create_table", "drop_table"}, op.table \in DOMAIN rows
    PROVE  LET R == OnRows(op, rows) IN
           /\ DOMAIN R = DOMAIN rows /\ R[op.table] = {}
           /\ \A t \in DOMAIN rows : t # op.table => R[t] = rows[t]
BY DEF OnRows

\* Statements that change every row of a table.
LEMMA RowsChanged ==
    ASSUME NEW op, NEW rows, op.do \in {"add_column", "drop_column", "backfill"}, op.table \in DOMAIN rows
    PROVE  LET R == OnRows(op, rows) IN
           /\ DOMAIN R = DOMAIN rows /\ R[op.table] = {RowAfter(op, w) : w \in rows[op.table]}
           /\ \A t \in DOMAIN rows : t # op.table => R[t] = rows[t]
<1>1. OnRows(op, rows) = [rows EXCEPT ![op.table] = {RowAfter(op, w) : w \in rows[op.table]}]
  BY DEF OnRows
<1> QED BY <1>1

\* Every other statement leaves the rows alone.
LEMMA RowsUntouched ==
    ASSUME NEW op, NEW rows,
           op.do \notin {"create_table", "drop_table", "add_column", "drop_column", "backfill"}
    PROVE  OnRows(op, rows) = rows
BY DEF OnRows

\* What becomes of a row of an altered table.
LEMMA RowAfterIs ==
    ASSUME NEW op, NEW w
    PROVE  /\ RowAfter(op, w).by = w.by /\ RowAfter(op, w).repeats = w.repeats
           /\ op.do = "add_column" => RowAfter(op, w).nulls = w.nulls \cup {op.column}
           /\ op.do \in {"drop_column", "backfill"} => RowAfter(op, w).nulls = w.nulls \ {op.column}
BY DEF RowAfter

\* Statements that do not empty a table keep its writers.
LEMMA WritersStay ==
    ASSUME NEW op, NEW rows, NEW t \in DOMAIN rows, NEW by,
           OnTable(op) => op.table \in DOMAIN rows,
           op.do \in {"create_table", "drop_table"} => t # op.table
    PROVE  WriterIn(OnRows(op, rows), by, t) <=> WriterIn(rows, by, t)
<1>1. CASE op.do \in {"create_table", "drop_table"}
  BY <1>1, RowsCleared DEF WriterIn, OnTable
<1>2. CASE op.do \in {"add_column", "drop_column", "backfill"}
  <2>1. op.table \in DOMAIN rows
    BY <1>2 DEF OnTable, AltersTable
  <2>2. /\ OnRows(op, rows)[op.table] = {RowAfter(op, w) : w \in rows[op.table]}
        /\ t # op.table => OnRows(op, rows)[t] = rows[t]
    BY <1>2, <2>1, RowsChanged
  <2>3. \A w : RowAfter(op, w).by = w.by
    BY RowAfterIs
  <2>4. CASE t = op.table
    <3>1. WriterIn(rows, by, t) => WriterIn(OnRows(op, rows), by, t)
      BY <2>2, <2>3, <2>4 DEF WriterIn
    <3>2. WriterIn(OnRows(op, rows), by, t) => WriterIn(rows, by, t)
      BY <2>2, <2>3, <2>4 DEF WriterIn
    <3> QED BY <3>1, <3>2
  <2>5. CASE t # op.table
    BY <2>2, <2>5 DEF WriterIn
  <2> QED BY <2>4, <2>5
<1>3. CASE op.do \notin {"create_table", "drop_table", "add_column", "drop_column", "backfill"}
  BY <1>3, RowsUntouched
<1> QED BY <1>1, <1>2, <1>3

(* Every row after a statement comes from one before. *)
Source(op, rows, t, w, v) ==
    /\ v \in rows[t] /\ w.by = v.by /\ w.repeats = v.repeats
    /\ IF t = op.table /\ op.do = "add_column" THEN w.nulls = v.nulls \cup {op.column}
       ELSE IF t = op.table /\ op.do \in {"drop_column", "backfill"} THEN w.nulls = v.nulls \ {op.column}
       ELSE w.nulls = v.nulls

\* A row after a statement was one before it, of the same table and writer.
LEMMA RowsComeFrom ==
    ASSUME NEW op, NEW rows, NEW t \in DOMAIN rows, NEW w \in OnRows(op, rows)[t],
           OnTable(op) => op.table \in DOMAIN rows
    PROVE  /\ op.do \in {"create_table", "drop_table"} => t # op.table
           /\ \E v : Source(op, rows, t, w, v)
<1>1. CASE op.do \in {"create_table", "drop_table"}
  <2>1. op.table \in DOMAIN rows
    BY <1>1 DEF OnTable, AltersTable
  <2>2. OnRows(op, rows)[op.table] = {} /\ (t # op.table => OnRows(op, rows)[t] = rows[t])
    BY <1>1, <2>1, RowsCleared
  <2>3. t # op.table /\ Source(op, rows, t, w, w)
    BY <2>2, <1>1 DEF Source
  <2> QED BY <2>3
<1>2. CASE op.do \in {"add_column", "drop_column", "backfill"}
  <2>1. op.table \in DOMAIN rows
    BY <1>2 DEF OnTable, AltersTable
  <2>2. /\ OnRows(op, rows)[op.table] = {RowAfter(op, v) : v \in rows[op.table]}
        /\ t # op.table => OnRows(op, rows)[t] = rows[t]
    BY <1>2, <2>1, RowsChanged
  <2>3. CASE t = op.table
    <3>1. PICK v \in rows[t] : w = RowAfter(op, v)
      BY <2>2, <2>3
    <3>2. Source(op, rows, t, w, v)
      BY <3>1, <2>3, <1>2, RowAfterIs DEF Source
    <3> QED BY <3>2, <1>2
  <2>4. CASE t # op.table
    <3>1. Source(op, rows, t, w, w)
      BY <2>2, <2>4 DEF Source
    <3> QED BY <3>1, <1>2
  <2> QED BY <2>3, <2>4
<1>3. CASE op.do \notin {"create_table", "drop_table", "add_column", "drop_column", "backfill"}
  <2>1. Source(op, rows, t, w, w)
    BY <1>3, RowsUntouched DEF Source
  <2> QED BY <2>1, <1>3
<1> QED BY <1>1, <1>2, <1>3

(* What may be null after a statement. *)
LEMMA NullableAfter ==
    ASSUME NEW s, NEW op, SchemaAllows(op, s), NEW t \in Tables(s),
           op.do \in {"create_table", "drop_table"} => t # op.table, NEW S, S = Statement(op, s)
    PROVE
           /\ t \in Tables(S)
           /\ \A c \in Nullable(s, t) :
                 \/ c \in Nullable(S, t)
                 \/ t = op.table /\ c = op.column /\ op.do = "drop_column"
                 \/ t = op.table /\ c = op.column /\ op.do = "alter_column" /\ ~op.null
           /\ t = op.table /\ op.do = "add_column" /\ op.null => op.column \in Nullable(S, t)
<1>1. CASE op.do = "create_table"
  <2>1. op.table \notin Tables(s)
    BY <1>1 DEF SchemaAllows
  <2>2. t \in Tables(S) /\ S.tables[t] = s.tables[t]
    BY <1>1, <2>1, TablesCreated
  <2> QED BY <2>2, <1>1 DEF Nullable
<1>2. CASE op.do = "drop_table"
  <2>1. t \in Tables(S) /\ S.tables[t] = s.tables[t]
    BY <1>2, TablesDropped
  <2> QED BY <2>1, <1>2 DEF Nullable
<1>3. CASE ~AltersTable(op) /\ op.do # "create_table" /\ op.do # "drop_table"
  <2>1. S.tables = s.tables /\ op.do # "add_column"
    BY <1>3, TablesKept DEF AltersTable
  <2> QED BY <2>1 DEF Nullable, Tables
<1>4. CASE AltersTable(op)
  <2>1. /\ t \in Tables(S)
        /\ t = op.table => S.tables[t] = Altered(op, s.tables[t])
        /\ t # op.table => S.tables[t] = s.tables[t]
    BY <1>4, TablesAltered
  <2>2. t = op.table => S.tables[t].cols = Columns(op, s.tables[t].cols)
    BY <2>1 DEF Altered
  <2>3. op.do = "add_column" => op.column \notin DOMAIN s.tables[op.table].cols
    BY DEF SchemaAllows, HasColumn
  <2>4. CASE t # op.table
    BY <2>1, <2>4 DEF Nullable
  <2>5. CASE t = op.table
    <3> DEFINE cols == s.tables[t].cols
    <3>1. CASE op.do = "add_column"
      <4>1. op.column \notin DOMAIN cols
        BY <2>3, <2>5, <3>1
      <4>2. /\ DOMAIN Columns(op, cols) = DOMAIN cols \cup {op.column}
            /\ \A c \in DOMAIN cols : Columns(op, cols)[c] = cols[c]
        <5> HIDE DEF cols
        <5> QED BY ZenonT(60), <3>1, <4>1, ColumnAdded
      <4>3. Columns(op, cols)[op.column].null = op.null
        BY <3>1, <4>1, AddedColumn
      <4> QED BY <2>1, <2>2, <2>5, <4>2, <4>3, <3>1 DEF Nullable
    <3>2. CASE op.do = "drop_column"
      <4>1. /\ DOMAIN Columns(op, cols) = DOMAIN cols \ {op.column}
            /\ \A c \in DOMAIN cols \ {op.column} : Columns(op, cols)[c] = cols[c]
        BY <3>2, ColumnDropped
      <4> QED BY <2>1, <2>2, <2>5, <4>1, <3>2 DEF Nullable
    <3>3. CASE op.do = "alter_column"
      <4>1. /\ DOMAIN Columns(op, cols) = DOMAIN cols
            /\ \A c \in DOMAIN cols \ {op.column} : Columns(op, cols)[c] = cols[c]
        BY <3>3, ColumnChanged
      <4>2. op.column \in DOMAIN cols => Columns(op, cols)[op.column].null = op.null
        BY <3>3, NullAltered
      <4> QED BY <2>1, <2>2, <2>5, <4>1, <4>2, <3>3 DEF Nullable
    <3>4. CASE op.do \notin {"add_column", "drop_column", "alter_column"}
      <4>1. Columns(op, cols) = cols
        BY <3>4, ColumnsKept
      <4> QED BY <2>1, <2>2, <2>5, <4>1, <3>4 DEF Nullable
    <3> QED BY <3>1, <3>2, <3>3, <3>4
  <2> QED BY <2>4, <2>5
<1> QED BY <1>1, <1>2, <1>3, <1>4

(* A new index is one its rows do not break. *)
LEMMA IndexesNew ==
    ASSUME NEW d, NEW s, NEW op, NEW i, Regular(d, op),
           i \in DOMAIN Statement(op, s).indexes, i \notin DOMAIN s.indexes
    PROVE  /\ op.do = "create_index" /\ i = op.name
           /\ i = VersionKey => op.table = "clauses" /\ op.unique
<1>1. CASE op.do = "create_index"
  <2>1. DOMAIN IndexesAfter(op, s) = DOMAIN s.indexes \cup {op.name}
    BY <1>1 DEF IndexesAfter, ++
  <2>2. op.name = VersionKey => op.table = "clauses" /\ op.unique
    BY <1>1 DEF Regular
  <2> QED BY <2>1, <2>2, <1>1 DEF Statement
<1>2. CASE op.do # "create_index"
  <2>1. IndexesAfter(op, s) = Only(s.indexes, {x \in DOMAIN s.indexes : ~DropsIndex(op, s, x)})
    BY <1>2 DEF IndexesAfter
  <2>2. DOMAIN IndexesAfter(op, s) \subseteq DOMAIN s.indexes
    BY <2>1 DEF Only
  <2> QED BY <2>2 DEF Statement
<1> QED BY <1>1, <1>2

\* A statement that schema and rows allow keeps the rows sound.
LEMMA StatementRowsOk ==
    ASSUME NEW d, NEW s, NEW op, NEW rows, Regular(d, op), SchemaOk(s), SchemaAllows(op, s),
           RowsOk(rows, s), RowsAllow(op, rows)
    PROVE  RowsOk(OnRows(op, rows), Statement(op, s))
<1> DEFINE S == Statement(op, s)
           R == OnRows(op, rows)
<1>0. DOMAIN rows = AllTables /\ (OnTable(op) => op.table \in DOMAIN rows)
  BY DEF RowsOk, Regular
<1>1. DOMAIN R = AllTables
  <2>1. CASE op.do \in {"create_table", "drop_table"}
    BY <1>0, <2>1, RowsCleared DEF OnTable
  <2>2. CASE op.do \in {"add_column", "drop_column", "backfill"}
    BY <1>0, <2>2, RowsChanged DEF OnTable, AltersTable
  <2>3. CASE op.do \notin {"create_table", "drop_table", "add_column", "drop_column", "backfill"}
    BY <1>0, <2>3, RowsUntouched
  <2> QED BY <2>1, <2>2, <2>3
<1>2. ASSUME NEW t \in AllTables, NEW w \in R[t] PROVE RowOk(R, S, t, w)
  <2>1. /\ op.do \in {"create_table", "drop_table"} => t # op.table
        /\ \E v : Source(op, rows, t, w, v)
    BY <1>0, <1>2, RowsComeFrom
  <2>2. PICK v : Source(op, rows, t, w, v)
    BY <2>1
  <2>3. v \in rows[t] /\ w.by = v.by /\ w.repeats = v.repeats
    BY <2>2 DEF Source
  <2>4. RowOk(rows, s, t, v)
    BY <2>3 DEF RowsOk
  <2>5. t \in Tables(s) \ Unwritten /\ v.nulls \subseteq Nullable(s, t)
    BY <2>4 DEF RowOk
  <2>6. /\ t \in Tables(S)
        /\ \A c \in Nullable(s, t) :
              \/ c \in Nullable(S, t)
              \/ t = op.table /\ c = op.column /\ op.do = "drop_column"
              \/ t = op.table /\ c = op.column /\ op.do = "alter_column" /\ ~op.null
        /\ t = op.table /\ op.do = "add_column" /\ op.null => op.column \in Nullable(S, t)
    BY <2>1, <2>5, NullableAfter
  <2>7. w.nulls \subseteq Nullable(S, t)
    <3>1. t = op.table /\ op.do = "add_column" => op.null
      BY <2>3 DEF RowsAllow
    <3>2. t = op.table /\ op.do = "alter_column" /\ ~op.null => op.column \notin v.nulls
      BY <2>3 DEF RowsAllow
    <3> HIDE DEF S, R
    <3> QED BY <2>2, <2>5, <2>6, <3>1, <3>2 DEF Source
  <2>8. w.repeats \cap DOMAIN S.indexes = {} /\ (w.repeats # {} => t = "clauses" /\ w.repeats = {VersionKey})
    <3>1. v.repeats \cap DOMAIN s.indexes = {} /\ (v.repeats # {} => t = "clauses" /\ v.repeats = {VersionKey})
      BY <2>4 DEF RowOk
    <3>2. ASSUME VersionKey \in v.repeats, VersionKey \in DOMAIN S.indexes PROVE FALSE
      <4>1. t = "clauses" /\ VersionKey \notin DOMAIN s.indexes
        BY <3>1, <3>2
      <4>2. op.do = "create_index" /\ op.name = VersionKey /\ op.table = "clauses" /\ op.unique
        BY <3>2, <4>1, IndexesNew
      <4> QED BY <2>3, <3>2, <4>1, <4>2 DEF RowsAllow
    <3> QED BY <2>3, <3>1, <3>2
  <2>9. ASSUME NEW k \in Refers[t], WriterIn(rows, v.by, k[2]), k[2] \in AllTables
        PROVE  WriterIn(R, w.by, k[2])
    <3>1. k[2] \in Tables(s)
      BY <2>9 DEF RowsOk, RowOk, WriterIn
    <3>2. op.do = "create_table" => k[2] # op.table
      BY <3>1 DEF SchemaAllows
    <3>3. op.do = "drop_table" => k[2] # op.table
      <4>1. <<k[1], k[2], "">> \in s.tables[t].refs
        BY <2>5, <2>9 DEF SchemaOk, TableOk
      <4>2. t \in Referencing(s, k[2])
        BY <4>1, <2>5 DEF Referencing
      <4> QED BY <4>2, <2>1 DEF SchemaAllows
    <3> QED BY <1>0, <2>3, <2>9, <3>2, <3>3, WritersStay
  <2>10. \A k \in Refers[t] : k[2] \in AllTables
    BY AllTablesAre DEF Refers
  <2>11. \A k \in Refers[t] : k # <<"owning_department_id", "departments">> => WriterIn(R, w.by, k[2])
    BY <2>4, <2>9, <2>10 DEF RowOk
  <2>12. t = "policies" /\ "owning_department_id" \notin w.nulls => WriterIn(R, w.by, "departments")
    <3>1. ASSUME t = "policies", "owning_department_id" \notin w.nulls
          PROVE  WriterIn(R, w.by, "departments")
      <4>1. op.do \in {"drop_column", "backfill"} => t # op.table
        BY <3>1 DEF Regular
      <4>2. "owning_department_id" \notin v.nulls
        BY <2>2, <3>1, <4>1 DEF Source
      <4>3. WriterIn(rows, v.by, "departments")
        BY <2>4, <3>1, <4>2 DEF RowOk
      <4>4. <<"owning_department_id", "departments">> \in Refers[t] /\ "departments" \in AllTables
        BY <3>1, AllTablesAre DEF Refers
      <4> QED BY <2>9, <4>3, <4>4
    <3> QED BY <3>1
  <2> HIDE DEF S, R
  <2> QED BY <2>5, <2>6, <2>7, <2>8, <2>11, <2>12 DEF RowOk
<1> QED BY <1>1, <1>2 DEF RowsOk, S, R

-----------------------------------------------------------------------------
(* Rows and constraints; truncating.                                       *)

(* Writers of policies have written what policies refer to, and so on. *)
Owning == <<"owning_department_id", "departments">>

\* Who wrote a row wrote the rows it cannot be without.
LEMMA ParentsWritten ==
    ASSUME NEW rows, NEW s, RowsOk(rows, s), NEW t \in AllTables, NEW by, WriterIn(rows, by, t),
           NEW k \in Refers[t], k # Owning
    PROVE  WriterIn(rows, by, k[2])
BY DEF RowsOk, RowOk, WriterIn, Owning

\* Who wrote clauses or obligations wrote policies, and companies.
LEMMA Chain ==
    ASSUME NEW rows, NEW s, RowsOk(rows, s), NEW by
    PROVE  /\ WriterIn(rows, by, "clauses") => WriterIn(rows, by, "policies")
           /\ WriterIn(rows, by, "obligations") => WriterIn(rows, by, "policies")
           /\ WriterIn(rows, by, "policies") => WriterIn(rows, by, "companies")
<1>1. WriterIn(rows, by, "obligations") => WriterIn(rows, by, "clauses")
  <2>1. <<"clause_id", "clauses">> \in Refers["obligations"] /\ <<"clause_id", "clauses">> # Owning
    BY DEF Refers, Owning
  <2> QED BY <2>1, ParentsWritten, AllTablesAre
<1>2. WriterIn(rows, by, "clauses") => WriterIn(rows, by, "policy_versions")
  <2>1. /\ <<"policy_version_id", "policy_versions">> \in Refers["clauses"]
        /\ <<"policy_version_id", "policy_versions">> # Owning
    BY DEF Refers, Owning
  <2> QED BY <2>1, ParentsWritten, AllTablesAre
<1>3. WriterIn(rows, by, "policy_versions") => WriterIn(rows, by, "policies")
  <2>1. <<"policy_id", "policies">> \in Refers["policy_versions"] /\ <<"policy_id", "policies">> # Owning
    BY DEF Refers, Owning
  <2> QED BY <2>1, ParentsWritten, AllTablesAre
<1>4. WriterIn(rows, by, "policies") => WriterIn(rows, by, "companies")
  <2>1. <<"company_id", "companies">> \in Refers["policies"] /\ <<"company_id", "companies">> # Owning
    BY DEF Refers, Owning
  <2> QED BY <2>1, ParentsWritten, AllTablesAre
<1> QED BY <1>1, <1>2, <1>3, <1>4

(* Rows that fit hold what the constraints of their tables demand. *)
LEMMA RowsKeepKeys ==
    ASSUME NEW rows, NEW s, SchemaOk(s), RowsOk(rows, s), NEW t \in AllTables, NEW w \in rows[t],
           NEW k \in s.tables[t].refs, k[1] \notin Nullable(s, t)
    PROVE  WriterIn(rows, w.by, k[2])
<1>1. RowOk(rows, s, t, w) /\ t \in Tables(s) \ Unwritten
  BY DEF RowsOk, RowOk
<1>2. KeyOk(k, s.tables[t], t) /\ WriterIn(rows, w.by, t)
  BY <1>1 DEF SchemaOk, TableOk, WriterIn
<1>3. k[1] \notin Blank[t]
  <2>1. k[1] \in DOMAIN s.tables[t].cols /\ ~s.tables[t].cols[k[1]].null
    BY <1>2 DEF KeyOk, Nullable
  <2>2. \A c \in Blank[t] \cap DOMAIN s.tables[t].cols : s.tables[t].cols[c].null
    BY <1>1 DEF SchemaOk, TableOk
  <2> QED BY <2>1, <2>2
<1>4. CASE <<k[1], k[2]>> \in Refers[t]
  <2>1. CASE <<k[1], k[2]>> = Owning
    <3>1. t = "policies"
      BY <1>4, <2>1, AllTablesAre DEF Refers, Owning
    <3>2. k[1] = "owning_department_id" /\ k[2] = "departments"
      BY <2>1 DEF Owning
    <3>3. "owning_department_id" \notin w.nulls
      BY <1>1, <3>2 DEF RowOk
    <3> QED BY <1>1, <3>1, <3>2, <3>3 DEF RowOk
  <2>2. CASE <<k[1], k[2]>> # Owning
    <3>1. WriterIn(rows, w.by, <<k[1], k[2]>>[2])
      BY <1>2, <1>4, <2>2, ParentsWritten
    <3> QED BY <3>1
  <2> QED BY <2>1, <2>2
<1>5. CASE <<k[1], k[2]>> \in Others[t]
  <2>1. \/ k[2] = t
        \/ t = "obligations" /\ k[2] = "policies"
    BY <1>1, <1>3, <1>5, AllTablesAre DEF Others, Blank, Unwritten
  <2> QED BY <1>2, <2>1, Chain
<1>6. CASE Named(t, k[1], k[2])
  <2>1. \/ k[2] = t
        \/ t = "clauses" /\ k[2] = "policies"
    BY <1>3, <1>6 DEF Blank, Named
  <2> QED BY <1>2, <2>1, Chain
<1> QED BY <1>2, <1>4, <1>5, <1>6 DEF KeyOk

\* The rows of a database fit its schema whenever the invariant holds.
LEMMA RowsInvImplies == RowsInv => RowsFitSchema
<1> SUFFICES ASSUME RowsInv, NEW t \in AllTables, NEW w \in db.rows[t]
             PROVE  /\ t \in Tables(db.schema)
                    /\ w.nulls \subseteq Nullable(db.schema, t)
                    /\ w.repeats \cap DOMAIN db.schema.indexes = {}
                    /\ \A k \in db.schema.tables[t].refs :
                          k[1] \notin Nullable(db.schema, t) => Wrote(w.by, k[2])
  BY DEF RowsFitSchema
<1>1. SchemaOk(db.schema) /\ RowsOk(db.rows, db.schema)
  BY DEF RowsInv
<1>2. RowOk(db.rows, db.schema, t, w)
  BY <1>1 DEF RowsOk
<1>3. \A k \in db.schema.tables[t].refs :
          k[1] \notin Nullable(db.schema, t) => Wrote(w.by, k[2])
  BY <1>1, RowsKeepKeys DEF Wrote, WriterIn
<1> QED BY <1>2, <1>3 DEF RowOk

(* Truncating with CASCADE empties a closed set of tables. *)
LEMMA CascadeClosed ==
    ASSUME NEW s, NEW T, T \subseteq Tables(s)
    PROVE  T \subseteq Cascade(s, T) /\ Closed(s, Cascade(s, T))
<1>1. ASSUME NEW u \in Cascade(s, T), NEW v \in Referencing(s, u), v \notin T PROVE v \in Cascade(s, T)
  <2>1. v \in Tables(s) \ T
    BY <1>1 DEF Referencing
  <2>2. ASSUME NEW D \in SUBSET (Tables(s) \ T), Closed(s, T \cup D) PROVE v \in D
    <3>1. u \in T \cup D
      BY <1>1, <2>2 DEF Cascade
    <3> QED BY <1>1, <2>2, <3>1 DEF Closed
  <2> QED BY <2>1, <2>2 DEF Cascade
<1> QED BY <1>1 DEF Cascade, Closed

\* The rows that truncating leaves have not lost their parents.
LEMMA TruncatedRowsOk ==
    ASSUME SchemaOk(db.schema), RowsOk(db.rows, db.schema), CanTruncate, NEW rows,
           rows = Truncated.rows, IsDb(db)
    PROVE  RowsOk(rows, db.schema)
<1> DEFINE E == Cascade(db.schema, TruncatedTables)
<1>0. rows = [t \in AllTables |-> IF t \in E THEN {} ELSE db.rows[t]]
  <2>1. db = [rev |-> db.rev, schema |-> db.schema, rows |-> db.rows]
    BY DEF IsDb
  <2> HIDE DEF E
  <2> QED BY <2>1 DEF Truncated, E
<1>1. Closed(db.schema, E)
  BY CascadeClosed DEF CanTruncate
<1> HIDE DEF E
<1>2. ASSUME NEW t \in AllTables, NEW w \in rows[t] PROVE RowOk(rows, db.schema, t, w)
  <2>1. t \notin E /\ w \in db.rows[t]
    BY <1>0, <1>2
  <2>2. RowOk(db.rows, db.schema, t, w)
    BY <2>1 DEF RowsOk
  <2>3. ASSUME NEW k \in Refers[t], WriterIn(db.rows, w.by, k[2]) PROVE WriterIn(rows, w.by, k[2])
    <3>1. <<k[1], k[2], "">> \in db.schema.tables[t].refs /\ t \in Tables(db.schema)
      BY <2>2 DEF RowOk, SchemaOk, TableOk
    <3>2. t \in Referencing(db.schema, k[2])
      BY <3>1 DEF Referencing
    <3>3. k[2] \notin E /\ k[2] \in AllTables
      <4>1. k[2] \in AllTables
        BY AllTablesAre DEF Refers
      <4> QED BY <4>1, <3>2, <1>1, <2>1 DEF Closed
    <3> QED BY <2>3, <3>3, <1>0 DEF WriterIn
  <2>4. t = "policies" => Owning \in Refers[t] /\ Owning[2] = "departments"
    BY DEF Refers, Owning
  <2> QED BY <2>2, <2>3, <2>4 DEF RowOk, Owning
<1> QED BY <1>0, <1>2 DEF RowsOk

-----------------------------------------------------------------------------
(* What is inserted.                                                       *)

(* The batches the writers insert: every row finds its parents. *)
BatchOk(batch) ==
    /\ DOMAIN batch \subseteq AllTables \ Unwritten
    /\ \A t \in DOMAIN batch :
          /\ batch[t].repeats # {} => t = "clauses" /\ batch[t].repeats = {VersionKey}
          /\ \A k \in Refers[t] : k # Owning \/ Owning[1] \notin batch[t].nulls =>
                \/ k[2] \in DOMAIN batch /\ batch[k[2]].by = batch[t].by
                \/ Wrote(batch[t].by, k[2])

\* A batch adds its writers and takes none away.
LEMMA WithRowsWriters ==
    ASSUME NEW rows, NEW batch, DOMAIN batch \subseteq AllTables, NEW by, NEW t \in AllTables
    PROVE  /\ WriterIn(rows, by, t) => WriterIn(WithRows(rows, batch), by, t)
           /\ t \in DOMAIN batch /\ batch[t].by = by => WriterIn(WithRows(rows, batch), by, t)
BY DEF WithRows, WriterIn

(* Rows that find their parents and are accepted keep the rows sound. *)
LEMMA WithRowsOk ==
    ASSUME NEW rows, NEW s, NEW batch, SchemaOk(s), RowsOk(rows, s), BatchOk(batch),
           \A t \in DOMAIN batch :
              /\ t \in Tables(s) /\ batch[t].nulls \subseteq Nullable(s, t)
              /\ batch[t].repeats \cap DOMAIN s.indexes = {}
              /\ \A k \in Refers[t] : Wrote(batch[t].by, k[2]) => WriterIn(rows, batch[t].by, k[2])
    PROVE  RowsOk(WithRows(rows, batch), s)
<1> DEFINE R == WithRows(rows, batch)
<1>1. DOMAIN R = AllTables /\ DOMAIN batch \subseteq AllTables \ Unwritten
  BY DEF WithRows, BatchOk
<1>2. \A t \in AllTables : R[t] = IF t \in DOMAIN batch THEN rows[t] \cup {batch[t]} ELSE rows[t]
  BY DEF WithRows
<1>3. \A by : \A t \in AllTables :
         /\ WriterIn(rows, by, t) => WriterIn(R, by, t)
         /\ t \in DOMAIN batch /\ batch[t].by = by => WriterIn(R, by, t)
  BY <1>1, WithRowsWriters
<1> HIDE DEF R
<1>4. \A t \in AllTables : \A k \in Refers[t] : k[2] \in AllTables
  BY AllTablesAre DEF Refers
<1>5. Owning \in Refers["policies"] /\ Owning[2] = "departments" /\ Owning[1] = "owning_department_id"
  BY DEF Refers, Owning
<1>6. ASSUME NEW t \in AllTables, NEW w \in rows[t] PROVE RowOk(R, s, t, w)
  <2>1. RowOk(rows, s, t, w)
    BY DEF RowsOk
  <2> QED BY <2>1, <1>3, <1>4, AllTablesAre DEF RowOk
<1>7. ASSUME NEW t \in DOMAIN batch PROVE RowOk(R, s, t, batch[t])
  <2>1. t \in AllTables
    BY <1>1
  <2>2. ASSUME NEW k \in Refers[t], k # Owning \/ Owning[1] \notin batch[t].nulls
        PROVE  WriterIn(R, batch[t].by, k[2])
    <3>1. \/ k[2] \in DOMAIN batch /\ batch[k[2]].by = batch[t].by
          \/ Wrote(batch[t].by, k[2])
      BY <2>2 DEF BatchOk
    <3> QED BY <3>1, <1>3, <1>4, <2>1
  <2>3. t = "policies" /\ Owning[1] \notin batch[t].nulls => WriterIn(R, batch[t].by, "departments")
    BY <1>5, <2>2
  <2>4. batch[t].repeats # {} => t = "clauses" /\ batch[t].repeats = {VersionKey}
    BY DEF BatchOk
  <2> QED BY <1>1, <1>5, <2>2, <2>3, <2>4 DEF RowOk, Owning
<1>8. ASSUME NEW t \in AllTables, NEW w \in R[t] PROVE RowOk(R, s, t, w)
  <2>1. w \in rows[t] \/ (t \in DOMAIN batch /\ w = batch[t])
    BY <1>2, <1>8
  <2> QED BY <2>1, <1>6, <1>7
<1> QED BY <1>1, <1>8 DEF RowsOk, R

\* An accepted batch keeps the invariant, also while a migration is under way.
LEMMA InsertKeepsRows ==
    ASSUME RowsInv, NEW batch, BatchOk(batch), Insert(batch)
    PROVE  RowsInv' /\ db'.schema = db.schema /\ db'.rev = db.rev /\ (Running' <=> Running)
<1>1. IsDb(db) /\ SchemaOk(db.schema) /\ RowsOk(db.rows, db.schema)
  BY DEF RowsInv
<1>2. db'.rev = db.rev /\ db'.schema = db.schema /\ db'.rows = WithRows(db.rows, batch) /\ IsDb(db)'
  <2>1. db = [rev |-> db.rev, schema |-> db.schema, rows |-> db.rows]
    BY <1>1 DEF IsDb
  <2>2. db' = [rev |-> db.rev, schema |-> db.schema, rows |-> WithRows(db.rows, batch)]
    BY <2>1 DEF Insert
  <2> QED BY <2>2, <1>1 DEF IsDb
<1>3. ASSUME NEW t \in DOMAIN batch
      PROVE  /\ t \in Tables(db.schema) /\ batch[t].nulls \subseteq Nullable(db.schema, t)
             /\ batch[t].repeats \cap DOMAIN db.schema.indexes = {}
             /\ t \notin run.locked
             /\ \A k \in Refers[t] : k[2] \notin run.locked
  <2>1. Accepts(db.schema, t, batch[t]) /\ Unlocked(db.schema, t)
    BY DEF Insert, CanInsert
  <2>2. t \in Tables(db.schema)
    BY <2>1 DEF Accepts, Serves
  <2>3. \A k \in Refers[t] : <<k[1], k[2], "">> \in db.schema.tables[t].refs
    BY <1>1, <2>2 DEF SchemaOk, TableOk
  <2>4. ASSUME NEW k \in Refers[t] PROVE k[2] \notin run.locked
    <3>1. \A l \in db.schema.tables[t].refs : l[2] \notin run.locked
      BY <2>1 DEF Unlocked
    <3>2. <<k[1], k[2], "">> \in db.schema.tables[t].refs /\ <<k[1], k[2], "">>[2] = k[2]
      BY <2>3
    <3> QED BY <3>1, <3>2
  <2> QED BY <2>1, <2>2, <2>4 DEF Accepts, Unlocked
<1>4. RowsOk(WithRows(db.rows, batch), db.schema)
  <2>1. \A by, t : Wrote(by, t) => WriterIn(db.rows, by, t)
    BY DEF Wrote, WriterIn
  <2> QED BY <1>1, <1>3, <2>1, WithRowsOk
<1>5. CASE ~Running
  BY <1>1, <1>2, <1>4, <1>5 DEF RowsInv, Insert, Running
<1>6. CASE Running
  <2>1. /\ run = [dir |-> run.dir, next |-> run.next, db |-> run.db, locked |-> run.locked]
        /\ run.dir \in {"up", "down"} /\ run.next \in Nat \ {0}
        /\ IsDb(run.db) /\ SchemaOk(run.db.schema) /\ RowsOk(run.db.rows, run.db.schema)
        /\ \A t \in AllTables \ run.locked : Agree(t)
    BY <1>6 DEF RowsInv
  <2>2. /\ run'.dir = run.dir /\ run'.next = run.next /\ run'.locked = run.locked
        /\ run' = [dir |-> run'.dir, next |-> run'.next, db |-> run'.db, locked |-> run'.locked]
        /\ run'.db.rev = run.db.rev /\ run'.db.schema = run.db.schema
        /\ run'.db.rows = WithRows(run.db.rows, batch) /\ IsDb(run.db)'
    <3>1. run.db = [rev |-> run.db.rev, schema |-> run.db.schema, rows |-> run.db.rows]
      BY <2>1 DEF IsDb
    <3>2. run' = [run EXCEPT !.db = [rev |-> run.db.rev, schema |-> run.db.schema,
                                     rows |-> WithRows(run.db.rows, batch)]]
      BY <1>6, <2>1, <3>1 DEF Insert
    <3>3. run' = [dir |-> run.dir, next |-> run.next, locked |-> run.locked,
                  db |-> [rev |-> run.db.rev, schema |-> run.db.schema,
                          rows |-> WithRows(run.db.rows, batch)]]
      BY <2>1, <3>2
    <3> QED BY <3>3, <2>1 DEF IsDb
  <2>3. ASSUME NEW t \in DOMAIN batch
        PROVE  /\ t \in Tables(run.db.schema) /\ batch[t].nulls \subseteq Nullable(run.db.schema, t)
               /\ batch[t].repeats \cap DOMAIN run.db.schema.indexes = {}
               /\ \A k \in Refers[t] : Wrote(batch[t].by, k[2]) => WriterIn(run.db.rows, batch[t].by, k[2])
    <3>1. t \in AllTables /\ \A k \in Refers[t] : k[2] \in AllTables
      BY AllTablesAre DEF Refers, BatchOk
    <3>2. Agree(t) /\ \A k \in Refers[t] : Agree(k[2])
      BY <1>3, <2>1, <3>1
    <3>3. batch[t].repeats \cap DOMAIN run.db.schema.indexes = {}
      <4>1. batch[t].repeats # {} => t = "clauses" /\ batch[t].repeats = {VersionKey}
        BY DEF BatchOk
      <4>2. batch[t].repeats \cap DOMAIN db.schema.indexes = {}
        BY <1>3
      <4>3. t = "clauses" =>
              (VersionKey \in DOMAIN db.schema.indexes <=> VersionKey \in DOMAIN run.db.schema.indexes)
        BY <3>2 DEF Agree
      <4> QED BY <4>1, <4>2, <4>3
    <3>4. t \in Tables(run.db.schema) /\ batch[t].nulls \subseteq Nullable(run.db.schema, t)
      BY <1>3, <3>2 DEF Agree, Nullable
    <3>5. ASSUME NEW k \in Refers[t], Wrote(batch[t].by, k[2])
          PROVE  WriterIn(run.db.rows, batch[t].by, k[2])
      <4>1. db.rows[k[2]] = run.db.rows[k[2]]
        BY <3>2 DEF Agree
      <4> QED BY <3>5, <4>1 DEF Wrote, WriterIn
    <3> QED BY <3>3, <3>4, <3>5
  <2>4. RowsOk(WithRows(run.db.rows, batch), run.db.schema)
    BY <2>1, <2>3, WithRowsOk
  <2>5. ASSUME NEW t \in AllTables \ run'.locked PROVE Agree(t)'
    <3>1. Agree(t)
      BY <2>1, <2>2
    <3>2. WithRows(db.rows, batch)[t] = WithRows(run.db.rows, batch)[t]
      BY <3>1 DEF Agree, WithRows
    <3> QED BY <1>2, <2>2, <3>1, <3>2 DEF Agree
  <2>6. Running'
    BY <2>2, <1>6 DEF Running
  <2> QED BY <1>1, <1>2, <1>4, <2>1, <2>2, <2>4, <2>5, <2>6, <1>6 DEF RowsInv
<1> QED BY <1>2, <1>5, <1>6 DEF Insert, Running

(* What the writers insert. *)
LEMMA PlainIs ==
    ASSUME NEW by, NEW T
    PROVE  /\ DOMAIN Plain(by, T) = T
           /\ \A t \in T : /\ Plain(by, T)[t].by = by /\ Plain(by, T)[t].nulls = {}
                           /\ Plain(by, T)[t].repeats = {}
BY DEF Plain, Row

\* An upload.
LEMMA UploadRowsOk == ASSUME NEW kind PROVE BatchOk(UploadRows(kind))
<1> DEFINE P == Plain("app", {"companies", "users", "policy_versions", "stored_files",
                              "compliance_audit_logs"})
           Q == [policies |-> Row("app", {"owning_department_id"}, {}), clauses |-> ClauseOf(kind)]
           B == UploadRows(kind)
<1>1. B = P ++ Q
  BY DEF UploadRows
<1>2. /\ DOMAIN P = {"companies", "users", "policy_versions", "stored_files", "compliance_audit_logs"}
      /\ \A t \in DOMAIN P : P[t].by = "app" /\ P[t].nulls = {} /\ P[t].repeats = {}
  BY PlainIs
<1>3. /\ DOMAIN Q = {"policies", "clauses"} /\ \A t \in DOMAIN Q : Q[t].by = "app"
      /\ Q["policies"].nulls = {"owning_department_id"} /\ Q["policies"].repeats = {}
      /\ Q["clauses"].repeats \subseteq {VersionKey}
  BY DEF Row, ClauseOf, VersionKey
<1> HIDE DEF P, Q, B
<1>4. /\ DOMAIN B = {"companies", "users", "policy_versions", "stored_files", "compliance_audit_logs",
                     "policies", "clauses"}
      /\ \A t \in DOMAIN B : B[t].by = "app"
      /\ \A t \in DOMAIN B : t # "clauses" => B[t].repeats = {}
      /\ B["clauses"].repeats \subseteq {VersionKey}
      /\ B["policies"].nulls = {"owning_department_id"}
  BY <1>1, <1>2, <1>3 DEF ++
<1>5. \A t \in DOMAIN B : \A k \in Refers[t] : k # Owning => k[2] \in DOMAIN B
  BY <1>4 DEF Refers, Owning
<1>6. \A t \in DOMAIN B : Owning \in Refers[t] => t = "policies"
  BY <1>4 DEF Refers, Owning
<1>7. DOMAIN B \subseteq AllTables \ Unwritten
  BY <1>4, AllTablesAre DEF Unwritten
<1> QED BY <1>4, <1>5, <1>6, <1>7 DEF BatchOk, Owning, B

\* The knowledge base.
LEMMA KnowledgeRowsOk == BatchOk(KnowledgeRows)
<1> DEFINE B == KnowledgeRows
<1>1. /\ DOMAIN B = {"regulatory_frameworks", "regulatory_clauses"}
      /\ \A t \in DOMAIN B : B[t].by = "kb" /\ B[t].nulls = {} /\ B[t].repeats = {}
  BY PlainIs DEF KnowledgeRows
<1> HIDE DEF B
<1>2. \A t \in DOMAIN B : \A k \in Refers[t] : k[2] \in DOMAIN B
  BY <1>1 DEF Refers
<1>3. DOMAIN B \subseteq AllTables \ Unwritten
  BY <1>1, AllTablesAre DEF Unwritten
<1> QED BY <1>1, <1>2, <1>3 DEF BatchOk, B

\* The analysis of what was uploaded: its parents are those of the clauses.
LEMMA AnalysisRowsOk ==
    ASSUME RowsInv, Wrote("app", "clauses") PROVE BatchOk(AnalysisRows)
<1> DEFINE P == Plain("app", {"obligations", "regulatory_mappings", "conflicts", "recommendations",
                              "compliance_audit_logs"})
           Q == KnowledgeRows
           B == AnalysisRows
<1>1. B = P ++ Q
  BY DEF AnalysisRows
<1>2. /\ DOMAIN P = {"obligations", "regulatory_mappings", "conflicts", "recommendations",
                     "compliance_audit_logs"}
      /\ \A t \in DOMAIN P : P[t].by = "app" /\ P[t].nulls = {} /\ P[t].repeats = {}
  BY PlainIs
<1>3. /\ DOMAIN Q = {"regulatory_frameworks", "regulatory_clauses"}
      /\ \A t \in DOMAIN Q : Q[t].by = "kb" /\ Q[t].nulls = {} /\ Q[t].repeats = {}
  BY PlainIs DEF KnowledgeRows
<1> HIDE DEF P, Q, B
<1>4. /\ DOMAIN B = {"obligations", "regulatory_mappings", "conflicts", "recommendations",
                     "compliance_audit_logs", "regulatory_frameworks", "regulatory_clauses"}
      /\ \A t \in DOMAIN B : B[t].repeats = {}
      /\ \A t \in DOMAIN P : B[t].by = "app"
      /\ \A t \in DOMAIN Q : B[t].by = "kb"
  BY <1>1, <1>2, <1>3 DEF ++
<1>5. Wrote("app", "policies") /\ Wrote("app", "companies")
  <2>1. RowsOk(db.rows, db.schema)
    BY DEF RowsInv
  <2>2. \A t : Wrote("app", t) <=> WriterIn(db.rows, "app", t)
    BY DEF Wrote, WriterIn
  <2> QED BY <2>1, <2>2, Chain
<1>6. \A t \in DOMAIN P : \A k \in Refers[t] : k[2] \in DOMAIN P \/ Wrote("app", k[2])
  BY <1>2, <1>5 DEF Refers
<1>7. \A t \in DOMAIN Q : \A k \in Refers[t] : k[2] \in DOMAIN Q
  BY <1>3 DEF Refers
<1>8. DOMAIN B \subseteq AllTables \ Unwritten
  BY <1>4, AllTablesAre DEF Unwritten
<1>9. DOMAIN B = DOMAIN P \cup DOMAIN Q
  BY <1>2, <1>3, <1>4
<1>10. ASSUME NEW t \in DOMAIN B, NEW k \in Refers[t]
       PROVE  \/ k[2] \in DOMAIN B /\ B[k[2]].by = B[t].by
              \/ Wrote(B[t].by, k[2])
  BY SMTT(30), <1>4, <1>6, <1>7, <1>9
<1> QED BY <1>4, <1>8, <1>10 DEF BatchOk, B

\* The tables of the seed, by name.
LEMMA SeedTablesAre ==
    SeedTables = {"companies", "departments", "users", "policies", "policy_versions",
                  "regulatory_frameworks", "regulatory_clauses"}
<1>1. /\ DOMAIN SeedOrganisation = {"companies", "departments", "users"}
      /\ DOMAIN SeedPolicies = {"policies", "policy_versions"}
      /\ DOMAIN SeedFrameworks = {"regulatory_frameworks", "regulatory_clauses"}
  BY DEF SeedOrganisation, SeedPolicies, SeedFrameworks
<1> QED BY <1>1 DEF SeedTables, SeedCounts, ++

\* A tool of scripts/setup.
LEMMA SeedRowsOk == BatchOk(Plain("seed", SeedTables))
<1> DEFINE B == Plain("seed", SeedTables)
<1>1. /\ DOMAIN B = SeedTables
      /\ \A t \in DOMAIN B : B[t].by = "seed" /\ B[t].nulls = {} /\ B[t].repeats = {}
  BY PlainIs
<1> HIDE DEF B
<1>2. \A t \in DOMAIN B : \A k \in Refers[t] : k[2] \in DOMAIN B
  BY <1>1, SeedTablesAre DEF Refers
<1>3. DOMAIN B \subseteq AllTables \ Unwritten
  BY <1>1, SeedTablesAre, AllTablesAre DEF Unwritten
<1> QED BY <1>1, <1>2, <1>3 DEF BatchOk, B

\* A tool of scripts/setup.
LEMMA AcmeRowsOk == BatchOk(AcmeRows)
<1> DEFINE B == AcmeRows
<1>1. /\ DOMAIN B = {"companies", "users"}
      /\ \A t \in DOMAIN B : B[t].by = "acme" /\ B[t].nulls = {} /\ B[t].repeats = {}
  BY PlainIs DEF AcmeRows
<1> HIDE DEF B
<1>2. \A t \in DOMAIN B : \A k \in Refers[t] : k[2] \in DOMAIN B
  BY <1>1 DEF Refers
<1>3. DOMAIN B \subseteq AllTables \ Unwritten
  BY <1>1, AllTablesAre DEF Unwritten
<1> QED BY <1>1, <1>2, <1>3 DEF BatchOk, B

\* A tool of scripts/setup.
LEMMA DemoRowsOk == BatchOk(DemoRows)
<1> DEFINE P == Plain("demo", {"companies", "users", "policy_versions", "obligations"})
           Q == [policies |-> Row("demo", {"owning_department_id"}, {}),
                 clauses |-> Row("demo", {"clause_type"}, {})]
           F == DemoFindings
           B == DemoRows
<1>1. B = (P ++ Q) ++ F
  BY DEF DemoRows, DemoPolicies
<1>2. /\ DOMAIN P = {"companies", "users", "policy_versions", "obligations"}
      /\ \A t \in DOMAIN P : P[t].by = "demo" /\ P[t].nulls = {} /\ P[t].repeats = {}
  BY PlainIs
<1>3. /\ DOMAIN Q = {"policies", "clauses"}
      /\ \A t \in DOMAIN Q : Q[t].by = "demo" /\ Q[t].repeats = {}
      /\ Q["policies"].nulls = {"owning_department_id"}
  BY DEF Row
<1>4. /\ DOMAIN F = {"regulatory_mappings", "conflicts", "recommendations"}
      /\ \A t \in DOMAIN F : F[t].by = "demo" /\ F[t].nulls = {} /\ F[t].repeats = {}
  BY PlainIs DEF DemoFindings
<1> HIDE DEF P, Q, F, B
<1>5. /\ DOMAIN B = {"companies", "users", "policy_versions", "obligations", "policies", "clauses",
                     "regulatory_mappings", "conflicts", "recommendations"}
      /\ \A t \in DOMAIN B : B[t].by = "demo" /\ B[t].repeats = {}
      /\ B["policies"].nulls = {"owning_department_id"}
  BY <1>1, <1>2, <1>3, <1>4 DEF ++
<1>6. \A t \in DOMAIN B : \A k \in Refers[t] : k # Owning => k[2] \in DOMAIN B
  BY <1>5 DEF Refers, Owning
<1>7. \A t \in DOMAIN B : Owning \in Refers[t] => t = "policies"
  BY <1>5 DEF Refers, Owning
<1>8. DOMAIN B \subseteq AllTables \ Unwritten
  BY <1>5, AllTablesAre DEF Unwritten
<1> QED BY SMTT(30), <1>5, <1>6, <1>7, <1>8 DEF BatchOk, Owning, B

-----------------------------------------------------------------------------
(* Migrations keep the rows sound.                                         *)

\* The migration under way has statements for the revision it is at.
LEMMA ScriptUnderWay ==
    ASSUME Running, MoreRevisions, run.dir \in {"up", "down"}, IsDb(run.db)
    PROVE  Moves(run.dir, run.db.rev) /\ Statements = Script(run.dir, run.db.rev)
<1>1. run.db.rev \in 0..14
  BY HeadIs DEF IsDb
<1>2. Moves(run.dir, run.db.rev)
  <2>1. CASE run.dir = "up"
    <3>1. run.db.rev < 14
      BY <2>1, HeadIs DEF MoreRevisions
    <3> QED BY <1>1, <2>1, <3>1 DEF Moves
  <2>2. CASE run.dir = "down"
    <3>1. run.db.rev > 0
      BY <2>2 DEF MoreRevisions
    <3> QED BY <1>1, <2>2, <3>1 DEF Moves
  <2> QED BY <2>1, <2>2
<1>3. Statements = Script(run.dir, run.db.rev)
  BY DEF Statements, Script
<1> QED BY <1>2, <1>3

(* The parts of the invariant about a migration under way. *)
RunOk ==
    /\ run = [dir |-> run.dir, next |-> run.next, db |-> run.db, locked |-> run.locked]
    /\ run.dir \in {"up", "down"} /\ run.next \in Nat \ {0}
    /\ IsDb(run.db) /\ SchemaOk(run.db.schema) /\ RowsOk(run.db.rows, run.db.schema)

(* What a statement does to the migration under way. *)
Executes(op) ==
    /\ Regular(run.dir, op) /\ Allowed(op) /\ op = Statements[run.next]
    /\ Moves(run.dir, run.db.rev) /\ Statements = Script(run.dir, run.db.rev)
    /\ run.next \in 1..Len(Statements)
    /\ run'.dir = run.dir /\ run'.next = run.next + 1
    /\ run'.db.rev = run.db.rev
    /\ run'.db.schema = Statement(op, run.db.schema)
    /\ run'.db.rows = OnRows(op, run.db.rows)
    /\ run'.locked = run.locked \cup Locks(op, run.db.schema)
    /\ run' = [dir |-> run'.dir, next |-> run'.next, db |-> run'.db, locked |-> run'.locked]
    /\ run'.db = [rev |-> run'.db.rev, schema |-> run'.db.schema, rows |-> run'.db.rows]
    /\ Running /\ Running' /\ UNCHANGED <<db, tool, failed>>

\* Executing a statement is all that ExecuteStatement does.
LEMMA StatementExecutes ==
    ASSUME RowsInv, ExecuteStatement
    PROVE  \E op : Executes(op)
<1> DEFINE op == Statements[run.next]
<1>1. RunOk
  BY DEF RowsInv, RunOk, ExecuteStatement
<1>2. Moves(run.dir, run.db.rev) /\ Statements = Script(run.dir, run.db.rev)
  BY <1>1, ScriptUnderWay DEF RunOk, ExecuteStatement
<1>3. run.next \in 1..Len(Statements)
  <2>1. run.next \in Nat /\ run.next # 0 /\ run.next <= Len(Statements)
    BY <1>1 DEF RunOk, ExecuteStatement
  <2> QED BY <2>1
<1>4. Regular(run.dir, op)
  BY <1>2, <1>3, ScriptsRegular
<1>5. run.db = [rev |-> run.db.rev, schema |-> run.db.schema, rows |-> run.db.rows]
  BY <1>1 DEF RunOk, IsDb
<1>6. Allowed(op) /\ UNCHANGED <<db, tool, failed>> /\ Running
  BY DEF ExecuteStatement
<1>7. run' = [run EXCEPT !.next = @ + 1,
                         !.db.schema = Statement(op, @),
                         !.db.rows = OnRows(op, @),
                         !.locked = @ \cup Locks(op, run.db.schema)]
  BY DEF ExecuteStatement
<1> HIDE DEF op
<1>8. run' = [dir |-> run.dir, next |-> run.next + 1,
              locked |-> run.locked \cup Locks(op, run.db.schema),
              db |-> [rev |-> run.db.rev, schema |-> Statement(op, run.db.schema),
                      rows |-> OnRows(op, run.db.rows)]]
  <2>1. run = [dir |-> run.dir, next |-> run.next, db |-> run.db, locked |-> run.locked]
    BY <1>1 DEF RunOk
  <2> QED BY <1>5, <1>7, <2>1
<1>9. /\ run'.dir = run.dir /\ run'.next = run.next + 1
      /\ run'.db.rev = run.db.rev
      /\ run'.db.schema = Statement(op, run.db.schema)
      /\ run'.db.rows = OnRows(op, run.db.rows)
      /\ run'.locked = run.locked \cup Locks(op, run.db.schema)
      /\ run' = [dir |-> run'.dir, next |-> run'.next, db |-> run'.db, locked |-> run'.locked]
      /\ run'.db = [rev |-> run'.db.rev, schema |-> run'.db.schema, rows |-> run'.db.rows]
  BY <1>8
<1>10. Running'
  BY <1>6, <1>9 DEF Running
<1>11. op = Statements[run.next]
  BY DEF op
<1> QED BY <1>2, <1>3, <1>4, <1>6, <1>9, <1>10, <1>11 DEF Executes

(* A statement leaves a table it does not lock as it is. *)
LEMMA UnlockedAgrees ==
    ASSUME NEW d, NEW op, NEW s, NEW rows, NEW t \in AllTables, Regular(d, op), SchemaOk(s), RowsOk(rows, s),
           SchemaAllows(op, s), t \notin Locks(op, s), NEW S, S = Statement(op, s)
    PROVE  /\ t \in Tables(S) <=> t \in Tables(s)
           /\ t \in Tables(s) => S.tables[t] = s.tables[t]
           /\ OnRows(op, rows)[t] = rows[t]
           /\ t = "clauses" => (VersionKey \in DOMAIN S.indexes <=> VersionKey \in DOMAIN s.indexes)
<1>0. OnTable(op) => t # op.table /\ op.table \in DOMAIN rows
  BY DEF Locks, RowsOk, Regular
<1>1. t = "clauses" => (VersionKey \in DOMAIN S.indexes <=> VersionKey \in DOMAIN s.indexes)
  BY <1>0, VersionKeyMoves DEF SchemaOk
<1>2. OnRows(op, rows)[t] = rows[t]
  <2>0. t \in DOMAIN rows
    BY DEF RowsOk
  <2>1. CASE op.do \in {"create_table", "drop_table"}
    BY <1>0, <2>0, <2>1, RowsCleared DEF OnTable
  <2>2. CASE op.do \in {"add_column", "drop_column", "backfill"}
    BY <1>0, <2>0, <2>2, RowsChanged DEF OnTable, AltersTable
  <2>3. CASE op.do \notin {"create_table", "drop_table", "add_column", "drop_column", "backfill"}
    BY <2>3, RowsUntouched
  <2> QED BY <2>1, <2>2, <2>3
<1>3. (t \in Tables(S) <=> t \in Tables(s)) /\ (t \in Tables(s) => S.tables[t] = s.tables[t])
  <2>1. CASE op.do = "create_table"
    <3>1. op.table \notin Tables(s) /\ t # op.table
      BY <1>0, <2>1 DEF SchemaAllows, OnTable
    <3> QED BY <2>1, <3>1, TablesCreated
  <2>2. CASE op.do = "drop_table"
    <3>1. t # op.table
      BY <1>0, <2>2 DEF OnTable
    <3> QED BY <2>2, <3>1, TablesDropped
  <2>3. CASE AltersTable(op)
    <3>1. t # op.table
      BY <1>0, <2>3 DEF OnTable
    <3> QED BY <2>3, <3>1, TablesAltered
  <2>4. CASE ~AltersTable(op) /\ op.do # "create_table" /\ op.do # "drop_table"
    BY <2>4, TablesKept DEF Tables
  <2> QED BY <2>1, <2>2, <2>3, <2>4
<1> QED BY <1>1, <1>2, <1>3

\* A statement keeps the rows sound, and what is not locked unchanged.
LEMMA ExecuteKeepsRows ==
    ASSUME RowsInv, ExecuteStatement PROVE RowsInv'
<1>1. PICK op : Executes(op)
  BY StatementExecutes
<1>2. /\ RunOk /\ IsDb(db) /\ SchemaOk(db.schema) /\ RowsOk(db.rows, db.schema)
      /\ \A t \in AllTables \ run.locked : Agree(t)
  BY DEF RowsInv, RunOk, ExecuteStatement
<1>3. SchemaAllows(op, run.db.schema) /\ RowsAllow(op, run.db.rows) /\ Regular(run.dir, op)
  BY <1>1 DEF Executes, Allowed
<1>4. SchemaOk(run'.db.schema) /\ RowsOk(run'.db.rows, run'.db.schema)
  <2>1. SchemaOk(Statement(op, run.db.schema))
    BY <1>2, <1>3, StatementOk DEF RunOk
  <2>2. RowsOk(OnRows(op, run.db.rows), Statement(op, run.db.schema))
    BY <1>2, <1>3, StatementRowsOk DEF RunOk
  <2> QED BY <1>1, <2>1, <2>2 DEF Executes
<1>5. ASSUME NEW t \in AllTables, t \notin run'.locked PROVE Agree(t)'
  <2>1. t \notin run.locked /\ t \notin Locks(op, run.db.schema)
    BY <1>1, <1>5 DEF Executes
  <2>2. /\ t \in Tables(run'.db.schema) <=> t \in Tables(run.db.schema)
        /\ t \in Tables(run.db.schema) => run'.db.schema.tables[t] = run.db.schema.tables[t]
        /\ OnRows(op, run.db.rows)[t] = run.db.rows[t]
        /\ t = "clauses" => (VersionKey \in DOMAIN run'.db.schema.indexes <=> VersionKey \in DOMAIN run.db.schema.indexes)
    <3>1. run'.db.schema = Statement(op, run.db.schema)
      BY <1>1 DEF Executes
    <3>2. SchemaOk(run.db.schema) /\ RowsOk(run.db.rows, run.db.schema)
      BY <1>2 DEF RunOk
    <3> QED BY <1>3, <2>1, <3>1, <3>2, UnlockedAgrees
  <2>3. Agree(t) /\ db' = db /\ run'.db.rows = OnRows(op, run.db.rows)
    BY <1>1, <1>2, <2>1 DEF Executes
  <2> QED BY <2>2, <2>3 DEF Agree
<1>6. IsDb(run.db)' /\ run'.next \in Nat \ {0} /\ run'.dir \in {"up", "down"}
  BY <1>1, <1>2 DEF IsDb, RunOk, Executes
<1>7. db' = db /\ run' = [dir |-> run'.dir, next |-> run'.next, db |-> run'.db, locked |-> run'.locked]
  BY <1>1 DEF Executes
<1> QED BY <1>2, <1>4, <1>5, <1>6, <1>7 DEF RowsInv

\* An empty database.
LEMMA DbInitRows == DbInit => RowsInv
<1> SUFFICES ASSUME DbInit PROVE RowsInv
  OBVIOUS
<1>1. IsDb(db)
  BY HeadIs DEF IsDb, DbInit
<1>2. Tables(db.schema) = {} /\ DOMAIN db.schema.indexes = {} /\ SchemaOk(db.schema)
  BY DEF DbInit, EmptySchema, SchemaOk, Tables
<1>3. RowsOk(db.rows, db.schema)
  BY DEF DbInit, RowsOk
<1>4. ~Running
  BY DEF DbInit, Running, NoRun
<1> QED BY <1>1, <1>2, <1>3, <1>4 DEF RowsInv

\* A migration starts from what is committed.
LEMMA StartKeepsRows ==
    ASSUME RowsInv, NEW dir \in {"up", "down"}, StartRun(dir) PROVE RowsInv'
<1>1. /\ IsDb(db) /\ SchemaOk(db.schema) /\ RowsOk(db.rows, db.schema) /\ db' = db
  BY DEF RowsInv, StartRun
<1>2. run' = [dir |-> dir, next |-> 1, db |-> db, locked |-> {}]
  BY DEF StartRun
<1>3. /\ run' = [dir |-> run'.dir, next |-> run'.next, db |-> run'.db, locked |-> run'.locked]
      /\ run'.dir \in {"up", "down"} /\ run'.next \in Nat \ {0} /\ run'.db = db'
  BY <1>1, <1>2
<1>4. \A t : Agree(t)'
  BY <1>3 DEF Agree
<1> QED BY <1>1, <1>3, <1>4 DEF RowsInv

\* Going from revision to revision changes neither schema nor rows.
LEMMA FinishKeepsRows ==
    ASSUME RowsInv, FinishRevision
    PROVE  /\ RowsInv' /\ db' = db /\ run'.next = 1 /\ run'.dir = run.dir
           /\ run'.db.schema = run.db.schema /\ run'.db.rows = run.db.rows
           /\ run'.db.rev = IF run.dir = "up" THEN run.db.rev + 1 ELSE run.db.rev - 1
<1>1. /\ IsDb(db) /\ SchemaOk(db.schema) /\ RowsOk(db.rows, db.schema) /\ db' = db /\ RunOk
      /\ \A t \in AllTables \ run.locked : Agree(t)
  BY DEF RowsInv, FinishRevision, RunOk
<1> DEFINE r == IF run.dir = "up" THEN run.db.rev + 1 ELSE run.db.rev - 1
<1>2. run' = [dir |-> run.dir, next |-> 1, locked |-> run.locked,
              db |-> [rev |-> r, schema |-> run.db.schema, rows |-> run.db.rows]]
  <2>1. run = [dir |-> run.dir, next |-> run.next, db |-> run.db, locked |-> run.locked]
    BY <1>1 DEF RunOk
  <2>2. run.db = [rev |-> run.db.rev, schema |-> run.db.schema, rows |-> run.db.rows]
    BY <1>1 DEF RunOk, IsDb
  <2>3. run' = [run EXCEPT !.next = 1, !.db.rev = IF run.dir = "up" THEN @ + 1 ELSE @ - 1]
    BY DEF FinishRevision
  <2> QED BY <2>1, <2>2, <2>3
<1>3. r \in 0..HeadRevision
  <2>1. run.db.rev \in 0..14
    BY <1>1, HeadIs DEF RunOk, IsDb
  <2>2. Moves(run.dir, run.db.rev)
    BY <1>1, ScriptUnderWay DEF RunOk, FinishRevision
  <2> QED BY <2>1, <2>2, HeadIs DEF Moves
<1> HIDE DEF r
<1>4. /\ run' = [dir |-> run'.dir, next |-> run'.next, db |-> run'.db, locked |-> run'.locked]
      /\ run'.dir = run.dir /\ run'.next = 1 /\ run'.locked = run.locked
      /\ run'.db = [rev |-> run'.db.rev, schema |-> run'.db.schema, rows |-> run'.db.rows]
      /\ run'.db.rev = r /\ run'.db.schema = run.db.schema /\ run'.db.rows = run.db.rows
  BY <1>2
<1>5. IsDb(run.db)'
  BY <1>3, <1>4 DEF IsDb
<1>6. ASSUME NEW t \in AllTables \ run'.locked PROVE Agree(t)'
  <2>1. Agree(t)
    BY <1>1, <1>4
  <2> QED BY <2>1, <1>1, <1>4 DEF Agree
<1>7. RunOk'
  BY <1>1, <1>4, <1>5 DEF RunOk
<1>8. RowsInv'
  BY <1>1, <1>6, <1>7 DEF RowsInv, RunOk
<1> QED BY <1>1, <1>4, <1>8 DEF r

\* Truncating keeps the rows sound.
LEMMA TruncateKeepsRows ==
    ASSUME RowsInv, CanTruncate, ~Running, db' = Truncated, run' = run
    PROVE  RowsInv' /\ db'.schema = db.schema /\ db'.rev = db.rev
<1>1. IsDb(db) /\ SchemaOk(db.schema) /\ RowsOk(db.rows, db.schema)
  BY DEF RowsInv
<1>2. /\ db'.schema = db.schema /\ db'.rev = db.rev
      /\ db' = [rev |-> db'.rev, schema |-> db'.schema, rows |-> db'.rows]
  <2>1. db = [rev |-> db.rev, schema |-> db.schema, rows |-> db.rows]
    BY <1>1 DEF IsDb
  <2> DEFINE E == Cascade(db.schema, TruncatedTables)
  <2>2. db' = [db EXCEPT !.rows = [t \in AllTables |-> IF t \in E THEN {} ELSE @[t]]]
    BY DEF Truncated
  <2> HIDE DEF E
  <2> QED BY <2>1, <2>2
<1>3. RowsOk(db'.rows, db.schema)
  BY <1>1, TruncatedRowsOk
<1> QED BY <1>1, <1>2, <1>3 DEF RowsInv, IsDb, Running

\* Every step keeps the rows sound.
LEMMA RowsInvStep == RowsInv /\ [DbNext]_dbVars => RowsInv'
<1> SUFFICES ASSUME RowsInv, [DbNext]_dbVars PROVE RowsInv'
  OBVIOUS
<1>1. ASSUME NEW dir \in {"up", "down"}, StartRun(dir) PROVE RowsInv'
  BY <1>1, StartKeepsRows
<1>2. CASE ExecuteStatement
  BY <1>2, ExecuteKeepsRows
<1>3. CASE FinishRevision
  BY <1>3, FinishKeepsRows
<1>4. CASE CommitRun
  <2>1. ~Running' /\ db' = run.db /\ Running
    BY <1>4 DEF CommitRun, Running, NoRun
  <2> QED BY <2>1 DEF RowsInv, IsDb
<1>5. ASSUME db' = db, ~Running' PROVE RowsInv'
  BY <1>5 DEF RowsInv, IsDb
<1>6. CASE RefuseStatement
  BY <1>5, <1>6 DEF RefuseStatement, Running, NoRun
<1>7. ASSUME NEW kind \in Uploads, Upload(kind) PROVE RowsInv'
  BY <1>7, UploadRowsOk, InsertKeepsRows DEF Upload
<1>8. CASE Analyse
  BY <1>8, AnalysisRowsOk, InsertKeepsRows DEF Analyse
<1>9. CASE SeedDatabase
  BY <1>9, SeedRowsOk, InsertKeepsRows DEF SeedDatabase
<1>10. CASE ResetTruncate
  BY <1>10, TruncateKeepsRows DEF ResetTruncate, NoOperator
<1>11. ASSUME UNCHANGED <<db, run>> PROVE RowsInv'
  BY <1>11 DEF RowsInv, Running, Agree, IsDb
<1>12. CASE ResetInsert
  BY <1>11, <1>12, AcmeRowsOk, InsertKeepsRows DEF ResetInsert
<1>13. CASE DemoTruncate
  BY <1>11, <1>13, TruncateKeepsRows DEF DemoTruncate, NoOperator
<1>14. CASE DemoKnowledge
  BY <1>11, <1>14, KnowledgeRowsOk, InsertKeepsRows DEF DemoKnowledge
<1>15. CASE DemoInsert
  BY <1>11, <1>15, DemoRowsOk, InsertKeepsRows DEF DemoInsert
<1>16. CASE Kill
  BY <1>5, <1>16 DEF Kill, Running, NoRun
<1>17. CASE UNCHANGED dbVars
  BY <1>11, <1>17 DEF dbVars
<1> QED BY <1>1, <1>2, <1>3, <1>4, <1>6, <1>7, <1>8, <1>9, <1>10, <1>12, <1>13, <1>14, <1>15, <1>16, <1>17
        DEF DbNext

\* The rows always fit the schema they are committed with.
THEOREM RowsAlwaysFit == DbSpec => []RowsFitSchema
<1>1. DbInit => RowsInv
  BY DbInitRows
<1>2. RowsInv /\ [DbNext]_dbVars => RowsInv'
  BY RowsInvStep
<1>3. RowsInv => RowsFitSchema
  BY RowsInvImplies
<1> QED BY <1>1, <1>2, <1>3, PTL DEF DbSpec

-----------------------------------------------------------------------------
(* Migrations keep the writers.                                            *)

Kept(S) == S \ {"obligations"}

(* A batch adds its writers on both sides or on none. *)
LEMMA InsertKeepsWriters ==
    ASSUME RowsInv, WritersInv, NEW batch, BatchOk(batch), Insert(batch)
    PROVE  WritersInv'
<1>1. CASE ~Running
  BY <1>1, InsertKeepsRows DEF WritersInv
<1>2. CASE Running
  <2>1. /\ db'.schema = db.schema /\ Running'
        /\ run'.dir = run.dir /\ run'.db.schema = run.db.schema
        /\ db'.rows = WithRows(db.rows, batch) /\ run'.db.rows = WithRows(run.db.rows, batch)
    <3>1. IsDb(db) /\ RunOk
      BY <1>2 DEF RowsInv, RunOk
    <3>2. db'.schema = db.schema /\ Running'
      BY <1>2, InsertKeepsRows
    <3>3. db'.rows = WithRows(db.rows, batch)
      <4>1. db = [rev |-> db.rev, schema |-> db.schema, rows |-> db.rows]
        BY <3>1 DEF IsDb
      <4> QED BY <4>1 DEF Insert
    <3>4. run'.dir = run.dir /\ run'.db.schema = run.db.schema /\ run'.db.rows = WithRows(run.db.rows, batch)
      <4>1. run.db = [rev |-> run.db.rev, schema |-> run.db.schema, rows |-> run.db.rows]
        BY <3>1 DEF IsDb, RunOk
      <4>2. run = [dir |-> run.dir, next |-> run.next, db |-> run.db, locked |-> run.locked]
        BY <3>1 DEF RunOk
      <4>3. run' = [run EXCEPT !.db.rows = WithRows(@, batch)]
        BY <1>2 DEF Insert
      <4> QED BY <4>1, <4>2, <4>3
    <3> QED BY <3>2, <3>3, <3>4
  <2>2. Tables(db.schema) \subseteq AllTables
    BY DEF RowsInv, SchemaOk
  <2>3. ASSUME NEW t \in Kept(Tables(db.schema) \cap Tables(run.db.schema)), NEW by
        PROVE  WriterIn(db'.rows, by, t) <=> WriterIn(run'.db.rows, by, t)
    <3>1. WriterIn(db.rows, by, t) <=> WriterIn(run.db.rows, by, t)
      BY <1>2, <2>3 DEF WritersInv, Kept
    <3>2. t \in AllTables
      BY <2>2, <2>3 DEF Kept
    <3>3. \A rows : WriterIn(WithRows(rows, batch), by, t) <=>
                       WriterIn(rows, by, t) \/ (t \in DOMAIN batch /\ batch[t].by = by)
      BY <3>2 DEF WithRows, WriterIn
    <3> QED BY <2>1, <3>1, <3>3
  <2> QED BY <1>2, <2>1, <2>3 DEF WritersInv, Kept
<1> QED BY <1>1, <1>2

\* A statement takes no writers away but those of obligations.
LEMMA ExecuteKeepsWriters ==
    ASSUME RowsInv, WritersInv, ExecuteStatement
    PROVE  WritersInv'
<1>1. PICK op : Executes(op)
  BY StatementExecutes
<1> DEFINE s == run.db.schema
           S == run'.db.schema
<1>2. /\ S = Statement(op, s) /\ run'.db.rows = OnRows(op, run.db.rows) /\ run'.dir = run.dir
      /\ db' = db /\ Running /\ Regular(run.dir, op) /\ SchemaAllows(op, s)
  BY <1>1 DEF Executes, Allowed
<1>3. DOMAIN run.db.rows = AllTables /\ Tables(db.schema) \subseteq AllTables
  BY <1>2 DEF RowsInv, RowsOk, SchemaOk
<1>4. /\ \A t \in Tables(s) : t \in Tables(S) \/ (op.do = "drop_table" /\ t = op.table)
      /\ \A t \in Tables(S) : t \in Tables(s) \/ (op.do = "create_table" /\ t = op.table)
      /\ op.do = "create_table" => op.table \notin Tables(s)
      /\ op.do = "drop_table" => op.table \notin Tables(S)
  <2>1. CASE op.do = "create_table"
    <3>1. op.table \notin Tables(s)
      BY <1>2, <2>1 DEF SchemaAllows
    <3>2. Tables(S) = Tables(s) \cup {op.table}
      BY <1>2, <2>1, <3>1, TablesCreated
    <3> HIDE DEF s, S
    <3> QED BY <2>1, <3>1, <3>2
  <2>2. CASE op.do = "drop_table"
    <3>1. Tables(S) = Tables(s) \ {op.table}
      BY <1>2, <2>2, TablesDropped
    <3> HIDE DEF s, S
    <3> QED BY <2>2, <3>1
  <2>3. CASE AltersTable(op)
    <3>1. Tables(S) = Tables(s) /\ op.do # "create_table" /\ op.do # "drop_table"
      BY <1>2, <2>3, TablesAltered DEF AltersTable
    <3> QED BY <3>1
  <2>4. CASE ~AltersTable(op) /\ op.do # "create_table" /\ op.do # "drop_table"
    <3>1. Tables(S) = Tables(s)
      BY <1>2, <2>4, TablesKept DEF Tables
    <3> QED BY <2>4, <3>1
  <2> QED BY <2>1, <2>2, <2>3, <2>4
<1>5. /\ run.dir = "up" => (op.do = "drop_table" => op.table = "obligations")
      /\ run.dir = "down" => (op.do = "create_table" => op.table = "obligations")
  BY <1>2 DEF Regular
<1> HIDE DEF s, S
<1>6. /\ run.dir = "up" => Kept(Tables(db.schema)) \subseteq Tables(s)
      /\ run.dir = "down" => Kept(Tables(s)) \subseteq Tables(db.schema)
      /\ \A t \in Kept(Tables(db.schema) \cap Tables(s)) :
            \A by : WriterIn(db.rows, by, t) <=> WriterIn(run.db.rows, by, t)
      /\ run.dir \in {"up", "down"}
  BY <1>2 DEF WritersInv, RowsInv, Kept, s
<1>7. ASSUME NEW t \in Kept(Tables(db.schema) \cap Tables(S)), NEW by
      PROVE  WriterIn(db.rows, by, t) <=> WriterIn(run'.db.rows, by, t)
  <2>1. t \in Tables(s)
    BY <1>4, <1>5, <1>6, <1>7 DEF Kept
  <2>2. op.do \in {"create_table", "drop_table"} => t # op.table
    BY <1>4, <1>7, <2>1 DEF Kept
  <2>3. t \in DOMAIN run.db.rows /\ (OnTable(op) => op.table \in DOMAIN run.db.rows)
    BY <1>2, <1>3, <1>7 DEF Kept, Regular
  <2>4. WriterIn(run'.db.rows, by, t) <=> WriterIn(run.db.rows, by, t)
    BY <1>2, <2>2, <2>3, WritersStay
  <2> QED BY <2>1, <2>4, <1>6, <1>7 DEF Kept
<1>8. /\ run.dir = "up" => Kept(Tables(db.schema)) \subseteq Tables(S)
      /\ run.dir = "down" => Kept(Tables(S)) \subseteq Tables(db.schema)
  BY <1>4, <1>5, <1>6 DEF Kept
<1> QED BY <1>2, <1>7, <1>8 DEF WritersInv, Kept, S

\* Every step keeps the writers of a migration under way.
LEMMA WritersInvStep == RowsInv /\ WritersInv /\ [DbNext]_dbVars => WritersInv'
<1> SUFFICES ASSUME RowsInv, WritersInv, [DbNext]_dbVars PROVE WritersInv'
  OBVIOUS
<1>1. ASSUME NEW dir \in {"up", "down"}, StartRun(dir) PROVE WritersInv'
  <2>1. run'.db = db'
    BY <1>1 DEF StartRun
  <2> QED BY <2>1 DEF WritersInv
<1>2. CASE ExecuteStatement
  BY <1>2, ExecuteKeepsWriters
<1>3. CASE FinishRevision
  <2>1. /\ db' = db /\ run'.dir = run.dir /\ run'.db.schema = run.db.schema /\ run'.db.rows = run.db.rows
        /\ Running
    BY <1>3, FinishKeepsRows DEF FinishRevision
  <2> QED BY <2>1 DEF WritersInv
<1>4. ASSUME ~Running' PROVE WritersInv'
  BY <1>4 DEF WritersInv
<1>5. CASE CommitRun
  BY <1>4, <1>5 DEF CommitRun, Running, NoRun
<1>6. CASE RefuseStatement
  BY <1>4, <1>6 DEF RefuseStatement, Running, NoRun
<1>7. ASSUME NEW kind \in Uploads, Upload(kind) PROVE WritersInv'
  BY <1>7, UploadRowsOk, InsertKeepsWriters DEF Upload
<1>8. CASE Analyse
  BY <1>8, AnalysisRowsOk, InsertKeepsWriters DEF Analyse
<1>9. CASE SeedDatabase
  BY <1>9, SeedRowsOk, InsertKeepsWriters DEF SeedDatabase
<1>10. CASE ResetTruncate
  BY <1>4, <1>10 DEF ResetTruncate, NoOperator, Running
<1>11. ASSUME UNCHANGED <<db, run>> PROVE WritersInv'
  BY <1>11 DEF WritersInv, Running
<1>12. CASE ResetInsert
  BY <1>11, <1>12, AcmeRowsOk, InsertKeepsWriters DEF ResetInsert
<1>13. CASE DemoTruncate
  BY <1>4, <1>13 DEF DemoTruncate, NoOperator, Running
<1>14. CASE DemoKnowledge
  BY <1>11, <1>14, KnowledgeRowsOk, InsertKeepsWriters DEF DemoKnowledge
<1>15. CASE DemoInsert
  BY <1>11, <1>15, DemoRowsOk, InsertKeepsWriters DEF DemoInsert
<1>16. CASE Kill
  BY <1>4, <1>16 DEF Kill, Running, NoRun
<1>17. CASE UNCHANGED dbVars
  BY <1>11, <1>17 DEF dbVars
<1> QED BY <1>1, <1>2, <1>3, <1>5, <1>6, <1>7, <1>8, <1>9, <1>10, <1>12, <1>13, <1>14, <1>15, <1>16, <1>17
        DEF DbNext

\* Migrating loses no rows but obligations.
THEOREM MigratingKeepsRows == DbSpec => OnlyObligationsAreLost
<1>1. DbInit => RowsInv /\ WritersInv
  BY DbInitRows DEF DbInit, WritersInv, Running, NoRun
<1>2. RowsInv /\ WritersInv /\ [DbNext]_dbVars => RowsInv' /\ WritersInv'
  BY RowsInvStep, WritersInvStep
<1>3. WritersInv => (CommitRun => \A t \in (Tables(db.schema) \cap Tables(db'.schema)) \ {"obligations"} :
           {r.by : r \in db.rows[t]} = {r.by : r \in db'.rows[t]})
  <2> SUFFICES ASSUME WritersInv, CommitRun,
                      NEW t \in (Tables(db.schema) \cap Tables(db'.schema)) \ {"obligations"}
               PROVE  {r.by : r \in db.rows[t]} = {r.by : r \in db'.rows[t]}
    OBVIOUS
  <2>1. Running /\ db' = run.db
    BY DEF CommitRun
  <2>2. \A by : WriterIn(db.rows, by, t) <=> WriterIn(db'.rows, by, t)
    BY <2>1 DEF WritersInv
  <2> QED BY <2>2 DEF WriterIn
<1>4. WritersInv /\ [DbNext]_dbVars =>
        [CommitRun => \A t \in (Tables(db.schema) \cap Tables(db'.schema)) \ {"obligations"} :
           {r.by : r \in db.rows[t]} = {r.by : r \in db'.rows[t]}]_dbVars
  BY <1>3
<1> QED BY <1>1, <1>2, <1>4, PTL DEF DbSpec, OnlyObligationsAreLost

-----------------------------------------------------------------------------
(* From place to place: a statement in its place, on a schema that fits.   *)

(* What a place says of table t is the same at another place. *)
Still(t, d, r, n, e, q, m) ==
    /\ Made(t, e, q, m) = Made(t, d, r, n)
    /\ t = "obligations" => (IsNew(e, q, m) <=> IsNew(d, r, n))
    /\ \A c : LateColumn(t, c, e, q, m) <=> LateColumn(t, c, d, r, n)
    /\ \A c : Loose(t, c, e, q, m) <=> Loose(t, c, d, r, n)
    /\ \A x : HasCheck(t, x, e, q, m) <=> HasCheck(t, x, d, r, n)
    /\ \A c, u, x : HasKey(t, c, u, x, e, q, m) <=> HasKey(t, c, u, x, d, r, n)

\* A table of which two places say the same fits both or none.
LEMMA StillFits ==
    ASSUME NEW t, NEW d, NEW r, NEW n, NEW e, NEW q, NEW m, Still(t, d, r, n, e, q, m),
           NEW table, TableFits(table, t, d, r, n)
    PROVE  TableFits(table, t, e, q, m)
<1>1. ColumnsFit(table.cols, t, e, q, m) /\ NullsFit(table.cols, t, e, q, m)
  BY DEF Still, TableFits, ColumnsFit, NullsFit
<1>2. DefaultsFit(table.cols, t, e, q, m)
  BY DEF Still, TableFits, DefaultsFit
<1>3. TypesFit(table.types, t, e, q, m)
  BY DEF Still, TableFits, TypesFit, FileType
<1>4. ChecksFit(table.checks, t, e, q, m) /\ KeysFit(table.refs, t, e, q, m)
  BY DEF Still, TableFits, ChecksFit, KeysFit
<1> QED BY <1>1, <1>2, <1>3, <1>4 DEF TableFits

Reshapes(op, t) == t = op.table /\ (AltersTable(op) \/ op.do \in {"create_table", "drop_table"})

\* A statement says nothing new of the tables it does not reshape.
LEMMA OthersStill ==
    ASSUME NEW op, NEW d, NEW r, NEW n, Placed(op, d, r, n), NEW t, ~Reshapes(op, t)
    PROVE  Still(t, d, r, n, d, r, n + 1)
<1>1. t = "obligations" => (IsNew(d, r, n + 1) <=> IsNew(d, r, n))
  BY DEF Placed, TablePlaced, MovesTables, Creates, Drops, Reshapes
<1>2. Made(t, d, r, n + 1) = Made(t, d, r, n)
  BY <1>1 DEF Made
<1>3. \A c : LateColumn(t, c, d, r, n + 1) <=> LateColumn(t, c, d, r, n)
  BY DEF Placed, ColumnPlaced, MovesColumns, OnColumn, Reshapes, AltersTable
<1>4. \A c : Loose(t, c, d, r, n + 1) <=> Loose(t, c, d, r, n)
  BY DEF Placed, ColumnPlaced, MovesColumns, OnColumn, Reshapes, AltersTable
<1>5. \A x : HasCheck(t, x, d, r, n + 1) <=> HasCheck(t, x, d, r, n)
  BY DEF Placed, KeyPlaced, MovesKeys, Reshapes, AltersTable
<1>6. \A c, u, x : HasKey(t, c, u, x, d, r, n + 1) <=> HasKey(t, c, u, x, d, r, n)
  BY DEF Placed, KeyPlaced, MovesKeys, OnColumn, Reshapes, AltersTable
<1> QED BY <1>1, <1>2, <1>3, <1>4, <1>5, <1>6 DEF Still

-----------------------------------------------------------------------------
(* The tables as they are made. *)
Typed(op) ==
    /\ DOMAIN op.types \subseteq DOMAIN op.cols
    /\ \A c \in DOMAIN op.types : op.types[c] # DocumentType

\* Only columns have enum types.
LEMMA MadeTyped == \A t \in AllTables : \A d, r, n : Typed(Made(t, d, r, n))
<1> USE DEF Typed, Makes, Has, DocumentType, NoTypes
<1>1. Typed(CreateCompanies[1]) /\ Typed(CreateDepartments[1])
  BY CompaniesAre, DepartmentsAre
<1>2. Typed(CreateUsers[1])
  BY UsersAre
<1>3. Typed(CreatePolicies[1])
  BY PoliciesAre
<1>4. Typed(CreatePolicyVersions[1])
  BY PolicyVersionsAre
<1>5. Typed(CreateClauses[1])
  BY ClausesAre
<1>6. Typed(CreateObligations[1])
  BY OldObligationsAre
<1>7. Typed(RecreateObligations[2])
  BY NewObligationsAre
<1>8. Typed(CreateRegulatoryFrameworks[1]) /\ Typed(CreateRegulatoryClauses[1])
  BY RegulatoryFrameworksAre, RegulatoryClausesAre
<1>9. Typed(CreateClauseRegulatoryMappings[1])
  BY ClauseRegulatoryMappingsAre
<1>10. Typed(CreateFindings[1])
  BY FindingsAre
<1>11. Typed(CreateFindingClauseLinks[1])
  BY FindingClauseLinksAre
<1>12. Typed(CreateAuditLogs[1])
  BY AuditLogsAre
<1>13. Typed(CreateConflicts[1]) /\ Typed(CreateRecommendations[1])
  BY ConflictsAre, RecommendationsAre
<1>14. Typed(CreateComplianceAuditLogs[1]) /\ Typed(CreateRegulatoryMappings[1]) /\ Typed(CreateStoredFiles[1])
  BY ComplianceAuditLogsAre, RegulatoryMappingsAre, StoredFilesAre
<1> HIDE DEF Typed
<1> QED
  BY ONLY <1>1, <1>2, <1>3, <1>4, <1>5, <1>6, <1>7, <1>8, <1>9, <1>10, <1>11, <1>12, <1>13, <1>14, AllTablesAre
  DEF Made, Created

-----------------------------------------------------------------------------
(* The table that a statement alters. *)
LEMMA AlteredColumnsFit ==
    ASSUME NEW op, NEW d, NEW r, NEW n, Placed(op, d, r, n), AltersTable(op), NEW cols,
           ColumnsFit(cols, op.table, d, r, n), NullsFit(cols, op.table, d, r, n),
           DefaultsFit(cols, op.table, d, r, n)
    PROVE  /\ ColumnsFit(Columns(op, cols), op.table, d, r, n + 1)
           /\ NullsFit(Columns(op, cols), op.table, d, r, n + 1)
           /\ DefaultsFit(Columns(op, cols), op.table, d, r, n + 1)
<1> DEFINE t == op.table
           C == Columns(op, cols)
           made == Made(t, d, r, n)
<1>1. Made(t, d, r, n + 1) = made /\ (t = "obligations" => (IsNew(d, r, n + 1) <=> IsNew(d, r, n)))
  BY DEF Placed, TablePlaced, MovesTables, Creates, Drops, AltersTable, Made
<1>2. \A c : LateColumn(t, c, d, r, n + 1) <=>
          \/ LateColumn(t, c, d, r, n) /\ ~(op.do = "drop_column" /\ c = op.column)
          \/ op.do = "add_column" /\ c = op.column
  BY DEF Placed, ColumnPlaced, MovesColumns, OnColumn
<1>3. \A c : \/ Loose(t, c, d, r, n + 1) <=> Loose(t, c, d, r, n)
             \/ op.do \in {"add_column", "drop_column", "alter_column"} /\ c = op.column
  BY DEF Placed, ColumnPlaced, MovesColumns, OnColumn
<1>4. op.do \in {"add_column", "alter_column"} =>
          /\ op.null <=> Loose(t, op.column, d, r, n + 1)
          /\ op.column \in DOMAIN made.cols => ~made.cols[op.column].null
  BY DEF Placed, ColumnPlaced, MovesColumns, IsMade
<1>5. /\ op.do = "add_column" => op.column \notin DOMAIN made.cols /\ ~LateColumn(t, op.column, d, r, n)
      /\ op.do = "drop_column" => op.column \notin DOMAIN made.cols
      /\ op.do = "alter_column" => op.column \in DOMAIN made.cols \/ LateColumn(t, op.column, d, r, n)
  BY DEF Placed, ColumnPlaced, ReadyColumn, Column, IsMade
<1>6. \A c : c \in DOMAIN cols <=> c \in DOMAIN made.cols \/ LateColumn(t, c, d, r, n)
  BY DEF ColumnsFit
<1>7. /\ op.do = "add_column" => op.column \notin DOMAIN cols
      /\ op.do = "alter_column" => op.column \in DOMAIN cols
  BY <1>5, <1>6
<1>8. \A c \in DOMAIN cols : cols[c].null <=> \/ c \in DOMAIN made.cols /\ made.cols[c].null
                                              \/ Loose(t, c, d, r, n)
  BY DEF NullsFit
<1>9. \A c \in DOMAIN made.cols :
          made.cols[c].default /\ (t = "obligations" => IsNew(d, r, n)) => cols[c].default
  BY DEF DefaultsFit
<1> SUFFICES /\ \A c : c \in DOMAIN C <=> c \in DOMAIN made.cols \/ LateColumn(t, c, d, r, n + 1)
             /\ \A c \in DOMAIN C : C[c].null <=> \/ c \in DOMAIN made.cols /\ made.cols[c].null
                                                  \/ Loose(t, c, d, r, n + 1)
             /\ \A c \in DOMAIN made.cols :
                   made.cols[c].default /\ (t = "obligations" => IsNew(d, r, n)) => C[c].default
  <2> HIDE DEF made, C
  <2> QED BY <1>1 DEF ColumnsFit, NullsFit, DefaultsFit, C
<1>10. CASE op.do = "add_column"
  <2>1. /\ DOMAIN C = DOMAIN cols \cup {op.column}
        /\ \A c \in DOMAIN cols : C[c] = cols[c]
        /\ C[op.column].null = op.null
    BY ZenonT(60), <1>10, <1>7, ColumnAdded, AddedColumn
  <2> HIDE DEF C, made, t
  <2> QED BY <2>1, <1>10, <1>2, <1>3, <1>4, <1>5, <1>6, <1>7, <1>8, <1>9
<1>11. CASE op.do = "drop_column"
  <2>1. /\ DOMAIN C = DOMAIN cols \ {op.column}
        /\ \A c \in DOMAIN cols \ {op.column} : C[c] = cols[c]
    BY <1>11, ColumnDropped
  <2> HIDE DEF C, made, t
  <2> QED BY <2>1, <1>11, <1>2, <1>3, <1>5, <1>6, <1>8, <1>9
<1>12. CASE op.do = "alter_column"
  <2>1. /\ DOMAIN C = DOMAIN cols
        /\ \A c \in DOMAIN cols \ {op.column} : C[c] = cols[c]
        /\ C[op.column].null = op.null /\ C[op.column].default = cols[op.column].default
    BY <1>12, <1>7, ColumnChanged, NullAltered
  <2> HIDE DEF C, made, t
  <2> QED BY <2>1, <1>12, <1>2, <1>3, <1>4, <1>6, <1>7, <1>8, <1>9
<1>13. CASE op.do \notin {"add_column", "drop_column", "alter_column"}
  <2>1. C = cols
    BY <1>13, ColumnsKept
  <2> HIDE DEF C, made, t
  <2> QED BY <2>1, <1>13, <1>2, <1>3, <1>6, <1>8, <1>9
<1> QED BY <1>10, <1>11, <1>12, <1>13

\* Its enum types.
LEMMA AlteredTypesFit ==
    ASSUME NEW op, NEW d, NEW r, NEW n, Placed(op, d, r, n), AltersTable(op), NEW types,
           op.table \in AllTables, TypesFit(types, op.table, d, r, n)
    PROVE  TypesFit(Types(op, types), op.table, d, r, n + 1)
<1> DEFINE t == op.table
           T == Types(op, types)
           made == Made(t, d, r, n)
           File(c) == t = "policy_versions" /\ c = "file_type"
<1>1. Made(t, d, r, n + 1) = made
  BY DEF Placed, TablePlaced, MovesTables, Creates, Drops, AltersTable, Made
<1>2. \A c : LateColumn(t, c, d, r, n + 1) <=>
          \/ LateColumn(t, c, d, r, n) /\ ~(op.do = "drop_column" /\ c = op.column)
          \/ op.do = "add_column" /\ c = op.column
  BY DEF Placed, ColumnPlaced, MovesColumns, OnColumn
<1>3. op.do = "add_column" => op.type = IF File(op.column) THEN DocumentType ELSE "plain"
  BY DEF Placed, ColumnPlaced, MovesColumns
<1>4. op.do \in {"add_column", "drop_column"} => op.column \notin DOMAIN made.types
  <2>1. op.do \in {"add_column", "drop_column"} => op.column \notin DOMAIN made.cols
    BY DEF Placed, ColumnPlaced, ReadyColumn, Column, IsMade
  <2>2. Typed(made)
    BY MadeTyped
  <2> QED BY <2>1, <2>2 DEF Typed
<1>5. op.do = "add_column" => ~LateColumn(t, op.column, d, r, n)
  BY DEF Placed, ColumnPlaced, ReadyColumn, Column
<1>6. /\ \A c : c \in DOMAIN types <=> c \in DOMAIN made.types \/ (File(c) /\ LateColumn(t, c, d, r, n))
      /\ \A c \in DOMAIN made.types : types[c] = made.types[c]
      /\ \A c \in DOMAIN types \ DOMAIN made.types : types[c] = DocumentType
  BY DEF TypesFit, FileType
<1> SUFFICES /\ \A c : c \in DOMAIN T <=> c \in DOMAIN made.types \/ (File(c) /\ LateColumn(t, c, d, r, n + 1))
             /\ \A c \in DOMAIN made.types : T[c] = made.types[c]
             /\ \A c \in DOMAIN T \ DOMAIN made.types : T[c] = DocumentType
  <2> HIDE DEF made, T
  <2> QED BY <1>1 DEF TypesFit, FileType, T
<1>7. CASE op.do = "add_column" /\ File(op.column)
  <2>1. T = types ++ [c \in {op.column} |-> DocumentType]
    BY <1>7, <1>3 DEF Types, DocumentType
  <2>2. /\ DOMAIN T = DOMAIN types \cup {op.column}
        /\ \A c \in DOMAIN types : T[c] = types[c]
        /\ op.column \notin DOMAIN types => T[op.column] = DocumentType
    BY <2>1 DEF ++
  <2> HIDE DEF T, made, t, DocumentType
  <2> QED BY <2>2, <1>7, <1>2, <1>4, <1>5, <1>6
<1>8. CASE op.do = "drop_column"
  <2>1. /\ DOMAIN T = DOMAIN types \ {op.column}
        /\ \A c \in DOMAIN T : T[c] = types[c]
    BY <1>8 DEF Types, Without
  <2> HIDE DEF T, made, t
  <2> QED BY <2>1, <1>8, <1>2, <1>4, <1>6
<1>9. CASE op.do \notin {"add_column", "drop_column"} \/ (op.do = "add_column" /\ ~File(op.column))
  <2>1. T = types
    BY <1>9, <1>3 DEF Types
  <2>2. \A c : File(c) => (LateColumn(t, c, d, r, n + 1) <=> LateColumn(t, c, d, r, n))
    BY <1>9, <1>2
  <2> HIDE DEF T, made, t
  <2> QED BY <2>1, <2>2, <1>6
<1> QED BY <1>7, <1>8, <1>9

\* All of it.
LEMMA AlteredFits ==
    ASSUME NEW op, NEW d, NEW r, NEW n, Placed(op, d, r, n), AltersTable(op), NEW table,
           TableFits(table, op.table, d, r, n)
    PROVE  TableFits(Altered(op, table), op.table, d, r, n + 1)
<1>1. op.table \in AllTables
  BY DEF Placed, FormPlaced, Regular, OnTable
<1>2. /\ Altered(op, table).cols = Columns(op, table.cols) /\ Altered(op, table).types = Types(op, table.types)
      /\ Altered(op, table).checks = Checks(op, table.checks)
      /\ Altered(op, table).refs = References(op, table.refs)
  BY DEF Altered
<1>3. /\ ColumnsFit(Columns(op, table.cols), op.table, d, r, n + 1)
      /\ NullsFit(Columns(op, table.cols), op.table, d, r, n + 1)
      /\ DefaultsFit(Columns(op, table.cols), op.table, d, r, n + 1)
  BY AlteredColumnsFit DEF TableFits
<1>4. TypesFit(Types(op, table.types), op.table, d, r, n + 1)
  BY <1>1, AlteredTypesFit DEF TableFits
<1>5. ChecksFit(Checks(op, table.checks), op.table, d, r, n + 1)
  BY DEF TableFits, ChecksFit, Checks, Placed, KeyPlaced, MovesKeys
<1>6. KeysFit(References(op, table.refs), op.table, d, r, n + 1)
  <2>1. ASSUME NEW c, NEW u, NEW x
        PROVE  HasKey(op.table, c, u, x, d, r, n + 1) <=>
                  \/ /\ HasKey(op.table, c, u, x, d, r, n)
                     /\ ~(op.do = "drop_constraint" /\ x = op.name)
                     /\ ~(op.do = "drop_column" /\ c = op.column)
                  \/ op.do = "create_foreign_key" /\ c = op.column /\ u = op.ref /\ x = op.name
    <3>1. MovesKeys(op, d, r, n)
      BY DEF Placed, KeyPlaced
    <3> QED BY ONLY <3>1 DEF MovesKeys, OnColumn
  <2>2. ASSUME NEW c, NEW u, NEW x
        PROVE  <<c, u, x>> \in References(op, table.refs) <=>
                  \/ /\ <<c, u, x>> \in table.refs
                     /\ ~(op.do = "drop_constraint" /\ x = op.name)
                     /\ ~(op.do = "drop_column" /\ c = op.column)
                  \/ op.do = "create_foreign_key" /\ c = op.column /\ u = op.ref /\ x = op.name
    BY DEF References
  <2>3. ASSUME NEW c, NEW u, NEW x, x # ""
        PROVE  <<c, u, x>> \in References(op, table.refs) <=> HasKey(op.table, c, u, x, d, r, n + 1)
    <3>1. <<c, u, x>> \in table.refs <=> HasKey(op.table, c, u, x, d, r, n)
      BY <2>3 DEF KeysFit, TableFits
    <3> QED BY ONLY <3>1, <2>1, <2>2
  <2> QED BY <2>3 DEF KeysFit
<1> QED BY <1>2, <1>3, <1>4, <1>5, <1>6 DEF TableFits

\* Where the foreign keys point, read from the other end.
LEMMA KeysPoint ==
    \A u \in AllTables : \A c, t : <<c, t>> \in Refers[u] \cup Others[u] => Points(u, t)
BY AllTablesAre DEF Refers, Others, Points

\* The indexes that are dropped by name are on known columns.
LEMMA IndexNamed == \A i \in DroppedIndexes : \E t, C : NamedIndex(i, t, C)
<1>1. NamedIndex(VersionKey, "clauses", {"policy_version_id", "clause_number"})
  BY DEF NamedIndex
<1>2. NamedIndex("clauses_policy_id_idx", "clauses", {"policy_id"})
  BY DEF NamedIndex
<1>3. NamedIndex("clauses_parent_clause_id_idx", "clauses", {"parent_clause_id"})
  BY DEF NamedIndex
<1>4. NamedIndex("obligations_clause_id_idx", "obligations", {"clause_id"})
  BY DEF NamedIndex
<1>5. NamedIndex("obligations_policy_id_idx", "obligations", {"policy_id"})
  BY DEF NamedIndex
<1>6. NamedIndex("ix_conflicts_source_policy_id", "conflicts", {"source_policy_id"})
  BY DEF NamedIndex
<1>7. NamedIndex("ix_conflicts_target_policy_id", "conflicts", {"target_policy_id"})
  BY DEF NamedIndex
<1>8. NamedIndex("ix_conflicts_status", "conflicts", {"status"})
  BY DEF NamedIndex
<1>9. NamedIndex("ix_recommendations_conflict_id", "recommendations", {"conflict_id"})
  BY DEF NamedIndex
<1>10. NamedIndex("ix_recommendations_status", "recommendations", {"status"})
  BY DEF NamedIndex
<1>11. NamedIndex("ix_compliance_audit_logs_company_id", "compliance_audit_logs", {"company_id"})
  BY DEF NamedIndex
<1>12. NamedIndex("ix_compliance_audit_logs_event_type", "compliance_audit_logs", {"event_type"})
  BY DEF NamedIndex
<1> QED BY ONLY <1>1, <1>2, <1>3, <1>4, <1>5, <1>6, <1>7, <1>8, <1>9, <1>10, <1>11, <1>12 DEF DroppedIndexes

\* A schema that fits its place allows the statement there.
LEMMA SchemaReady ==
    ASSUME NEW op, NEW s, NEW d, NEW r, NEW n, Placed(op, d, r, n), SchemaOk(s), Fits(s, d, r, n)
    PROVE  SchemaAllows(op, s)
<1>1. \A t : t \in Tables(s) <=> HasTable(t, d, r, n)
  BY DEF Fits, TablesFit
<1>2. ASSUME NEW t \in Tables(s)
      PROVE  /\ \A c : HasColumn(s, t, c) <=> Column(t, c, d, r, n)
             /\ \A x : x \in s.tables[t].checks <=> HasCheck(t, x, d, r, n)
             /\ \A c, u, x : x # "" => (<<c, u, x>> \in s.tables[t].refs <=> HasKey(t, c, u, x, d, r, n))
  BY <1>2 DEF Fits, TablesFit, TableFits, ColumnsFit, ChecksFit, KeysFit, HasColumn, Column, IsMade
<1>3. /\ \A i \in DOMAIN s.indexes : i \notin AllTables
      /\ \A i, t, C : NamedIndex(i, t, C) /\ ~Unsure(i, d, r, n) => (i \in DOMAIN s.indexes <=> HasIndex(i, d, r, n))
      /\ d = "up" /\ r = 0 => \A i \in DOMAIN s.indexes : Early(i, n)
  BY DEF Fits, IndexesFit
<1>4. /\ \A e : HasEnum(e, d, r, n) => e \in DOMAIN s.enums
      /\ \A f : HasFunction(f, d, r, n) => f \in s.functions
  BY DEF Fits, EnumsFit
<1>5. OnTable(op) => op.table \in AllTables
  BY DEF Placed, FormPlaced, Regular
<1>6. Tables(s) \subseteq AllTables
  BY DEF SchemaOk
<1>7. ReadyTable(op, d, r, n) /\ ReadyColumn(op, d, r, n) /\ ReadyOther(op, d, r, n)
  BY DEF Placed, TablePlaced, ColumnPlaced, KeyPlaced
<1>8. OnTable(op) /\ op.do # "create_table" => op.table \in Tables(s)
  BY <1>1, <1>7 DEF ReadyTable
<1>9. ASSUME op.do = "create_table"
      PROVE  /\ op.table \notin Tables(s) \cup DOMAIN s.indexes
             /\ \A k \in op.refs : k[1] \in DOMAIN op.cols /\ k[2] \in Tables(s) \cup {op.table}
             /\ DOMAIN op.types \subseteq DOMAIN op.cols
             /\ TypesExist(s, {op.types[c] : c \in DOMAIN op.types})
  <2>1. OnTable(op) /\ op.table \in AllTables
    BY <1>9, <1>5 DEF OnTable
  <2>2. op.table \notin Tables(s) \cup DOMAIN s.indexes
    BY <1>9, <1>1, <1>3, <1>7, <2>1 DEF ReadyTable
  <2>3. \A k \in op.refs : k[1] \in DOMAIN op.cols /\ k[2] \in Tables(s) \cup {op.table}
    BY <1>9, <1>1, <1>7 DEF ReadyTable
  <2>4. /\ DOMAIN op.types \subseteq DOMAIN op.cols
        /\ \A c \in DOMAIN op.types : op.types[c] \in DOMAIN s.enums
    BY <1>9, <1>4, <1>7 DEF ReadyTable
  <2> QED BY <2>2, <2>3, <2>4 DEF TypesExist
<1>10. ASSUME op.do = "drop_table" PROVE op.table \in Tables(s) /\ Referencing(s, op.table) \subseteq {op.table}
  <2>1. op.table \in Tables(s)
    BY <1>8, <1>10 DEF OnTable
  <2>2. ASSUME NEW u \in Tables(s), NEW k \in s.tables[u].refs, k[2] = op.table, u # op.table PROVE FALSE
    <3>1. HasTable(u, d, r, n) /\ u \in AllTables
      BY <1>1, <1>6, <2>2
    <3>2. ~Points(u, op.table) /\ \A c, x : ~HasKey(u, c, op.table, x, d, r, n)
      BY <1>7, <1>10, <2>2, <3>1 DEF ReadyTable
    <3>3. KeyOk(k, s.tables[u], u)
      BY <2>2 DEF SchemaOk, TableOk
    <3>4. CASE k[3] = ""
      BY <2>2, <3>1, <3>2, <3>3, <3>4, KeysPoint DEF KeyOk
    <3>5. CASE k[3] # ""
      <4>1. <<k[1], op.table, k[3]>> \in s.tables[u].refs
        BY <2>2, <3>3 DEF KeyOk
      <4>2. \A c, v, x : x # "" => (<<c, v, x>> \in s.tables[u].refs <=> HasKey(u, c, v, x, d, r, n))
        BY <1>2, <2>2
      <4>3. HasKey(u, k[1], op.table, k[3], d, r, n)
        BY ONLY <4>1, <4>2, <3>5
      <4> QED BY <4>3, <3>2
    <3> QED BY <3>4, <3>5
  <2> QED BY <2>1, <2>2 DEF Referencing
<1>11. op.do = "add_column" =>
          op.table \in Tables(s) /\ ~HasColumn(s, op.table, op.column) /\ TypesExist(s, {op.type})
  BY <1>2, <1>4, <1>7, <1>8 DEF ReadyColumn, OnTable, AltersTable, TypesExist
<1>12. op.do \in {"drop_column", "alter_column", "backfill"} => HasColumn(s, op.table, op.column)
  BY <1>2, <1>7, <1>8 DEF ReadyColumn, Column, OnTable, AltersTable
<1>13. op.do = "create_index" =>
          /\ op.name \notin Tables(s) \cup DOMAIN s.indexes
          /\ \A c \in op.columns : HasColumn(s, op.table, c)
  <2>1. op.do = "create_index" => \A c \in op.columns : HasColumn(s, op.table, c)
    BY <1>2, <1>7, <1>8 DEF ReadyColumn, OnTable
  <2>2. op.do = "create_index" => op.name \notin Tables(s) \cup DOMAIN s.indexes
    BY <1>3, <1>6, <1>7 DEF ReadyOther
  <2> QED BY <2>1, <2>2
<1>14. op.do = "drop_index" => op.name \in DOMAIN s.indexes
  <2>1. ASSUME op.name \in DroppedIndexes PROVE \E t, C : NamedIndex(op.name, t, C)
    BY <2>1, IndexNamed
  <2> QED BY <1>3, <1>7, <2>1 DEF ReadyOther
<1>15. op.do = "create_foreign_key" => HasColumn(s, op.table, op.column) /\ op.ref \in Tables(s)
  BY <1>1, <1>2, <1>7, <1>8 DEF ReadyColumn, ReadyOther, OnTable, AltersTable
<1>16. op.do = "create_check" => op.table \in Tables(s) /\ op.name \notin s.tables[op.table].checks
  BY <1>2, <1>7, <1>8 DEF ReadyOther, OnTable, AltersTable
<1>17. op.do = "drop_constraint" =>
            /\ op.table \in Tables(s)
            /\ op.name \in s.tables[op.table].checks \cup {k[3] : k \in s.tables[op.table].refs}
  <2> SUFFICES ASSUME op.do = "drop_constraint"
               PROVE  /\ op.table \in Tables(s)
                      /\ op.name \in s.tables[op.table].checks \cup {k[3] : k \in s.tables[op.table].refs}
    OBVIOUS
  <2>1. op.table \in Tables(s)
    BY <1>8 DEF OnTable, AltersTable
  <2>2. CASE HasCheck(op.table, op.name, d, r, n)
    BY <1>2, <2>1, <2>2
  <2>3. CASE ~HasCheck(op.table, op.name, d, r, n)
    <3>1. PICK c, u : op.name # "" /\ HasKey(op.table, c, u, op.name, d, r, n)
      BY <1>7, <2>3 DEF ReadyOther
    <3>2. \A x, y, z : z # "" => (<<x, y, z>> \in s.tables[op.table].refs <=> HasKey(op.table, x, y, z, d, r, n))
      BY <1>2, <2>1
    <3>3. <<c, u, op.name>> \in s.tables[op.table].refs
      BY ONLY <3>1, <3>2
    <3> QED BY <2>1, <3>3
  <2> QED BY <2>2, <2>3
<1>18. op.do = "create_trigger" => op.table \in Tables(s) /\ op.name \in s.functions
  BY <1>4, <1>7, <1>8 DEF ReadyOther, OnTable, AltersTable
<1>19. op.do = "drop_function" => \A t \in Tables(s) : s.tables[t].trigger # op.name
  BY <1>1, <1>7 DEF ReadyOther
<1>20. op.do = "add_label" => op.name \in DOMAIN s.enums
  BY <1>4, <1>7 DEF ReadyOther
<1>21. ASSUME op.do = "drop_enum", NEW t \in Tables(s), NEW c \in DOMAIN s.tables[t].types
       PROVE  s.tables[t].types[c] # op.name
  <2>1. op.name = DocumentType /\ ~LateColumn("policy_versions", "file_type", d, r, n)
    BY <1>1, <1>7, <1>21 DEF ReadyOther
  <2>2. TypesFit(s.tables[t].types, t, d, r, n)
    BY <1>21 DEF Fits, TablesFit, TableFits
  <2>3. ~FileType(t, c, d, r, n)
    BY <2>1 DEF FileType
  <2>4. Typed(Made(t, d, r, n))
    BY <1>6, <1>21, MadeTyped
  <2>5. /\ c \in DOMAIN Made(t, d, r, n).types
        /\ s.tables[t].types[c] = Made(t, d, r, n).types[c]
    BY <1>21, <2>2, <2>3 DEF TypesFit
  <2> QED BY <2>1, <2>4, <2>5 DEF Typed
<1> HIDE DEF HasColumn, TypesExist
<1> QED BY <1>9, <1>10, <1>11, <1>12, <1>13, <1>14, <1>15, <1>16, <1>17, <1>18, <1>19, <1>20, <1>21 DEF SchemaAllows

\* A statement leads to the tables of the next place.
LEMMA TablesStep ==
    ASSUME NEW op, NEW s, NEW d, NEW r, NEW n, Placed(op, d, r, n), SchemaOk(s), TablesFit(s, d, r, n),
           SchemaAllows(op, s), NEW S, S = Statement(op, s)
    PROVE  TablesFit(S, d, r, n + 1)
<1>1. \A t : HasTable(t, d, r, n + 1) <=> (HasTable(t, d, r, n) /\ ~Drops(op, t)) \/ Creates(op, t)
  BY DEF Placed, TablePlaced, MovesTables
<1>2. \A t : t \in Tables(s) <=> HasTable(t, d, r, n)
  BY DEF TablesFit
<1>3. \A t \in Tables(s) : TableFits(s.tables[t], t, d, r, n)
  BY DEF TablesFit
<1>4. ASSUME NEW t \in Tables(s), ~Reshapes(op, t) PROVE TableFits(s.tables[t], t, d, r, n + 1)
  BY <1>3, <1>4, OthersStill, StillFits
<1>5. CASE op.do = "create_table"
  <2>1. /\ Tables(S) = Tables(s) \cup {op.table}
        /\ S.tables[op.table] = NewTable(op)
        /\ \A t \in Tables(s) : S.tables[t] = s.tables[t]
    <3>1. op.table \notin Tables(s)
      BY <1>5 DEF SchemaAllows
    <3> QED BY <1>5, <3>1, TablesCreated
  <2>2. op.table \notin Tables(s)
    BY <1>5 DEF SchemaAllows
  <2>3. MakesTable(op, d, r, n)
    BY DEF Placed, FormPlaced
  <2> DEFINE made == Made(op.table, d, r, n + 1)
  <2>4. /\ DOMAIN op.cols = DOMAIN made.cols /\ DOMAIN op.types = DOMAIN made.types
        /\ \A c \in DOMAIN op.types : op.types[c] = made.types[c]
        /\ \A c \in DOMAIN op.cols :
             /\ op.cols[c].null <=> made.cols[c].null
             /\ made.cols[c].default /\ (op.table = "obligations" => IsNew(d, r, n + 1)) => op.cols[c].default
        /\ \A c : ~LateColumn(op.table, c, d, r, n + 1) /\ ~Loose(op.table, c, d, r, n + 1)
        /\ \A x : ~HasCheck(op.table, x, d, r, n + 1)
        /\ \A c, u, x : ~HasKey(op.table, c, u, x, d, r, n + 1)
    BY <1>5, <2>3 DEF MakesTable
  <2>5. TableFits(NewTable(op), op.table, d, r, n + 1)
    <3> HIDE DEF made
    <3>1. ColumnsFit(op.cols, op.table, d, r, n + 1)
      BY <2>4 DEF ColumnsFit, made
    <3>2. NullsFit(op.cols, op.table, d, r, n + 1)
      BY <2>4 DEF NullsFit, made
    <3>3. DefaultsFit(op.cols, op.table, d, r, n + 1)
      BY <2>4 DEF DefaultsFit, made
    <3>4. TypesFit(op.types, op.table, d, r, n + 1)
      BY <2>4 DEF TypesFit, FileType, made
    <3>5. ChecksFit({}, op.table, d, r, n + 1)
      BY <2>4 DEF ChecksFit
    <3>6. KeysFit({<<k[1], k[2], "">> : k \in op.refs}, op.table, d, r, n + 1)
      <4>1. ASSUME NEW c, NEW u, NEW x, x # "" PROVE <<c, u, x>> \notin {<<k[1], k[2], "">> : k \in op.refs}
        BY <4>1
      <4>2. \A c, u, x : ~HasKey(op.table, c, u, x, d, r, n + 1)
        BY <2>4
      <4> QED BY ONLY <4>1, <4>2 DEF KeysFit
    <3> QED BY <3>1, <3>2, <3>3, <3>4, <3>5, <3>6 DEF TableFits, NewTable
  <2>6. \A t \in Tables(s) : ~Reshapes(op, t)
    BY <1>5, <2>2 DEF Reshapes, AltersTable
  <2>7. \A t : t \in Tables(S) <=> HasTable(t, d, r, n + 1)
    BY <1>1, <1>2, <1>5, <2>1 DEF Creates, Drops
  <2> QED BY <1>4, <2>1, <2>5, <2>6, <2>7 DEF TablesFit
<1>6. CASE op.do = "drop_table"
  <2>1. /\ Tables(S) = Tables(s) \ {op.table}
        /\ \A t \in Tables(S) : S.tables[t] = s.tables[t]
    BY <1>6, TablesDropped
  <2>2. \A t \in Tables(S) : ~Reshapes(op, t)
    BY <2>1 DEF Reshapes
  <2>3. \A t : t \in Tables(S) <=> HasTable(t, d, r, n + 1)
    BY <1>1, <1>2, <1>6, <2>1 DEF Creates, Drops
  <2> QED BY <1>4, <2>1, <2>2, <2>3 DEF TablesFit
<1>7. CASE AltersTable(op)
  <2>1. /\ Tables(S) = Tables(s)
        /\ op.table \in Tables(s) => S.tables[op.table] = Altered(op, s.tables[op.table])
        /\ \A t \in Tables(s) \ {op.table} : S.tables[t] = s.tables[t]
    BY <1>7, TablesAltered
  <2>2. op.table \in Tables(s) => TableFits(Altered(op, s.tables[op.table]), op.table, d, r, n + 1)
    BY <1>3, <1>7, AlteredFits
  <2>3. \A t \in Tables(s) \ {op.table} : ~Reshapes(op, t)
    BY DEF Reshapes
  <2>4. \A t : t \in Tables(S) <=> HasTable(t, d, r, n + 1)
    BY <1>1, <1>2, <1>7, <2>1 DEF Creates, Drops, AltersTable
  <2> QED BY <1>4, <2>1, <2>2, <2>3, <2>4 DEF TablesFit
<1>8. CASE ~AltersTable(op) /\ op.do \notin {"create_table", "drop_table"}
  <2>1. S.tables = s.tables
    BY <1>8, TablesKept
  <2>2. \A t : ~Reshapes(op, t)
    BY <1>8 DEF Reshapes
  <2>3. Tables(S) = Tables(s)
    BY <2>1 DEF Tables
  <2>4. \A t : t \in Tables(S) <=> HasTable(t, d, r, n + 1)
    BY <1>1, <1>2, <1>8, <2>3 DEF Creates, Drops
  <2> QED BY <1>4, <2>1, <2>2, <2>3, <2>4 DEF TablesFit
<1> QED BY <1>5, <1>6, <1>7, <1>8

\* A statement leads to the indexes of the next place.
LEMMA IndexesStep ==
    ASSUME NEW op, NEW s, NEW d, NEW r, NEW n, Placed(op, d, r, n), SchemaOk(s), Fits(s, d, r, n),
           SchemaAllows(op, s), NEW S, S = Statement(op, s)
    PROVE  IndexesFit(S, d, r, n + 1)
<1>1. /\ \A i \in DOMAIN s.indexes : i \notin AllTables /\ s.indexes[i].table \in Tables(s)
      /\ \A i, t, C : NamedIndex(i, t, C) /\ ~Unsure(i, d, r, n) => (i \in DOMAIN s.indexes <=> HasIndex(i, d, r, n))
      /\ \A i, t, C : NamedIndex(i, t, C) /\ i \in DOMAIN s.indexes =>
            s.indexes[i].table = t /\ s.indexes[i].columns = C
      /\ d = "up" /\ r = 0 => \A i \in DOMAIN s.indexes : Early(i, n)
  BY DEF Fits, IndexesFit
<1>2. /\ \A i, t, C : NamedIndex(i, t, C) /\ ~Unsure(i, d, r, n + 1) =>
          /\ Unsure(i, d, r, n) => RemovesIndex(op, i, t, C)
          /\ HasIndex(i, d, r, n + 1) <=>
                \/ HasIndex(i, d, r, n) /\ ~RemovesIndex(op, i, t, C)
                \/ op.do = "create_index" /\ i = op.name
      /\ op.do = "create_index" =>
          \A t, C : NamedIndex(op.name, t, C) => t = op.table /\ C = op.columns
      /\ d = "up" /\ r = 0 =>
          /\ \A i : Early(i, n) => Early(i, n + 1)
          /\ op.do = "create_index" => Early(op.name, n + 1)
  <2>1. MovesIndexes(op, d, r, n)
    BY DEF Placed, IndexPlaced
  <2> QED BY ONLY <2>1 DEF MovesIndexes
<1>3. op.do = "create_index" => op.name \notin AllTables /\ op.name \notin DOMAIN s.indexes /\ op.table \in Tables(s)
  <2>1. op.do = "create_index" => op.name \notin AllTables
    BY DEF Placed, KeyPlaced, ReadyOther
  <2>2. op.do = "create_index" => op.name \notin DOMAIN s.indexes
    BY DEF SchemaAllows
  <2>3. op.do = "create_index" => op.table \in Tables(s)
    BY DEF Fits, TablesFit, Placed, TablePlaced, ReadyTable, OnTable
  <2> QED BY <2>1, <2>2, <2>3
<1>4. /\ op.do # "drop_table" => Tables(s) \subseteq Tables(S)
      /\ op.do = "drop_table" => Tables(s) \ {op.table} \subseteq Tables(S)
  <2>1. op.do = "create_table" => op.table \notin Tables(s)
    BY DEF SchemaAllows
  <2> QED BY <2>1, TablesCreated, TablesDropped, TablesAltered, TablesKept DEF Tables
<1>5. S.indexes = IndexesAfter(op, s)
  BY DEF Statement
<1>6. CASE op.do = "create_index"
  <2>1. /\ DOMAIN S.indexes = DOMAIN s.indexes \cup {op.name}
        /\ \A i \in DOMAIN s.indexes : S.indexes[i] = s.indexes[i]
    BY <1>3, <1>5, <1>6 DEF IndexesAfter, ++
  <2>2. S.indexes[op.name].table = op.table /\ S.indexes[op.name].columns = op.columns
    BY <1>3, <1>5, <1>6 DEF IndexesAfter, ++
  <2>3. \A i \in DOMAIN S.indexes : i \notin AllTables /\ S.indexes[i].table \in Tables(S)
    BY <1>1, <1>3, <1>4, <1>6, <2>1, <2>2
  <2>4. ASSUME NEW i, NEW t, NEW C, NamedIndex(i, t, C)
        PROVE  i \in DOMAIN S.indexes => S.indexes[i].table = t /\ S.indexes[i].columns = C
    BY <1>1, <1>2, <1>6, <2>1, <2>2, <2>4
  <2>5. ASSUME NEW i, NEW t, NEW C, NamedIndex(i, t, C), ~Unsure(i, d, r, n + 1)
        PROVE  i \in DOMAIN S.indexes <=> HasIndex(i, d, r, n + 1)
    <3>1. ~RemovesIndex(op, i, t, C)
      BY <1>6 DEF RemovesIndex
    <3> QED BY <1>1, <1>2, <1>6, <2>1, <2>5, <3>1
  <2>6. d = "up" /\ r = 0 => \A i \in DOMAIN S.indexes : Early(i, n + 1)
    BY <1>1, <1>2, <1>6, <2>1
  <2> QED BY <2>3, <2>4, <2>5, <2>6 DEF IndexesFit
<1>7. CASE op.do # "create_index"
  <2>1. /\ \A i : i \in DOMAIN S.indexes <=> i \in DOMAIN s.indexes /\ ~DropsIndex(op, s, i)
        /\ \A i \in DOMAIN S.indexes : S.indexes[i] = s.indexes[i]
    BY <1>5, <1>7 DEF IndexesAfter, Only
  <2>2. \A i \in DOMAIN S.indexes : i \notin AllTables /\ S.indexes[i].table \in Tables(S)
    BY <1>1, <1>4, <2>1 DEF DropsIndex
  <2>3. ASSUME NEW i, NEW t, NEW C, NamedIndex(i, t, C), i \in DOMAIN s.indexes
        PROVE  DropsIndex(op, s, i) <=> RemovesIndex(op, i, t, C)
    <3>1. s.indexes[i].table = t /\ s.indexes[i].columns = C
      BY <1>1, <2>3
    <3> QED BY ONLY <3>1 DEF DropsIndex, RemovesIndex
  <2>4. ASSUME NEW i, NEW t, NEW C, NamedIndex(i, t, C)
        PROVE  i \in DOMAIN S.indexes => S.indexes[i].table = t /\ S.indexes[i].columns = C
    BY <1>1, <2>1, <2>4
  <2>5. ASSUME NEW i, NEW t, NEW C, NamedIndex(i, t, C), ~Unsure(i, d, r, n + 1)
        PROVE  i \in DOMAIN S.indexes <=> HasIndex(i, d, r, n + 1)
    <3>1. HasIndex(i, d, r, n + 1) <=> HasIndex(i, d, r, n) /\ ~RemovesIndex(op, i, t, C)
      BY <1>2, <1>7, <2>5
    <3>2. CASE Unsure(i, d, r, n)
      BY <1>2, <2>1, <2>3, <2>5, <3>1, <3>2
    <3>3. CASE ~Unsure(i, d, r, n)
      BY <1>1, <2>1, <2>3, <2>5, <3>1, <3>3
    <3> QED BY <3>2, <3>3
  <2>6. d = "up" /\ r = 0 => \A i \in DOMAIN S.indexes : Early(i, n + 1)
    BY <1>1, <1>2, <2>1
  <2> QED BY <2>2, <2>4, <2>5, <2>6 DEF IndexesFit
<1> QED BY <1>6, <1>7

\* A statement leads to the enum types and functions of the next place.
LEMMA EnumsStep ==
    ASSUME NEW op, NEW s, NEW d, NEW r, NEW n, Placed(op, d, r, n), EnumsFit(s, d, r, n),
           SchemaAllows(op, s), NEW S, S = Statement(op, s)
    PROVE  EnumsFit(S, d, r, n + 1)
<1>1. /\ \A e : HasEnum(e, d, r, n + 1) => \/ HasEnum(e, d, r, n) /\ ~(op.do = "drop_enum" /\ e = op.name)
                                           \/ op.do = "create_enum" /\ e = op.name
      /\ op.do = "create_enum" => \A l : Label(op.name, l) => l \in op.labels
      /\ HasRuleBased(d, r, n + 1) =>
          /\ HasEnum("extraction_method", d, r, n) /\ HasEnum("extraction_method", d, r, n + 1)
          /\ \/ HasRuleBased(d, r, n)
             \/ op.do = "add_label" /\ op.name = "extraction_method" /\ "rule_based" \in op.labels
      /\ \A f : HasFunction(f, d, r, n + 1) => \/ HasFunction(f, d, r, n) /\ ~(op.do = "drop_function" /\ f = op.name)
                                               \/ op.do = "create_function" /\ f = op.name
  <2>1. MovesEnums(op, d, r, n)
    BY DEF Placed, IndexPlaced
  <2> QED BY ONLY <2>1 DEF MovesEnums
<1>2. /\ \A e : HasEnum(e, d, r, n) => e \in DOMAIN s.enums
      /\ \A e \in DOMAIN s.enums : \A l : Label(e, l) => l \in s.enums[e]
      /\ HasRuleBased(d, r, n) => "rule_based" \in s.enums["extraction_method"]
      /\ \A f : HasFunction(f, d, r, n) => f \in s.functions
  BY DEF EnumsFit
<1> DEFINE E == s.enums
           F == S.enums
<1>3. F = EnumsAfter(op, E) /\ S.functions = FunctionsAfter(op, s.functions)
  BY DEF Statement
<1>4. /\ op.do = "create_enum" =>
            /\ DOMAIN F = DOMAIN E \cup {op.name}
            /\ \A e \in DOMAIN E : F[e] = E[e]
            /\ op.name \in DOMAIN E \/ F[op.name] = op.labels
      /\ op.do = "add_label" =>
            /\ DOMAIN F = DOMAIN E /\ \A e \in DOMAIN E \ {op.name} : F[e] = E[e]
            /\ op.name \in DOMAIN E => F[op.name] = E[op.name] \cup op.labels
      /\ op.do = "drop_enum" => DOMAIN F = DOMAIN E \ {op.name} /\ \A e \in DOMAIN F : F[e] = E[e]
      /\ op.do \notin {"create_enum", "add_label", "drop_enum"} => F = E
  <2> HIDE DEF E, F
  <2>1. CASE op.do = "create_enum"
    BY <1>3, <2>1 DEF EnumsAfter, ++
  <2>2. CASE op.do = "add_label"
    BY <1>3, <2>2 DEF EnumsAfter
  <2>3. CASE op.do = "drop_enum"
    BY <1>3, <2>3 DEF EnumsAfter, Without
  <2>4. CASE op.do \notin {"create_enum", "add_label", "drop_enum"}
    BY <1>3, <2>4 DEF EnumsAfter
  <2> QED BY <2>1, <2>2, <2>3, <2>4
<1>5. \A e : HasEnum(e, d, r, n + 1) => e \in DOMAIN F
  <2> HIDE DEF F
  <2> QED BY <1>1, <1>2, <1>4
<1>6. \A e \in DOMAIN F : \A l : Label(e, l) => l \in F[e]
  <2> HIDE DEF F
  <2>1. op.do = "add_label" => op.name \in DOMAIN E
    BY DEF SchemaAllows
  <2> QED BY <1>1, <1>2, <1>4, <2>1
<1>7. HasRuleBased(d, r, n + 1) => "rule_based" \in F["extraction_method"]
  <2> SUFFICES ASSUME HasRuleBased(d, r, n + 1) PROVE "rule_based" \in F["extraction_method"]
    OBVIOUS
  <2>1. "extraction_method" \in DOMAIN E /\ "extraction_method" \in DOMAIN F
    BY <1>1, <1>2, <1>5
  <2> HIDE DEF F, E
  <2>2. "rule_based" \in E["extraction_method"]
        \/ (op.do = "add_label" /\ op.name = "extraction_method" /\ "rule_based" \in op.labels)
    BY <1>1, <1>2 DEF E
  <2> QED BY <1>4, <2>1, <2>2
<1>8. \A f : HasFunction(f, d, r, n + 1) => f \in S.functions
  BY <1>1, <1>2, <1>3 DEF FunctionsAfter
<1> QED BY <1>5, <1>6, <1>7, <1>8 DEF EnumsFit

\* A schema that fits its place allows the statement there and fits the next place after it.
LEMMA FitsStep ==
    ASSUME NEW op, NEW s, NEW d, NEW r, NEW n, Placed(op, d, r, n), SchemaOk(s), Fits(s, d, r, n)
    PROVE  SchemaAllows(op, s) /\ Fits(Statement(op, s), d, r, n + 1)
<1>1. SchemaAllows(op, s)
  BY SchemaReady
<1>2. Fits(Statement(op, s), d, r, n + 1)
  BY <1>1, TablesStep, IndexesStep, EnumsStep DEF Fits
<1> QED BY <1>1, <1>2

-----------------------------------------------------------------------------
(* From revision to revision.                                              *)

(* Two places of which everything that fits one fits the other. *)
Same(d, r, n, e, q, m) ==
    /\ \A t : HasTable(t, e, q, m) <=> HasTable(t, d, r, n)
    /\ IsNew(e, q, m) <=> IsNew(d, r, n)
    /\ \A t, c : LateColumn(t, c, e, q, m) <=> LateColumn(t, c, d, r, n)
    /\ \A t, c : Loose(t, c, e, q, m) <=> Loose(t, c, d, r, n)
    /\ \A t, x : HasCheck(t, x, e, q, m) <=> HasCheck(t, x, d, r, n)
    /\ \A t, c, u, x : HasKey(t, c, u, x, e, q, m) <=> HasKey(t, c, u, x, d, r, n)
    /\ \A i : HasIndex(i, e, q, m) <=> HasIndex(i, d, r, n)
    /\ \A i : Unsure(i, e, q, m) <=> Unsure(i, d, r, n)
    /\ \A x : HasEnum(x, e, q, m) <=> HasEnum(x, d, r, n)
    /\ HasRuleBased(e, q, m) <=> HasRuleBased(d, r, n)
    /\ \A f : HasFunction(f, e, q, m) <=> HasFunction(f, d, r, n)

\* A schema that fits one place fits another of which the same is said.
LEMMA SameFits ==
    ASSUME NEW d, NEW r, NEW n, NEW e, NEW q, NEW m, Same(d, r, n, e, q, m), NEW s, Fits(s, d, r, n),
           e = "up" /\ q = 0 => DOMAIN s.indexes = {}
    PROVE  Fits(s, e, q, m)
<1>1. \A t : Still(t, d, r, n, e, q, m)
  BY DEF Same, Still, Made
<1>2. TablesFit(s, e, q, m)
  <2>1. \A t \in Tables(s) : TableFits(s.tables[t], t, e, q, m)
    BY <1>1, StillFits DEF Fits, TablesFit
  <2> QED BY <2>1 DEF Fits, TablesFit, Same
<1>3. IndexesFit(s, e, q, m)
  BY DEF Same, Fits, IndexesFit
<1>4. EnumsFit(s, e, q, m)
  BY DEF Same, Fits, EnumsFit
<1> QED BY <1>2, <1>3, <1>4 DEF Fits

\* Before its first statement the direction does not matter.
LEMMA SameStart ==
    ASSUME NEW r \in Int, NEW d, NEW e
    PROVE  Same(d, r, 1, e, r, 1)
<1> USE DEF Stands
<1>1. \A t : HasTable(t, e, r, 1) <=> HasTable(t, d, r, 1)
  BY DEF HasTable, IsNew, OldGone
<1>2. /\ IsNew(e, r, 1) <=> IsNew(d, r, 1)
      /\ \A i : Unsure(i, e, r, 1) <=> Unsure(i, d, r, 1)
  BY DEF IsNew, Unsure, OldGone
<1>3. \A t, c : LateColumn(t, c, e, r, 1) <=> LateColumn(t, c, d, r, 1)
  BY DEF LateColumn
<1>4. \A t, c : Loose(t, c, e, r, 1) <=> Loose(t, c, d, r, 1)
  BY DEF Loose
<1>5. /\ \A t, x : HasCheck(t, x, e, r, 1) <=> HasCheck(t, x, d, r, 1)
      /\ \A t, c, u, x : HasKey(t, c, u, x, e, r, 1) <=> HasKey(t, c, u, x, d, r, 1)
  BY DEF HasCheck, HasKey
<1>6. \A i : HasIndex(i, e, r, 1) <=> HasIndex(i, d, r, 1)
  BY DEF HasIndex
<1>7. /\ \A x : HasEnum(x, e, r, 1) <=> HasEnum(x, d, r, 1)
      /\ HasRuleBased(e, r, 1) <=> HasRuleBased(d, r, 1)
      /\ \A f : HasFunction(f, e, r, 1) <=> HasFunction(f, d, r, 1)
  BY DEF HasEnum, HasRuleBased, HasFunction
<1> QED BY ONLY <1>1, <1>2, <1>3, <1>4, <1>5, <1>6, <1>7 DEF Same

\* After the last statement of a revision the place is that of the next one.
LEMMA SameEnd ==
    ASSUME NEW d, NEW r, Moves(d, r), NEW m, m = Length(d, r) + 1,
           NEW q, q = IF d = "up" THEN r + 1 ELSE r - 1
    PROVE  Same(d, r, m, d, q, 1)
<1> DEFINE Long(rev, up, down) == Stands(rev, up, down, d, r, m) <=> Stands(rev, up, down, d, q, 1)
<1>1. ASSUME NEW rev \in 1..14, NEW before, before = rev - 1,
             NEW up \in 1..Length("up", before), NEW down \in 1..Length("down", rev)
      PROVE  Long(rev, up, down)
  <2>1. CASE d = "up"
    <3>1. r \in 0..13 /\ m = Length("up", r) + 1 /\ q = r + 1
      BY <2>1 DEF Moves
    <3>2. Length("up", r) \in Nat
      BY <3>1 DEF Length
    <3>3. rev = r + 1 => before = r /\ up < m
      <4>1. rev = r + 1 => before = r
        BY <1>1, <3>1
      <4>2. up \in Int /\ (before = r => up < m)
        BY <1>1, <3>1, <3>2
      <4> QED BY <4>1, <4>2
    <3> QED BY <2>1, <3>1, <3>3 DEF Stands
  <2>2. CASE d = "down"
    <3>1. r \in 1..14 /\ m = Length("down", r) + 1 /\ q = r - 1
      BY <2>2 DEF Moves
    <3>2. Length("down", r) \in Nat
      BY <3>1 DEF Length
    <3>3. rev = r => down < m
      BY <1>1, <3>1, <3>2
    <3> QED BY <2>2, <3>1, <3>2, <3>3 DEF Stands
  <2> QED BY <2>1, <2>2 DEF Moves
<1>2. /\ \A up \in 1..90, down \in 1..32 : Long(1, up, down)
      /\ \A up \in 1..7, down \in 1..7 : Long(2, up, down)
      /\ \A up \in 1..12, down \in 1..9 : Long(3, up, down)
      /\ \A up \in 1..1, down \in 1..1 : Long(4, up, down)
      /\ \A up \in 1..4, down \in 1..4 : Long(5, up, down)
      /\ \A up \in 1..4, down \in 1..4 : Long(6, up, down)
      /\ \A up \in 1..3, down \in 1..3 : Long(7, up, down)
      /\ \A up \in 1..3, down \in 1..3 : Long(8, up, down)
      /\ \A up \in 1..3, down \in 1..3 : Long(9, up, down)
      /\ \A up \in 1..3, down \in 1..3 : Long(10, up, down)
      /\ \A up \in 1..4, down \in 1..4 : Long(11, up, down)
      /\ \A up \in 1..1, down \in 1..1 : Long(12, up, down)
      /\ \A up \in 1..1, down \in 1..1 : Long(13, up, down)
      /\ \A up \in 1..1, down \in 1..1 : Long(14, up, down)
  <2>1. \A up \in 1..90, down \in 1..32 : Long(1, up, down)
    <3>1. Length("up", 0) = 90 /\ Length("down", 1) = 32 /\ 0 = 1 - 1
      BY DEF Length
    <3> HIDE DEF Long
    <3>2. ASSUME NEW up \in 1..90, NEW down \in 1..32 PROVE Long(1, up, down)
      BY <1>1, <3>1
    <3> QED BY ONLY <3>2
  <2>2. \A up \in 1..7, down \in 1..7 : Long(2, up, down)
    <3>1. Length("up", 1) = 7 /\ Length("down", 2) = 7 /\ 1 = 2 - 1
      BY DEF Length
    <3> HIDE DEF Long
    <3>2. ASSUME NEW up \in 1..7, NEW down \in 1..7 PROVE Long(2, up, down)
      BY <1>1, <3>1
    <3> QED BY ONLY <3>2
  <2>3. \A up \in 1..12, down \in 1..9 : Long(3, up, down)
    <3>1. Length("up", 2) = 12 /\ Length("down", 3) = 9 /\ 2 = 3 - 1
      BY DEF Length
    <3> HIDE DEF Long
    <3>2. ASSUME NEW up \in 1..12, NEW down \in 1..9 PROVE Long(3, up, down)
      BY <1>1, <3>1
    <3> QED BY ONLY <3>2
  <2>4. \A up \in 1..1, down \in 1..1 : Long(4, up, down)
    <3>1. Length("up", 3) = 1 /\ Length("down", 4) = 1 /\ 3 = 4 - 1
      BY DEF Length
    <3> HIDE DEF Long
    <3>2. ASSUME NEW up \in 1..1, NEW down \in 1..1 PROVE Long(4, up, down)
      BY <1>1, <3>1
    <3> QED BY ONLY <3>2
  <2>5. \A up \in 1..4, down \in 1..4 : Long(5, up, down)
    <3>1. Length("up", 4) = 4 /\ Length("down", 5) = 4 /\ 4 = 5 - 1
      BY DEF Length
    <3> HIDE DEF Long
    <3>2. ASSUME NEW up \in 1..4, NEW down \in 1..4 PROVE Long(5, up, down)
      BY <1>1, <3>1
    <3> QED BY ONLY <3>2
  <2>6. \A up \in 1..4, down \in 1..4 : Long(6, up, down)
    <3>1. Length("up", 5) = 4 /\ Length("down", 6) = 4 /\ 5 = 6 - 1
      BY DEF Length
    <3> HIDE DEF Long
    <3>2. ASSUME NEW up \in 1..4, NEW down \in 1..4 PROVE Long(6, up, down)
      BY <1>1, <3>1
    <3> QED BY ONLY <3>2
  <2>7. \A up \in 1..3, down \in 1..3 : Long(7, up, down)
    <3>1. Length("up", 6) = 3 /\ Length("down", 7) = 3 /\ 6 = 7 - 1
      BY DEF Length
    <3> HIDE DEF Long
    <3>2. ASSUME NEW up \in 1..3, NEW down \in 1..3 PROVE Long(7, up, down)
      BY <1>1, <3>1
    <3> QED BY ONLY <3>2
  <2>8. \A up \in 1..3, down \in 1..3 : Long(8, up, down)
    <3>1. Length("up", 7) = 3 /\ Length("down", 8) = 3 /\ 7 = 8 - 1
      BY DEF Length
    <3> HIDE DEF Long
    <3>2. ASSUME NEW up \in 1..3, NEW down \in 1..3 PROVE Long(8, up, down)
      BY <1>1, <3>1
    <3> QED BY ONLY <3>2
  <2>9. \A up \in 1..3, down \in 1..3 : Long(9, up, down)
    <3>1. Length("up", 8) = 3 /\ Length("down", 9) = 3 /\ 8 = 9 - 1
      BY DEF Length
    <3> HIDE DEF Long
    <3>2. ASSUME NEW up \in 1..3, NEW down \in 1..3 PROVE Long(9, up, down)
      BY <1>1, <3>1
    <3> QED BY ONLY <3>2
  <2>10. \A up \in 1..3, down \in 1..3 : Long(10, up, down)
    <3>1. Length("up", 9) = 3 /\ Length("down", 10) = 3 /\ 9 = 10 - 1
      BY DEF Length
    <3> HIDE DEF Long
    <3>2. ASSUME NEW up \in 1..3, NEW down \in 1..3 PROVE Long(10, up, down)
      BY <1>1, <3>1
    <3> QED BY ONLY <3>2
  <2>11. \A up \in 1..4, down \in 1..4 : Long(11, up, down)
    <3>1. Length("up", 10) = 4 /\ Length("down", 11) = 4 /\ 10 = 11 - 1
      BY DEF Length
    <3> HIDE DEF Long
    <3>2. ASSUME NEW up \in 1..4, NEW down \in 1..4 PROVE Long(11, up, down)
      BY <1>1, <3>1
    <3> QED BY ONLY <3>2
  <2>12. \A up \in 1..1, down \in 1..1 : Long(12, up, down)
    <3>1. Length("up", 11) = 1 /\ Length("down", 12) = 1 /\ 11 = 12 - 1
      BY DEF Length
    <3> HIDE DEF Long
    <3>2. ASSUME NEW up \in 1..1, NEW down \in 1..1 PROVE Long(12, up, down)
      BY <1>1, <3>1
    <3> QED BY ONLY <3>2
  <2>13. \A up \in 1..1, down \in 1..1 : Long(13, up, down)
    <3>1. Length("up", 12) = 1 /\ Length("down", 13) = 1 /\ 12 = 13 - 1
      BY DEF Length
    <3> HIDE DEF Long
    <3>2. ASSUME NEW up \in 1..1, NEW down \in 1..1 PROVE Long(13, up, down)
      BY <1>1, <3>1
    <3> QED BY ONLY <3>2
  <2>14. \A up \in 1..1, down \in 1..1 : Long(14, up, down)
    <3>1. Length("up", 13) = 1 /\ Length("down", 14) = 1 /\ 13 = 14 - 1
      BY DEF Length
    <3> HIDE DEF Long
    <3>2. ASSUME NEW up \in 1..1, NEW down \in 1..1 PROVE Long(14, up, down)
      BY <1>1, <3>1
    <3> QED BY ONLY <3>2
  <2> HIDE DEF Long
  <2> QED BY ONLY <2>1, <2>2, <2>3, <2>4, <2>5, <2>6, <2>7, <2>8, <2>9, <2>10, <2>11, <2>12, <2>13, <2>14
<1>3. \A t : HasTable(t, d, q, 1) <=> HasTable(t, d, r, m)
  BY ONLY <1>2 DEF HasTable, IsNew, OldGone
<1>4. (IsNew(d, q, 1) <=> IsNew(d, r, m))
  BY ONLY <1>2 DEF IsNew
<1>5. \A i : Unsure(i, d, q, 1) <=> Unsure(i, d, r, m)
  BY ONLY <1>2 DEF Unsure, OldGone
<1>6. \A t, c : LateColumn(t, c, d, q, 1) <=> LateColumn(t, c, d, r, m)
  BY ONLY <1>2 DEF LateColumn
<1>7. \A t, c : Loose(t, c, d, q, 1) <=> Loose(t, c, d, r, m)
  BY ONLY <1>2 DEF Loose
<1>8. \A t, x : HasCheck(t, x, d, q, 1) <=> HasCheck(t, x, d, r, m)
  BY ONLY <1>2 DEF HasCheck
<1>9. \A t, c, u, x : HasKey(t, c, u, x, d, q, 1) <=> HasKey(t, c, u, x, d, r, m)
  BY ONLY <1>2 DEF HasKey
<1>10. \A i : HasIndex(i, d, q, 1) <=> HasIndex(i, d, r, m)
  BY ONLY <1>2 DEF HasIndex
<1>11. \A x : HasEnum(x, d, q, 1) <=> HasEnum(x, d, r, m)
  BY ONLY <1>2 DEF HasEnum
<1>12. (HasRuleBased(d, q, 1) <=> HasRuleBased(d, r, m))
  BY ONLY <1>2 DEF HasRuleBased
<1>13. \A f : HasFunction(f, d, q, 1) <=> HasFunction(f, d, r, m)
  BY ONLY <1>2 DEF HasFunction
<1> QED BY ONLY <1>3, <1>4, <1>5, <1>6, <1>7, <1>8, <1>9, <1>10, <1>11, <1>12, <1>13 DEF Same

-----------------------------------------------------------------------------
(* The rows a statement may trip over.                                     *)

\* Only the statement that creates a table makes it, and it does so at one place.
LEMMA SeedTablesStand ==
    ASSUME NEW d \in {"up", "down"}, NEW r, Moves(d, r), NEW n \in Nat,
           NEW t \in SeedTables, HasTable(t, d, r, n + 1), ~HasTable(t, d, r, n)
    PROVE  d = "up" /\ r = 0
<1>1. t \in {"companies", "departments", "users", "policies", "policy_versions",
             "regulatory_frameworks", "regulatory_clauses"}
  BY SeedTablesAre
<1>2. \A up, down \in Nat : Stands(1, up, down, d, r, n + 1) /\ ~Stands(1, up, down, d, r, n) => d = "up" /\ r = 0
  <2>1. CASE d = "up"
    BY <2>1 DEF Stands, Moves
  <2>2. CASE d = "down"
    BY <2>2 DEF Stands, Moves
  <2> QED BY <2>1, <2>2
<1> QED BY ONLY <1>1, <1>2, HasTable(t, d, r, n + 1), ~HasTable(t, d, r, n) DEF HasTable

\* Where a column that is required appears.
LEMMA RequiredColumns ==
    ASSUME NEW d \in {"up", "down"}, NEW r, Moves(d, r), NEW n \in Nat, NEW t, NEW c,
           LateColumn(t, c, d, r, n + 1), ~LateColumn(t, c, d, r, n)
    PROVE  /\ ~Loose(t, c, d, r, n + 1) => d = "up" /\ r = 1 /\ t = "policy_versions"
           /\ t = "clauses" /\ c = "policy_id" => d = "up" /\ r = 2 /\ n + 1 = 3
<1>1. CASE d = "up"
  <2>1. r \in 0..13
    BY <1>1 DEF Moves
  <2> QED BY ONLY <1>1, <2>1, n \in Nat, LateColumn(t, c, d, r, n + 1), ~LateColumn(t, c, d, r, n)
          DEF LateColumn, Loose, Stands
<1>2. CASE d = "down"
  <2>1. \A rev, up, down \in Nat : Stands(rev, up, down, d, r, n + 1) => Stands(rev, up, down, d, r, n)
    BY <1>2 DEF Stands, Moves
  <2>2. LateColumn(t, c, d, r, n)
    BY ONLY <2>1, LateColumn(t, c, d, r, n + 1) DEF LateColumn
  <2> QED BY <2>2
<1> QED BY <1>1, <1>2

\* Where a column that could be null becomes required.
LEMMA TightenedColumns ==
    ASSUME NEW d \in {"up", "down"}, NEW r, Moves(d, r), NEW n \in Nat, NEW t, NEW c,
           Loose(t, c, d, r, n), ~Loose(t, c, d, r, n + 1),
           LateColumn(t, c, d, r, n + 1) <=> LateColumn(t, c, d, r, n)
    PROVE  \/ d = "down" /\ r = 2 /\ t = "policies"
           \/ d = "down" /\ r = 3 /\ t = "clauses"
           \/ d = "up" /\ r = 2 /\ t = "clauses" /\ c = "policy_id" /\ n = 4
<1>1. CASE d = "up"
  <2>1. r \in 0..13
    BY <1>1 DEF Moves
  <2> QED BY ONLY <1>1, <2>1, n \in Nat, Loose(t, c, d, r, n), ~Loose(t, c, d, r, n + 1)
          DEF Loose, Stands
<1>2. CASE d = "down"
  <2>1. r \in 1..14
    BY <1>2 DEF Moves
  <2> QED BY ONLY <1>2, <2>1, n \in Nat, Loose(t, c, d, r, n), ~Loose(t, c, d, r, n + 1),
                  LateColumn(t, c, d, r, n + 1) <=> LateColumn(t, c, d, r, n)
          DEF Loose, LateColumn, Stands
<1> QED BY <1>1, <1>2

\* Where the key on the version and the number of a clause is made.
LEMMA VersionKeyStands ==
    ASSUME NEW d \in {"up", "down"}, NEW r, Moves(d, r), NEW n \in Nat,
           HasIndex(VersionKey, d, r, n + 1), ~HasIndex(VersionKey, d, r, n)
    PROVE  (d = "up" /\ r = 0) \/ (d = "down" /\ r = 14)
<1>1. \A m : HasIndex(VersionKey, d, r, m) <=> Stands(1, 52, 9, d, r, m) /\ ~Stands(14, 1, 1, d, r, m)
  BY DEF HasIndex, VersionKey
<1>2. CASE d = "up"
  <2>1. r \in 0..13
    BY <1>2 DEF Moves
  <2>2. CASE r # 0
    <3>1. Stands(1, 52, 9, d, r, n)
      BY <1>2, <2>1, <2>2 DEF Stands
    <3>2. Stands(14, 1, 1, d, r, n)
      BY <1>1, <3>1
    <3>3. Stands(14, 1, 1, d, r, n + 1)
      BY <1>2, <2>1, <3>2 DEF Stands
    <3> QED BY <1>1, <3>3
  <2> QED BY <1>2, <2>1, <2>2
<1>3. CASE d = "down"
  BY <1>1, <1>3 DEF Stands, Moves
<1> QED BY <1>2, <1>3

\* The rows refuse a statement at four places only.
LEMMA RowsRefused ==
    ASSUME NEW d \in {"up", "down"}, NEW r, Moves(d, r), NEW n \in Nat, NEW op, Placed(op, d, r, n),
           NEW s, Fits(s, d, r, n), NEW rows, RowsOk(rows, s), RowsFit(rows, s, d, r, n), ~RowsAllow(op, rows)
    PROVE  <<d, r, op.table>> \in
               {<<"up", 1, "policy_versions">>, <<"down", 2, "policies">>,
                <<"down", 3, "clauses">>, <<"down", 14, "clauses">>}
<1>1. /\ OnTable(op) => op.table \in AllTables
      /\ \A t \in AllTables : \A w \in rows[t] : RowOk(rows, s, t, w)
      /\ d = "up" /\ r = 0 => \A t \in AllTables : rows[t] = {}
      /\ \A w \in rows["clauses"] : "policy_id" \in w.nulls => d = "up" /\ r = 2 /\ n = 3
  BY DEF Placed, FormPlaced, Regular, RowsOk, RowsFit
<1>2. MovesColumns(op, d, r, n) /\ ReadyColumn(op, d, r, n)
  BY DEF Placed, ColumnPlaced
<1>3. CASE op.do = "add_column" /\ ~(op.null \/ rows[op.table] = {})
  <2>1. LateColumn(op.table, op.column, d, r, n + 1) /\ ~Loose(op.table, op.column, d, r, n + 1)
    BY <1>2, <1>3 DEF MovesColumns, OnColumn
  <2>2. ~LateColumn(op.table, op.column, d, r, n)
    BY <1>2, <1>3 DEF ReadyColumn, Column
  <2> QED BY <2>1, <2>2, RequiredColumns
<1>4. CASE op.do = "alter_column" /\ ~op.null /\ \E w \in rows[op.table] : op.column \in w.nulls
  <2>1. PICK w \in rows[op.table] : op.column \in w.nulls
    BY <1>4
  <2>2. op.table \in AllTables
    BY <1>1, <1>4 DEF OnTable, AltersTable
  <2>3. op.table \in Tables(s) /\ op.column \in Nullable(s, op.table)
    BY <1>1, <2>1, <2>2 DEF RowOk
  <2>4. /\ \/ IsMade(op.table, op.column, d, r, n) /\ Made(op.table, d, r, n).cols[op.column].null
           \/ Loose(op.table, op.column, d, r, n)
    <3>1. NullsFit(s.tables[op.table].cols, op.table, d, r, n)
      BY <2>3 DEF Fits, TablesFit, TableFits
    <3> QED BY <2>3, <3>1 DEF NullsFit, Nullable, IsMade
  <2>5. /\ ~Loose(op.table, op.column, d, r, n + 1)
        /\ IsMade(op.table, op.column, d, r, n) => ~Made(op.table, d, r, n).cols[op.column].null
        /\ LateColumn(op.table, op.column, d, r, n + 1) <=> LateColumn(op.table, op.column, d, r, n)
    BY <1>2, <1>4 DEF MovesColumns
  <2>6. ~(d = "up" /\ r = 2 /\ op.table = "clauses" /\ op.column = "policy_id" /\ n = 4)
    BY <1>1, <2>1
  <2> QED BY <2>4, <2>5, <2>6, TightenedColumns
<1>5. CASE op.do = "create_index" /\ \E w \in rows[op.table] : op.name \in w.repeats
  <2>1. PICK w \in rows[op.table] : op.name \in w.repeats
    BY <1>5
  <2>2. op.table \in AllTables
    BY <1>1, <1>5 DEF OnTable
  <2>3. op.table = "clauses" /\ op.name = VersionKey
    BY <1>1, <2>1, <2>2 DEF RowOk
  <2>4. ~(d = "up" /\ r = 0)
    BY <1>1, <2>1, <2>2
  <2>5. NamedIndex(op.name, op.table, op.columns) /\ ~HasIndex(op.name, d, r, n)
    BY <1>5, <2>4 DEF Placed, KeyPlaced, ReadyOther
  <2>6. ~Unsure(op.name, d, r, n + 1)
    BY <2>3 DEF Unsure, VersionKey
  <2>7. HasIndex(op.name, d, r, n + 1)
    BY <1>5, <2>5, <2>6 DEF Placed, IndexPlaced, MovesIndexes
  <2> QED BY <2>3, <2>4, <2>5, <2>7, VersionKeyStands
<1> QED BY <1>3, <1>4, <1>5 DEF RowsAllow

\* What the rows keep to beside the schema holds after the statement too.
LEMMA RowsStep ==
    ASSUME NEW d \in {"up", "down"}, NEW r, Moves(d, r), NEW n \in Nat, NEW op, Placed(op, d, r, n),
           NEW s, Fits(s, d, r, n), SchemaAllows(op, s), NEW rows, RowsOk(rows, s), RowsFit(rows, s, d, r, n),
           NEW S, S = Statement(op, s), NEW R, R = OnRows(op, rows),
           d = "up" /\ r = 2 /\ n = 3 => op.do = "backfill" /\ op.table = "clauses" /\ op.column = "policy_id"
    PROVE  RowsFit(R, S, d, r, n + 1)
<1>1. /\ OnTable(op) => op.table \in DOMAIN rows
      /\ DOMAIN rows = AllTables
  BY DEF Placed, FormPlaced, Regular, RowsOk
<1>2. \A t \in AllTables : \A w \in R[t] : /\ op.do \in {"create_table", "drop_table"} => t # op.table
                                           /\ \E v : Source(op, rows, t, w, v)
  BY <1>1, RowsComeFrom
<1>3. d = "up" /\ r = 0 => \A t \in AllTables : R[t] = {}
  <2>1. d = "up" /\ r = 0 => \A t \in AllTables : rows[t] = {}
    BY DEF RowsFit
  <2> QED BY <1>2, <2>1 DEF Source
<1>4. ASSUME SeedTables \subseteq Tables(S), WriterIn(R, "seed", "companies"), NEW t \in SeedTables
      PROVE  WriterIn(R, "seed", t)
  <2>0. SeedTables \subseteq AllTables /\ "companies" \in SeedTables
    BY SeedTablesAre, AllTablesAre
  <2>1. ~(d = "up" /\ r = 0)
    BY <1>3, <1>4, <2>0 DEF WriterIn
  <2>2. \A u : HasTable(u, d, r, n + 1) <=> (HasTable(u, d, r, n) /\ ~Drops(op, u)) \/ Creates(op, u)
    BY DEF Placed, TablePlaced, MovesTables
  <2>3. \A u \in SeedTables : ~Creates(op, u)
    <3> SUFFICES ASSUME NEW u \in SeedTables, Creates(op, u) PROVE FALSE
      OBVIOUS
    <3>1. ~HasTable(u, d, r, n)
      BY DEF Placed, TablePlaced, ReadyTable, Creates
    <3>2. HasTable(u, d, r, n + 1)
      BY <2>2
    <3> QED BY <2>1, <3>1, <3>2, SeedTablesStand
  <2>4. \A u \in SeedTables : ~Drops(op, u)
    BY <1>4, TablesDropped DEF Drops
  <2>5. \A u \in SeedTables : WriterIn(R, "seed", u) <=> WriterIn(rows, "seed", u)
    BY <1>1, <2>0, <2>3, <2>4, WritersStay DEF Creates, Drops
  <2>6. SeedTables \subseteq Tables(s)
    <3>1. ASSUME NEW u \in SeedTables PROVE u \in Tables(s)
      <4>1. u \in Tables(S) /\ ~Creates(op, u)
        BY <1>4, <2>3
      <4> QED BY <4>1, TablesCreated, TablesDropped, TablesAltered, TablesKept DEF Creates, Tables, SchemaAllows
    <3> QED BY <3>1
  <2> QED BY <1>4, <2>0, <2>5, <2>6 DEF RowsFit
<1>5. ASSUME NEW w \in R["clauses"], "policy_id" \in w.nulls PROVE d = "up" /\ r = 2 /\ n + 1 = 3
  <2>0. "clauses" \in AllTables
    BY AllTablesAre
  <2>1. PICK v : Source(op, rows, "clauses", w, v)
    BY <1>2, <1>5, <2>0
  <2>2. CASE "policy_id" \in v.nulls
    <3>1. d = "up" /\ r = 2 /\ n = 3
      BY <2>1, <2>2 DEF Source, RowsFit
    <3> QED BY <1>5, <2>1, <3>1 DEF Source
  <2>3. CASE "policy_id" \notin v.nulls
    <3>1. op.do = "add_column" /\ op.table = "clauses" /\ op.column = "policy_id"
      BY <1>5, <2>1, <2>3 DEF Source
    <3>2. LateColumn(op.table, op.column, d, r, n + 1) /\ ~LateColumn(op.table, op.column, d, r, n)
      BY <3>1 DEF Placed, ColumnPlaced, MovesColumns, ReadyColumn, Column, OnColumn
    <3> QED BY <3>1, <3>2, RequiredColumns
  <2> QED BY <2>2, <2>3
<1> QED BY <1>3, <1>4, <1>5 DEF RowsFit

-----------------------------------------------------------------------------
(* Every step keeps the schema the one of its place.                       *)

\* The number of statements is a number.
LEMMA LengthIs == ASSUME NEW d, NEW r, Moves(d, r) PROVE Length(d, r) \in Nat
<1>1. CASE d = "up"
  BY <1>1 DEF Moves, Length
<1>2. CASE d = "down"
  BY <1>2 DEF Moves, Length
<1> QED BY <1>1, <1>2 DEF Moves

\* At revision 0 there is nothing.
LEMMA NothingAtStart ==
    ASSUME NEW s, Fits(s, "none", 0, 1), NEW rows, RowsOk(rows, s)
    PROVE  Tables(s) = {} /\ DOMAIN s.indexes = {} /\ \A t \in AllTables : rows[t] = {}
<1>1. \A t : ~HasTable(t, "none", 0, 1)
  BY DEF HasTable, Stands
<1>2. Tables(s) = {}
  BY <1>1 DEF Fits, TablesFit
<1> QED BY <1>2 DEF Fits, IndexesFit, RowsOk, RowOk

\* The places at which a run starts, passes from revision to revision, and ends.
LEMMA FitsAtStart ==
    ASSUME NEW s, NEW r \in Int, NEW d, Fits(s, "none", r, 1), SchemaOk(s), NEW rows, RowsOk(rows, s),
           RowsFit(rows, s, "none", r, 1)
    PROVE  Fits(s, d, r, 1) /\ RowsFit(rows, s, d, r, 1)
<1>1. Same("none", r, 1, d, r, 1)
  BY SameStart
<1>2. r = 0 => DOMAIN s.indexes = {} /\ \A t \in AllTables : rows[t] = {}
  BY NothingAtStart
<1>3. Fits(s, d, r, 1)
  BY <1>1, <1>2, SameFits
<1> QED BY <1>2, <1>3 DEF RowsFit

\* Between revisions the direction does not matter.
LEMMA FitsAtEnd ==
    ASSUME NEW s, NEW r \in Int, NEW d, Fits(s, d, r, 1), NEW rows, RowsFit(rows, s, d, r, 1)
    PROVE  Fits(s, "none", r, 1) /\ RowsFit(rows, s, "none", r, 1)
<1>1. Same(d, r, 1, "none", r, 1)
  BY SameStart
<1>2. Fits(s, "none", r, 1)
  BY <1>1, SameFits
<1> QED BY <1>2 DEF RowsFit

\* After the last statement of a revision the next one is reached.
LEMMA FitsPasses ==
    ASSUME NEW s, NEW d, NEW r, Moves(d, r), NEW m, m = Length(d, r) + 1, NEW q, q = IF d = "up" THEN r + 1 ELSE r - 1,
           Fits(s, d, r, m), NEW rows, RowsFit(rows, s, d, r, m)
    PROVE  Fits(s, d, q, 1) /\ RowsFit(rows, s, d, q, 1)
<1>1. Same(d, r, m, d, q, 1)
  BY SameEnd
<1>2. ~(d = "up" /\ q = 0)
  <2>1. d = "up" => r \in 0..13
    BY DEF Moves
  <2> QED BY <2>1
<1>3. Fits(s, d, q, 1)
  BY <1>1, <1>2, SameFits
<1>4. ~(d = "up" /\ r = 2 /\ m = 3)
  BY DEF Length
<1> QED BY <1>2, <1>3, <1>4 DEF RowsFit

\* What a migration is about to do is in its place.
Places(op) ==
    /\ Moves(run.dir, run.db.rev) /\ op = Statements[run.next]
    /\ Placed(op, run.dir, run.db.rev, run.next)
    /\ run.next \in Nat /\ run.next <= Length(run.dir, run.db.rev)
    /\ run.dir = "up" /\ run.db.rev = 2 /\ run.next = 3 =>
          op.do = "backfill" /\ op.table = "clauses" /\ op.column = "policy_id"

\* The statement that comes next is in its place.
LEMMA StatementPlaced ==
    ASSUME RowsInv, Running, MoreRevisions, run.next <= Len(Statements)
    PROVE  \E op : Places(op)
<1> DEFINE op == Statements[run.next]
<1>1. RunOk
  BY DEF RowsInv, RunOk
<1>2. Moves(run.dir, run.db.rev) /\ Statements = Script(run.dir, run.db.rev)
  BY <1>1, ScriptUnderWay DEF RunOk
<1>3. /\ Len(Statements) = Length(run.dir, run.db.rev) /\ Length(run.dir, run.db.rev) \in Nat
      /\ \A n \in 1..Length(run.dir, run.db.rev) : Placed(Statements[n], run.dir, run.db.rev, n)
  BY <1>2, ScriptsPlaced, LengthIs
<1>4. run.next \in 1..Length(run.dir, run.db.rev) /\ run.next \in Nat
  <2>1. run.next \in Nat /\ run.next # 0 /\ run.next <= Length(run.dir, run.db.rev)
    BY <1>1, <1>3 DEF RunOk
  <2> QED BY <2>1, <1>3
<1>5. ASSUME run.dir = "up", run.db.rev = 2, run.next = 3
      PROVE  op.do = "backfill" /\ op.table = "clauses" /\ op.column = "policy_id"
  <2>1. Script("up", 2) = AddClauseHierarchy
    BY DEF Script, Revisions
  <2>2. AddClauseHierarchy[3] = Backfill("clauses", "policy_id")
    BY DEF AddClauseHierarchy
  <2>3. op = Backfill("clauses", "policy_id")
    BY <1>2, <1>5, <2>1, <2>2
  <2> QED BY <2>3 DEF Backfill
<1> HIDE DEF op
<1>6. Placed(op, run.dir, run.db.rev, run.next) /\ op = Statements[run.next]
  BY <1>3, <1>4 DEF op
<1> QED BY <1>2, <1>4, <1>5, <1>6 DEF Places

\* An empty database is at revision 0.
LEMMA DbInitFits == DbInit => FitsInv
<1> SUFFICES ASSUME DbInit PROVE FitsInv
  OBVIOUS
<1>1. /\ db.rev = 0 /\ Tables(db.schema) = {} /\ DOMAIN db.schema.indexes = {} /\ DOMAIN db.schema.enums = {}
      /\ \A t \in AllTables : db.rows[t] = {}
      /\ ~Running
  BY DEF DbInit, EmptySchema, Tables, Running, NoRun
<1>2. \A rev \in 1..14, up \in 1..90, down \in 1..32 : ~Stands(rev, up, down, "none", 0, 1)
  BY DEF Stands
<1>3. (\A t : ~HasTable(t, "none", 0, 1)) /\ (\A i : ~HasIndex(i, "none", 0, 1))
      /\ (\A x : ~HasEnum(x, "none", 0, 1)) /\ ~HasRuleBased("none", 0, 1) /\ \A f : ~HasFunction(f, "none", 0, 1)
  BY SMTT(30), <1>2 DEF HasTable, HasIndex, HasEnum, HasRuleBased, HasFunction
<1>4. TablesFit(db.schema, "none", 0, 1)
  BY <1>1, <1>3 DEF TablesFit
<1>5. IndexesFit(db.schema, "none", 0, 1)
  BY <1>1, <1>3 DEF IndexesFit
<1>6. EnumsFit(db.schema, "none", 0, 1)
  BY <1>1, <1>3 DEF EnumsFit
<1>7. RowsFit(db.rows, db.schema, "none", 0, 1)
  <2>1. "clauses" \in AllTables /\ "companies" \in AllTables
    BY AllTablesAre
  <2> QED BY <1>1, <2>1 DEF RowsFit, WriterIn
<1> QED BY <1>1, <1>4, <1>5, <1>6, <1>7 DEF FitsInv, Fits

\* A migration starts where the last one committed.
LEMMA StartKeepsFits ==
    ASSUME RowsInv, FitsInv, NEW dir \in {"up", "down"}, StartRun(dir)
    PROVE  FitsInv'
<1>1. /\ db' = db /\ Running' /\ run'.dir = dir /\ run'.next = 1 /\ run'.db = db
  BY DEF StartRun, Running
<1>2. /\ SchemaOk(db.schema) /\ RowsOk(db.rows, db.schema) /\ db.rev \in 0..14
      /\ Fits(db.schema, "none", db.rev, 1) /\ RowsFit(db.rows, db.schema, "none", db.rev, 1)
  BY HeadIs DEF RowsInv, FitsInv, IsDb
<1>3. Fits(db.schema, dir, db.rev, 1) /\ RowsFit(db.rows, db.schema, dir, db.rev, 1)
  BY <1>2, FitsAtStart
<1>4. Moves(dir, db.rev) => 1 <= Length(dir, db.rev) + 1
  BY LengthIs
<1>5. db.rev <= db.rev
  BY <1>2
<1> QED BY <1>1, <1>2, <1>3, <1>4, <1>5 DEF FitsInv

\* A statement leads to the next place.
LEMMA ExecuteKeepsFits ==
    ASSUME RowsInv, FitsInv, ExecuteStatement
    PROVE  FitsInv'
<1>1. PICK op : Places(op)
  BY StatementPlaced DEF ExecuteStatement
<1>2. PICK o : Executes(o)
  BY StatementExecutes
<1>3. /\ op = o /\ SchemaAllows(op, run.db.schema) /\ RowsAllow(op, run.db.rows)
      /\ run'.dir = run.dir /\ run'.next = run.next + 1 /\ run'.db.rev = run.db.rev
      /\ run'.db.schema = Statement(op, run.db.schema)
      /\ run'.db.rows = OnRows(op, run.db.rows)
      /\ Running /\ Running' /\ db' = db
  BY <1>1, <1>2 DEF Executes, Places, Allowed
<1>4. /\ Placed(op, run.dir, run.db.rev, run.next) /\ Moves(run.dir, run.db.rev)
      /\ run.next \in Nat /\ run.next <= Length(run.dir, run.db.rev)
      /\ run.dir = "up" /\ run.db.rev = 2 /\ run.next = 3 =>
            op.do = "backfill" /\ op.table = "clauses" /\ op.column = "policy_id"
  BY <1>1 DEF Places
<1>5. /\ SchemaOk(run.db.schema) /\ RowsOk(run.db.rows, run.db.schema) /\ run.dir \in {"up", "down"}
      /\ Fits(run.db.schema, run.dir, run.db.rev, run.next)
      /\ RowsFit(run.db.rows, run.db.schema, run.dir, run.db.rev, run.next)
      /\ run.dir = "up" => db.rev <= run.db.rev
  BY <1>3 DEF RowsInv, FitsInv
<1>6. Fits(run'.db.schema, run.dir, run.db.rev, run.next + 1)
  BY <1>3, <1>4, <1>5, FitsStep
<1>7. RowsFit(run'.db.rows, run'.db.schema, run.dir, run.db.rev, run.next + 1)
  BY <1>3, <1>4, <1>5, RowsStep
<1>8. run.next + 1 <= Length(run.dir, run.db.rev) + 1
  BY <1>4, LengthIs
<1>9. Fits(db.schema, "none", db.rev, 1) /\ RowsFit(db.rows, db.schema, "none", db.rev, 1)
  BY DEF FitsInv
<1> QED BY <1>3, <1>5, <1>6, <1>7, <1>8, <1>9 DEF FitsInv

\* The end of a revision is the start of the next.
LEMMA FinishKeepsFits ==
    ASSUME RowsInv, FitsInv, FinishRevision
    PROVE  FitsInv'
<1> DEFINE q == IF run.dir = "up" THEN run.db.rev + 1 ELSE run.db.rev - 1
<1>1. /\ db' = db /\ run'.next = 1 /\ run'.dir = run.dir
      /\ run'.db.schema = run.db.schema /\ run'.db.rows = run.db.rows /\ run'.db.rev = q
  BY FinishKeepsRows
<1>2. /\ RunOk /\ Fits(run.db.schema, run.dir, run.db.rev, run.next)
      /\ RowsFit(run.db.rows, run.db.schema, run.dir, run.db.rev, run.next)
      /\ run.dir = "up" => db.rev <= run.db.rev
      /\ Moves(run.dir, run.db.rev) => run.next <= Length(run.dir, run.db.rev) + 1
  BY DEF RowsInv, FitsInv, RunOk, FinishRevision
<1>3. Moves(run.dir, run.db.rev) /\ Statements = Script(run.dir, run.db.rev)
  BY <1>2, ScriptUnderWay DEF RunOk, FinishRevision
<1>4. run.next = Length(run.dir, run.db.rev) + 1
  <2>1. Len(Statements) = Length(run.dir, run.db.rev) /\ Length(run.dir, run.db.rev) \in Nat
    BY <1>3, ScriptsPlaced, LengthIs
  <2>2. run.next \in Nat /\ run.next > Length(run.dir, run.db.rev)
    BY <1>2, <2>1 DEF RunOk, FinishRevision
  <2> QED BY <1>2, <1>3, <2>1, <2>2
<1>5. Fits(run.db.schema, run.dir, q, 1) /\ RowsFit(run.db.rows, run.db.schema, run.dir, q, 1)
  BY <1>2, <1>3, <1>4, FitsPasses
<1>6. run.dir = "up" => db.rev <= q
  <2>1. db.rev \in 0..14 /\ run.db.rev \in 0..14
    BY <1>2, HeadIs DEF RowsInv, RunOk, IsDb
  <2> QED BY <1>2, <2>1
<1>7. Moves(run.dir, q) => 1 <= Length(run.dir, q) + 1
  BY LengthIs
<1>8. Fits(db.schema, "none", db.rev, 1) /\ RowsFit(db.rows, db.schema, "none", db.rev, 1)
  BY DEF FitsInv
<1> HIDE DEF q
<1> QED BY <1>1, <1>5, <1>6, <1>7, <1>8 DEF FitsInv

\* What is committed fits its revision.
LEMMA CommitKeepsFits ==
    ASSUME RowsInv, FitsInv, CommitRun
    PROVE  FitsInv'
<1>1. ~Running' /\ db' = run.db /\ Running /\ run.next = 1
  BY DEF CommitRun, Running, NoRun
<1>2. /\ Fits(run.db.schema, run.dir, run.db.rev, 1) /\ RowsFit(run.db.rows, run.db.schema, run.dir, run.db.rev, 1)
      /\ run.db.rev \in 0..14
  BY <1>1, HeadIs DEF RowsInv, FitsInv, IsDb
<1>3. /\ Fits(run.db.schema, "none", run.db.rev, 1)
      /\ RowsFit(run.db.rows, run.db.schema, "none", run.db.rev, 1)
  BY <1>2, FitsAtEnd
<1> QED BY <1>1, <1>3 DEF FitsInv

\* A batch of seed rows is the whole seed; no batch leaves out the policy of a clause.
Whole(batch) ==
    /\ "companies" \in DOMAIN batch /\ batch["companies"].by = "seed" =>
          \A t \in SeedTables : t \in DOMAIN batch /\ batch[t].by = "seed"
    /\ "clauses" \in DOMAIN batch => "policy_id" \notin batch["clauses"].nulls

\* A batch keeps what is said of the rows beside the schema.
LEMMA WithRowsFit ==
    ASSUME NEW rows, NEW s, NEW d, NEW r, NEW n, RowsFit(rows, s, d, r, n), NEW batch,
           DOMAIN batch \subseteq AllTables, Whole(batch), d = "up" /\ r = 0 => DOMAIN batch = {}
    PROVE  RowsFit(WithRows(rows, batch), s, d, r, n)
<1> DEFINE R == WithRows(rows, batch)
<1>1. \A t \in AllTables : R[t] = IF t \in DOMAIN batch THEN rows[t] \cup {batch[t]} ELSE rows[t]
  BY DEF WithRows
<1>2. SeedTables \subseteq AllTables /\ "companies" \in AllTables /\ "clauses" \in AllTables
  BY SeedTablesAre, AllTablesAre
<1> HIDE DEF R
<1>3. d = "up" /\ r = 0 => \A t \in AllTables : R[t] = {}
  BY <1>1 DEF RowsFit
<1>4. ASSUME SeedTables \subseteq Tables(s), WriterIn(R, "seed", "companies"), NEW t \in SeedTables
      PROVE  WriterIn(R, "seed", t)
  <2>1. WriterIn(rows, "seed", t) \/ (t \in DOMAIN batch /\ batch[t].by = "seed")
    <3>1. WriterIn(rows, "seed", "companies") \/ ("companies" \in DOMAIN batch /\ batch["companies"].by = "seed")
      BY <1>1, <1>2, <1>4 DEF WriterIn
    <3> QED BY <1>4, <3>1 DEF RowsFit, Whole
  <2> QED BY <1>1, <1>2, <2>1 DEF WriterIn
<1>5. ASSUME NEW w \in R["clauses"], "policy_id" \in w.nulls PROVE d = "up" /\ r = 2 /\ n = 3
  <2>1. w \in rows["clauses"]
    BY <1>1, <1>2, <1>5 DEF Whole
  <2> QED BY <1>5, <2>1 DEF RowsFit
<1>6. RowsFit(R, s, d, r, n)
  BY <1>3, <1>4, <1>5 DEF RowsFit
<1> QED BY <1>6 DEF R

\* Writers change rows, not the schema.
LEMMA InsertKeepsFits ==
    ASSUME RowsInv, FitsInv, NEW batch, BatchOk(batch), Whole(batch), Insert(batch)
    PROVE  FitsInv'
<1>1. /\ IsDb(db) /\ (Running => RunOk) /\ DOMAIN batch \subseteq AllTables
      /\ db'.schema = db.schema /\ db'.rev = db.rev /\ (Running' <=> Running)
  <2>1. Running => RunOk
    BY DEF RowsInv, RunOk
  <2> QED BY <2>1, InsertKeepsRows DEF RowsInv, BatchOk
<1>2. db'.rows = WithRows(db.rows, batch)
  <2>1. db = [rev |-> db.rev, schema |-> db.schema, rows |-> db.rows]
    BY <1>1 DEF IsDb
  <2> QED BY <2>1 DEF Insert
<1>3. Fits(db.schema, "none", db.rev, 1) /\ RowsFit(db'.rows, db.schema, "none", db.rev, 1)
  BY <1>1, <1>2, WithRowsFit DEF FitsInv
<1>4. CASE ~Running
  BY <1>1, <1>3, <1>4 DEF FitsInv
<1>5. CASE Running
  <2>1. /\ run'.dir = run.dir /\ run'.next = run.next /\ run'.db.rev = run.db.rev
        /\ run'.db.schema = run.db.schema /\ run'.db.rows = WithRows(run.db.rows, batch)
    <3>1. run.db = [rev |-> run.db.rev, schema |-> run.db.schema, rows |-> run.db.rows]
      BY <1>1, <1>5 DEF RunOk, IsDb
    <3>2. run = [dir |-> run.dir, next |-> run.next, db |-> run.db, locked |-> run.locked]
      BY <1>1, <1>5 DEF RunOk
    <3>3. run' = [run EXCEPT !.db.rows = WithRows(@, batch)]
      BY <1>5 DEF Insert
    <3> QED BY <3>1, <3>2, <3>3
  <2>2. run.dir = "up" /\ run.db.rev = 0 => DOMAIN batch = {}
    <3> SUFFICES ASSUME run.dir = "up", run.db.rev = 0 PROVE DOMAIN batch = {}
      OBVIOUS
    <3>1. db.rev = 0
      <4>1. db.rev \in 0..14 /\ db.rev <= run.db.rev
        BY <1>1, <1>5, HeadIs DEF IsDb, FitsInv
      <4> QED BY <4>1
    <3>2. Tables(db.schema) = {}
      BY <3>1, NothingAtStart DEF RowsInv, FitsInv
    <3> QED BY <3>2 DEF Insert, CanInsert, Accepts, Serves
  <2>3. RowsFit(run'.db.rows, run.db.schema, run.dir, run.db.rev, run.next)
    BY <1>1, <1>5, <2>1, <2>2, WithRowsFit DEF FitsInv
  <2> QED BY <1>1, <1>3, <1>5, <2>1, <2>3 DEF FitsInv
<1> QED BY <1>4, <1>5

\* So does truncating.
LEMMA TruncateKeepsFits ==
    ASSUME RowsInv, FitsInv, CanTruncate, ~Running, db' = Truncated, run' = run
    PROVE  FitsInv'
<1> DEFINE E == Cascade(db.schema, TruncatedTables)
<1>1. db'.schema = db.schema /\ db'.rev = db.rev /\ ~Running'
  BY TruncateKeepsRows DEF Running
<1>2. db'.rows = [t \in AllTables |-> IF t \in E THEN {} ELSE db.rows[t]]
  <2>1. db = [rev |-> db.rev, schema |-> db.schema, rows |-> db.rows]
    BY DEF RowsInv, IsDb
  <2>2. db' = [db EXCEPT !.rows = [t \in AllTables |-> IF t \in E THEN {} ELSE @[t]]]
    BY DEF Truncated
  <2> HIDE DEF E
  <2> QED BY <2>1, <2>2
<1>3. "companies" \in E /\ "clauses" \in E
  <2>1. TruncatedTables \subseteq E
    BY CascadeClosed DEF CanTruncate
  <2> QED BY <2>1 DEF TruncatedTables
<1> HIDE DEF E
<1>4. db'.rows["companies"] = {} /\ db'.rows["clauses"] = {}
  BY <1>2, <1>3, AllTablesAre
<1>5. RowsFit(db'.rows, db.schema, "none", db.rev, 1)
  BY <1>4 DEF RowsFit, WriterIn
<1> QED BY <1>1, <1>5 DEF FitsInv

-----------------------------------------------------------------------------
(* Failures are about data.                                                *)

\* Only the seed writes seed rows, and no writer leaves out the policy of a clause.
LEMMA UploadRowsWhole == ASSUME NEW kind PROVE Whole(UploadRows(kind))
<1> DEFINE P == Plain("app", {"companies", "users", "policy_versions", "stored_files",
                              "compliance_audit_logs"})
           Q == [policies |-> Row("app", {"owning_department_id"}, {}), clauses |-> ClauseOf(kind)]
<1>1. /\ P["companies"].by = "app" /\ "companies" \in DOMAIN P /\ "clauses" \notin DOMAIN P
  BY PlainIs
<1>2. "clauses" \in DOMAIN Q /\ "policy_id" \notin Q["clauses"].nulls
  BY DEF Row, ClauseOf
<1> HIDE DEF P, Q
<1>3. (P ++ Q)["companies"].by = "app" /\ (P ++ Q)["clauses"] = Q["clauses"]
  BY <1>1, <1>2 DEF ++
<1> QED BY <1>2, <1>3 DEF Whole, UploadRows, P, Q

\* The batches of the writers.
LEMMA KnowledgeRowsWhole == Whole(KnowledgeRows)
BY PlainIs DEF Whole, KnowledgeRows

\* The batches of the writers.
LEMMA AnalysisRowsWhole == Whole(AnalysisRows)
<1> DEFINE P == Plain("app", {"obligations", "regulatory_mappings", "conflicts", "recommendations",
                              "compliance_audit_logs"})
<1>1. "companies" \notin DOMAIN P /\ "clauses" \notin DOMAIN P
  BY PlainIs
<1>2. "companies" \notin DOMAIN KnowledgeRows /\ "clauses" \notin DOMAIN KnowledgeRows
  BY PlainIs DEF KnowledgeRows
<1> HIDE DEF P
<1>3. "companies" \notin DOMAIN (P ++ KnowledgeRows) /\ "clauses" \notin DOMAIN (P ++ KnowledgeRows)
  BY <1>1, <1>2 DEF ++
<1> QED BY <1>3 DEF Whole, AnalysisRows, P

\* The batches of the writers.
LEMMA SeedRowsWhole == Whole(Plain("seed", SeedTables))
BY PlainIs DEF Whole

\* The batches of the writers.
LEMMA AcmeRowsWhole == Whole(AcmeRows)
BY PlainIs DEF Whole, AcmeRows

\* The batches of the writers.
LEMMA DemoRowsWhole == Whole(DemoRows)
<1> DEFINE P == Plain("demo", {"companies", "users", "policy_versions", "obligations"})
           Q == [policies |-> Row("demo", {"owning_department_id"}, {}),
                 clauses |-> Row("demo", {"clause_type"}, {})]
<1>1. /\ P["companies"].by = "demo" /\ "companies" \in DOMAIN P /\ "clauses" \notin DOMAIN P
  BY PlainIs
<1>2. "clauses" \in DOMAIN Q /\ "policy_id" \notin Q["clauses"].nulls
  BY DEF Row
<1> HIDE DEF P, Q
<1>3. ((P ++ Q) ++ DemoFindings)["companies"].by = "demo" /\ ((P ++ Q) ++ DemoFindings)["clauses"] = Q["clauses"]
  BY <1>1, <1>2 DEF ++
<1> QED BY <1>2, <1>3 DEF Whole, DemoRows, DemoPolicies, P, Q

\* Every step keeps the schema the one of its place.
LEMMA FitsInvStep == RowsInv /\ FitsInv /\ [DbNext]_dbVars => FitsInv'
<1> SUFFICES ASSUME RowsInv, FitsInv, [DbNext]_dbVars PROVE FitsInv'
  OBVIOUS
<1>1. ASSUME NEW dir \in {"up", "down"}, StartRun(dir) PROVE FitsInv'
  BY <1>1, StartKeepsFits
<1>2. CASE ExecuteStatement
  BY <1>2, ExecuteKeepsFits
<1>3. CASE FinishRevision
  BY <1>3, FinishKeepsFits
<1>4. CASE CommitRun
  BY <1>4, CommitKeepsFits
<1>5. ASSUME db' = db, ~Running' PROVE FitsInv'
  BY <1>5 DEF FitsInv
<1>6. CASE RefuseStatement
  BY <1>5, <1>6 DEF RefuseStatement, Running, NoRun
<1>7. ASSUME NEW kind \in Uploads, Upload(kind) PROVE FitsInv'
  BY <1>7, UploadRowsOk, UploadRowsWhole, InsertKeepsFits DEF Upload
<1>8. CASE Analyse
  BY <1>8, AnalysisRowsOk, AnalysisRowsWhole, InsertKeepsFits DEF Analyse
<1>9. CASE SeedDatabase
  BY <1>9, SeedRowsOk, SeedRowsWhole, InsertKeepsFits DEF SeedDatabase
<1>10. CASE ResetTruncate
  BY <1>10, TruncateKeepsFits DEF ResetTruncate, NoOperator
<1>11. ASSUME UNCHANGED <<db, run>> PROVE FitsInv'
  BY <1>11 DEF FitsInv, Running
<1>12. CASE ResetInsert
  BY <1>11, <1>12, AcmeRowsOk, AcmeRowsWhole, InsertKeepsFits DEF ResetInsert
<1>13. CASE DemoTruncate
  BY <1>11, <1>13, TruncateKeepsFits DEF DemoTruncate, NoOperator
<1>14. CASE DemoKnowledge
  BY <1>11, <1>14, KnowledgeRowsOk, KnowledgeRowsWhole, InsertKeepsFits DEF DemoKnowledge
<1>15. CASE DemoInsert
  BY <1>11, <1>15, DemoRowsOk, DemoRowsWhole, InsertKeepsFits DEF DemoInsert
<1>16. CASE Kill
  BY <1>5, <1>16 DEF Kill, Running, NoRun
<1>17. CASE UNCHANGED dbVars
  BY <1>11, <1>17 DEF dbVars
<1> QED BY <1>1, <1>2, <1>3, <1>4, <1>6, <1>7, <1>8, <1>9, <1>10, <1>12, <1>13, <1>14, <1>15, <1>16, <1>17
        DEF DbNext

\* A refused statement is refused for the rows, at one of four places.
LEMMA RefusedForData ==
    ASSUME RowsInv, FitsInv, RefuseStatement PROVE FailuresAreAboutData'
<1>1. PICK op : Places(op)
  BY StatementPlaced DEF RefuseStatement
<1>2. /\ Placed(op, run.dir, run.db.rev, run.next) /\ Moves(run.dir, run.db.rev) /\ run.next \in Nat
      /\ op = Statements[run.next]
  BY <1>1 DEF Places
<1>3. /\ SchemaOk(run.db.schema) /\ RowsOk(run.db.rows, run.db.schema) /\ run.dir \in {"up", "down"}
      /\ Fits(run.db.schema, run.dir, run.db.rev, run.next)
      /\ RowsFit(run.db.rows, run.db.schema, run.dir, run.db.rev, run.next)
  BY DEF RowsInv, FitsInv, RefuseStatement
<1>4. SchemaAllows(op, run.db.schema)
  BY <1>2, <1>3, SchemaReady
<1>5. /\ ~Allowed(op) /\ failed' = [dir |-> run.dir, rev |-> run.db.rev, op |-> op,
                                    schema |-> SchemaAllows(op, run.db.schema)]
  BY <1>2 DEF RefuseStatement
<1>6. <<run.dir, run.db.rev, op.table>> \in
          {<<"up", 1, "policy_versions">>, <<"down", 2, "policies">>,
           <<"down", 3, "clauses">>, <<"down", 14, "clauses">>}
  BY <1>2, <1>3, <1>4, <1>5, RowsRefused DEF Allowed
<1>7. failed'.schema /\ failed'.dir = run.dir /\ failed'.rev = run.db.rev /\ failed'.op = op
  BY <1>4, <1>5
<1> QED BY <1>6, <1>7 DEF FailuresAreAboutData

\* A failure stays what it was until the next run.
LEMMA FailuresStep == RowsInv /\ FitsInv /\ FailuresAreAboutData /\ [DbNext]_dbVars => FailuresAreAboutData'
<1> SUFFICES ASSUME RowsInv, FitsInv, FailuresAreAboutData, [DbNext]_dbVars PROVE FailuresAreAboutData'
  OBVIOUS
<1>1. ASSUME failed' = failed PROVE FailuresAreAboutData'
  BY <1>1 DEF FailuresAreAboutData
<1>2. ASSUME NEW dir \in {"up", "down"}, StartRun(dir) PROVE FailuresAreAboutData'
  BY <1>2 DEF StartRun, FailuresAreAboutData
<1>3. CASE RefuseStatement
  BY <1>3, RefusedForData
<1> QED BY <1>1, <1>2, <1>3 DEF DbNext, dbVars, ExecuteStatement, FinishRevision, CommitRun, Upload, Analyse,
        SeedDatabase, ResetTruncate, ResetInsert, DemoTruncate, DemoKnowledge, DemoInsert, Kill

\* Whatever way the database has come, a migration fails only over data, at four places.
THEOREM FailuresAlwaysAboutData == DbSpec => []FailuresAreAboutData
<1>1. DbInit => RowsInv /\ FitsInv /\ FailuresAreAboutData
  BY DbInitRows, DbInitFits DEF DbInit, FailuresAreAboutData
<1>2. RowsInv /\ FitsInv /\ FailuresAreAboutData /\ [DbNext]_dbVars => (RowsInv /\ FitsInv /\ FailuresAreAboutData)'
  BY RowsInvStep, FitsInvStep, FailuresStep
<1> QED BY <1>1, <1>2, PTL DEF DbSpec

-----------------------------------------------------------------------------
(* The head revision and the models.                                       *)

\* At the head revision.
Served(t) == \A s : Fits(s, "none", 14, 1) => Serves(s, t)
(* A model and columns of which those in N or K may be null, and those in F have a default. *)
Suits(m, D, N, F, L, K) ==
    /\ m.filled \cup m.free \cup m.generated \subseteq D \cup L
    /\ m.free \subseteq N \cup K
    /\ (D \cup L) \ (m.filled \cup m.free) \subseteq N \cup K \cup F
Holds(e, labels) ==
    HasEnum(e, "none", 14, 1) /\ \A l \in labels : Label(e, l) \/ (e = "extraction_method" /\ l = "rule_based")
Fills(labels, t, types) ==
    \A c \in DOMAIN labels :
       \/ c \in DOMAIN types /\ Holds(types[c], labels[c])
       \/ c \notin DOMAIN types /\ FileType(t, c, "none", 14, 1) /\ Holds(DocumentType, labels[c])

\* What a table is made with, and what came later, serve its model.
LEMMA ServedFrom ==
    ASSUME NEW t, NEW op, op = Made(t, "none", 14, 1), NEW D, NEW N, NEW F, NEW types, NEW refs,
           Makes(op, t, D, N, F, types, refs), N \subseteq D, F \subseteq D, HasTable(t, "none", 14, 1),
           NEW L, \A c : LateColumn(t, c, "none", 14, 1) <=> c \in L,
           NEW K, \A c : Loose(t, c, "none", 14, 1) <=> c \in K,
           NEW m, Models[t] = m, Suits(m, D, N, F, L, K), Fills(m.labels, t, types)
    PROVE  Served(t)
<1> SUFFICES ASSUME NEW s, Fits(s, "none", 14, 1) PROVE Serves(s, t)
  BY DEF Served
<1> DEFINE table == s.tables[t]
<1>1. t \in Tables(s) /\ TableFits(table, t, "none", 14, 1)
  BY DEF Fits, TablesFit
<1> HIDE DEF table
<1>2. /\ DOMAIN op.cols = D /\ op.types = types
      /\ \A c \in D : (op.cols[c].null <=> c \in N) /\ (op.cols[c].default <=> c \in F)
  BY DEF Makes, Has
<1>3. DOMAIN table.cols = D \cup L
  BY <1>1, <1>2 DEF TableFits, ColumnsFit
<1>4. \A c \in D \cup L : c \in K \/ (c \in D /\ c \in N) => table.cols[c].null
  BY <1>1, <1>2, <1>3 DEF TableFits, NullsFit
<1>5. \A c \in D : c \in F => table.cols[c].default
  <2>1. IsNew("none", 14, 1)
    BY DEF IsNew, Stands
  <2> QED BY <1>1, <1>2, <2>1 DEF TableFits, DefaultsFit
<1>6. ASSUME NEW c \in DOMAIN m.labels
      PROVE  c \in DOMAIN table.types /\ m.labels[c] \subseteq s.enums[table.types[c]]
  <2>1. ASSUME NEW e, Holds(e, m.labels[c]) PROVE m.labels[c] \subseteq s.enums[e]
    <3>1. HasRuleBased("none", 14, 1)
      BY DEF HasRuleBased, Stands
    <3> QED BY <2>1, <3>1 DEF Holds, Fits, EnumsFit
  <2>2. /\ \A k : k \in DOMAIN table.types <=> k \in DOMAIN types \/ FileType(t, k, "none", 14, 1)
        /\ \A k \in DOMAIN types : table.types[k] = types[k]
        /\ \A k \in DOMAIN table.types \ DOMAIN types : table.types[k] = DocumentType
    BY <1>1, <1>2 DEF TableFits, TypesFit
  <2> QED BY <2>1, <2>2 DEF Fills
<1>7. /\ m.filled \cup m.free \cup m.generated \subseteq DOMAIN table.cols
      /\ m.free \subseteq Nullable(s, t)
      /\ \A c \in DOMAIN table.cols \ (m.filled \cup m.free) : table.cols[c].null \/ table.cols[c].default
  <2>1. \A c \in DOMAIN table.cols : c \in N \cup K => table.cols[c].null
    BY <1>3, <1>4
  <2> QED BY <1>3, <1>5, <2>1 DEF Suits, Nullable, table
<1> QED BY <1>1, <1>6, <1>7 DEF Serves, table

\* The model of companies is served.
LEMMA CompaniesServed == Served("companies")
<1>1. Models["companies"] = Company
  BY DEF Models
<1>4. Suits(Company,
      {"id", "created_at", "updated_at", "deleted_at", "name", "is_active", "industry", "jurisdiction",
      "registration_number"},
      {"deleted_at", "industry", "jurisdiction", "registration_number"},
      {"id", "created_at", "updated_at", "is_active"},
      {},
      {})
  BY DEF Suits, Company, Mixed, Model
<1>5. /\ HasTable("companies", "none", 14, 1)
      /\ \A c : LateColumn("companies", c, "none", 14, 1) <=> c \in {}
      /\ \A c : Loose("companies", c, "none", 14, 1) <=> c \in {}
  BY DEF HasTable, LateColumn, Loose, Stands
<1>6. Fills(Company.labels, "companies", NoTypes)
  BY DEF Fills, Company, Model, Mixed, NoLabels
<1> QED BY <1>1, <1>4, <1>5, <1>6, MadeCompanies, CompaniesAre, ServedFrom

\* The model of departments is served.
LEMMA DepartmentsServed == Served("departments")
<1>1. Models["departments"] = Department
  BY DEF Models
<1>4. Suits(Department,
      {"id", "created_at", "updated_at", "deleted_at", "company_id", "name", "parent_department_id",
      "code", "description"},
      {"deleted_at", "parent_department_id", "code", "description"},
      {"id", "created_at", "updated_at"},
      {},
      {})
  BY DEF Suits, Department, Mixed, Model
<1>5. /\ HasTable("departments", "none", 14, 1)
      /\ \A c : LateColumn("departments", c, "none", 14, 1) <=> c \in {}
      /\ \A c : Loose("departments", c, "none", 14, 1) <=> c \in {}
  BY DEF HasTable, LateColumn, Loose, Stands
<1>6. Fills(Department.labels, "departments", NoTypes)
  BY DEF Fills, Department, Model, Mixed, NoLabels
<1> QED BY <1>1, <1>4, <1>5, <1>6, MadeDepartments, DepartmentsAre, ServedFrom

\* The model of users is served.
LEMMA UsersServed == Served("users")
<1>1. Models["users"] = User
  BY DEF Models
<1>4. Suits(User,
      {"id", "created_at", "updated_at", "deleted_at", "company_id", "email", "password_hash",
      "full_name", "role", "is_active", "department_id", "last_login_at"},
      {"deleted_at", "department_id", "last_login_at"},
      {"id", "created_at", "updated_at", "role", "is_active"},
      {},
      {})
  BY DEF Suits, User, Mixed, Model
<1>5. /\ HasTable("users", "none", 14, 1)
      /\ \A c : LateColumn("users", c, "none", 14, 1) <=> c \in {}
      /\ \A c : Loose("users", c, "none", 14, 1) <=> c \in {}
  BY DEF HasTable, LateColumn, Loose, Stands
<1>6. Fills(User.labels, "users",
      [role |-> "user_role"])
  BY DEF Fills, Holds, User, Model, Mixed, UserRole, Label, HasEnum, Stands, FileType, LateColumn, DocumentType
<1> QED BY <1>1, <1>4, <1>5, <1>6, MadeUsers, UsersAre, ServedFrom

\* The model of policies is served.
LEMMA PoliciesServed == Served("policies")
<1>1. Models["policies"] = Policy
  BY DEF Models
<1>4. Suits(Policy,
      {"id", "created_at", "updated_at", "deleted_at", "company_id", "owning_department_id", "title",
      "status", "policy_code", "category", "current_version_id"},
      {"deleted_at", "policy_code", "category", "current_version_id"},
      {"id", "created_at", "updated_at", "status"},
      {},
      {"owning_department_id"})
  BY DEF Suits, Policy, Mixed, Model
<1>5. /\ HasTable("policies", "none", 14, 1)
      /\ \A c : LateColumn("policies", c, "none", 14, 1) <=> c \in {}
      /\ \A c : Loose("policies", c, "none", 14, 1) <=> c \in {"owning_department_id"}
  BY DEF HasTable, LateColumn, Loose, Stands
<1>6. Fills(Policy.labels, "policies",
      [status |-> "policy_status"])
  BY DEF Fills, Holds, Policy, Model, Mixed, PolicyStatus, Label, HasEnum, Stands, FileType, LateColumn, DocumentType
<1> QED BY <1>1, <1>4, <1>5, <1>6, MadePolicies, PoliciesAre, ServedFrom

\* The model of policy_versions is served.
LEMMA PolicyVersionsServed == Served("policy_versions")
<1>1. Models["policy_versions"] = PolicyVersion
  BY DEF Models
<1>4. Suits(PolicyVersion,
      {"id", "created_at", "updated_at", "deleted_at", "policy_id", "version_number",
      "source_file_reference", "file_hash", "uploaded_by_user_id", "status", "uploaded_at",
      "effective_date", "superseded_by_version_id", "ai_summary"},
      {"deleted_at", "effective_date", "superseded_by_version_id", "ai_summary"},
      {"id", "created_at", "updated_at", "status", "uploaded_at"},
      {"original_filename", "size_bytes", "file_type", "description", "extracted_text"},
      {"description", "extracted_text"})
  BY DEF Suits, PolicyVersion, Mixed, Model
<1>5. /\ HasTable("policy_versions", "none", 14, 1)
      /\ \A c : LateColumn("policy_versions", c, "none", 14, 1) <=> c \in {"original_filename", "size_bytes", "file_type", "description", "extracted_text"}
      /\ \A c : Loose("policy_versions", c, "none", 14, 1) <=> c \in {"description", "extracted_text"}
  BY DEF HasTable, LateColumn, Loose, Stands
<1>6. Fills(PolicyVersion.labels, "policy_versions",
      [status |-> "policy_version_status"])
  BY DEF Fills, Holds, PolicyVersion, Model, Mixed, PolicyVersionStatus, PolicyDocumentFileType, Label, HasEnum, Stands, FileType, LateColumn, DocumentType
<1> QED BY <1>1, <1>4, <1>5, <1>6, MadePolicyVersions, PolicyVersionsAre, ServedFrom

\* The model of clauses is served.
LEMMA ClausesServed == Served("clauses")
<1>1. Models["clauses"] = Clause
  BY DEF Models
<1>4. Suits(Clause,
      {"id", "created_at", "updated_at", "deleted_at", "policy_version_id", "clause_number", "text",
      "clause_type", "order_index", "extracted_by", "heading"},
      {"deleted_at", "heading"},
      {"id", "created_at", "updated_at", "order_index", "extracted_by"},
      {"policy_id", "parent_clause_id"},
      {"clause_number", "clause_type", "parent_clause_id"})
  BY DEF Suits, Clause, Mixed, Model
<1>5. /\ HasTable("clauses", "none", 14, 1)
      /\ \A c : LateColumn("clauses", c, "none", 14, 1) <=> c \in {"policy_id", "parent_clause_id"}
      /\ \A c : Loose("clauses", c, "none", 14, 1) <=> c \in {"clause_number", "clause_type", "parent_clause_id"}
  BY DEF HasTable, LateColumn, Loose, Stands
<1>6. Fills(Clause.labels, "clauses",
      [clause_type |-> "clause_type", extracted_by |-> "extraction_method"])
  BY DEF Fills, Holds, Clause, Model, Mixed, ClauseType, ExtractionMethod, Label, HasEnum, Stands, FileType, LateColumn, DocumentType
<1> QED BY <1>1, <1>4, <1>5, <1>6, MadeClauses, ClausesAre, ServedFrom

\* The model of obligations is served.
LEMMA ObligationsServed == Served("obligations")
<1>1. Models["obligations"] = Obligation
  BY DEF Models
<1>2. IsNew("none", 14, 1)
  BY DEF IsNew, Stands
<1>3. Made("obligations", "none", 14, 1) = RecreateObligations[2]
  BY <1>2, MadeObligations
<1>4. Suits(Obligation,
      {"id", "created_at", "updated_at", "deleted_at", "clause_id", "policy_id", "subject", "action",
      "object", "modality", "compliance_category", "confidence_score", "ai_model", "conditions",
      "time_constraint"},
      {"deleted_at", "conditions", "time_constraint"},
      {"id", "created_at", "updated_at"},
      {},
      {})
  BY DEF Suits, Obligation, Mixed, Model
<1>5. /\ HasTable("obligations", "none", 14, 1)
      /\ \A c : LateColumn("obligations", c, "none", 14, 1) <=> c \in {}
      /\ \A c : Loose("obligations", c, "none", 14, 1) <=> c \in {}
  BY DEF HasTable, LateColumn, Loose, Stands, IsNew, OldGone
<1>6. Fills(Obligation.labels, "obligations", NoTypes)
  BY DEF Fills, Obligation, Model, Mixed, NoLabels
<1> QED BY <1>1, <1>4, <1>5, <1>6, <1>3, NewObligationsAre, ServedFrom

\* The model of regulatory_frameworks is served.
LEMMA RegulatoryFrameworksServed == Served("regulatory_frameworks")
<1>1. Models["regulatory_frameworks"] = RegulatoryFramework
  BY DEF Models
<1>4. Suits(RegulatoryFramework,
      {"id", "created_at", "updated_at", "deleted_at", "name", "jurisdiction", "issuing_body",
      "edition_or_version", "effective_date", "description"},
      {"deleted_at", "jurisdiction", "issuing_body", "edition_or_version", "effective_date",
      "description"},
      {"id", "created_at", "updated_at"},
      {},
      {})
  BY DEF Suits, RegulatoryFramework, Mixed, Model
<1>5. /\ HasTable("regulatory_frameworks", "none", 14, 1)
      /\ \A c : LateColumn("regulatory_frameworks", c, "none", 14, 1) <=> c \in {}
      /\ \A c : Loose("regulatory_frameworks", c, "none", 14, 1) <=> c \in {}
  BY DEF HasTable, LateColumn, Loose, Stands
<1>6. Fills(RegulatoryFramework.labels, "regulatory_frameworks", NoTypes)
  BY DEF Fills, RegulatoryFramework, Model, Mixed, NoLabels
<1> QED BY <1>1, <1>4, <1>5, <1>6, MadeRegulatoryFrameworks, RegulatoryFrameworksAre, ServedFrom

\* The model of regulatory_clauses is served.
LEMMA RegulatoryClausesServed == Served("regulatory_clauses")
<1>1. Models["regulatory_clauses"] = RegulatoryClause
  BY DEF Models
<1>4. Suits(RegulatoryClause,
      {"id", "created_at", "updated_at", "deleted_at", "regulatory_framework_id", "clause_reference",
      "title", "text", "category"},
      {"deleted_at", "category"},
      {"id", "created_at", "updated_at"},
      {},
      {})
  BY DEF Suits, RegulatoryClause, Mixed, Model
<1>5. /\ HasTable("regulatory_clauses", "none", 14, 1)
      /\ \A c : LateColumn("regulatory_clauses", c, "none", 14, 1) <=> c \in {}
      /\ \A c : Loose("regulatory_clauses", c, "none", 14, 1) <=> c \in {}
  BY DEF HasTable, LateColumn, Loose, Stands
<1>6. Fills(RegulatoryClause.labels, "regulatory_clauses", NoTypes)
  BY DEF Fills, RegulatoryClause, Model, Mixed, NoLabels
<1> QED BY <1>1, <1>4, <1>5, <1>6, MadeRegulatoryClauses, RegulatoryClausesAre, ServedFrom

\* The model of clause_regulatory_mappings is served.
LEMMA ClauseRegulatoryMappingsServed == Served("clause_regulatory_mappings")
<1>1. Models["clause_regulatory_mappings"] = ClauseRegulatoryMapping
  BY DEF Models
<1>4. Suits(ClauseRegulatoryMapping,
      {"id", "created_at", "updated_at", "deleted_at", "clause_id", "regulatory_clause_id",
      "mapping_type", "confidence_score", "verified_by_user_id", "verified_at"},
      {"deleted_at", "confidence_score", "verified_by_user_id", "verified_at"},
      {"id", "created_at", "updated_at"},
      {},
      {})
  BY DEF Suits, ClauseRegulatoryMapping, Mixed, Model
<1>5. /\ HasTable("clause_regulatory_mappings", "none", 14, 1)
      /\ \A c : LateColumn("clause_regulatory_mappings", c, "none", 14, 1) <=> c \in {}
      /\ \A c : Loose("clause_regulatory_mappings", c, "none", 14, 1) <=> c \in {}
  BY DEF HasTable, LateColumn, Loose, Stands
<1>6. Fills(ClauseRegulatoryMapping.labels, "clause_regulatory_mappings",
      [mapping_type |-> "mapping_type"])
  BY DEF Fills, Holds, ClauseRegulatoryMapping, Model, Mixed, MappingType, Label, HasEnum, Stands, FileType, LateColumn, DocumentType
<1> QED BY <1>1, <1>4, <1>5, <1>6, MadeClauseRegulatoryMappings, ClauseRegulatoryMappingsAre, ServedFrom

\* The model of findings is served.
LEMMA FindingsServed == Served("findings")
<1>1. Models["findings"] = Finding
  BY DEF Models
<1>4. Suits(Finding,
      {"id", "created_at", "updated_at", "deleted_at", "company_id", "finding_type", "severity",
      "title", "description", "detection_method", "status", "detected_at", "proof_reference",
      "confidence_score", "regulatory_clause_id", "resolved_by_user_id", "resolved_at",
      "resolution_notes"},
      {"deleted_at", "proof_reference", "confidence_score", "regulatory_clause_id",
      "resolved_by_user_id", "resolved_at", "resolution_notes"},
      {"id", "created_at", "updated_at", "status", "detected_at"},
      {},
      {})
  BY DEF Suits, Finding, Mixed, Model
<1>5. /\ HasTable("findings", "none", 14, 1)
      /\ \A c : LateColumn("findings", c, "none", 14, 1) <=> c \in {}
      /\ \A c : Loose("findings", c, "none", 14, 1) <=> c \in {}
  BY DEF HasTable, LateColumn, Loose, Stands
<1>6. Fills(Finding.labels, "findings",
      [finding_type |-> "finding_type", severity |-> "finding_severity", status |-> "finding_status", detection_method |-> "detection_method"])
  BY DEF Fills, Holds, Finding, Model, Mixed, FindingType, FindingSeverity, FindingStatus, DetectionMethod, Label, HasEnum, Stands, FileType, LateColumn, DocumentType
<1> QED BY <1>1, <1>4, <1>5, <1>6, MadeFindings, FindingsAre, ServedFrom

\* The model of finding_clause_links is served.
LEMMA FindingClauseLinksServed == Served("finding_clause_links")
<1>1. Models["finding_clause_links"] = FindingClauseLink
  BY DEF Models
<1>4. Suits(FindingClauseLink,
      {"id", "created_at", "updated_at", "deleted_at", "finding_id", "clause_id", "role_in_finding"},
      {"deleted_at", "role_in_finding"},
      {"id", "created_at", "updated_at"},
      {},
      {})
  BY DEF Suits, FindingClauseLink, Mixed, Model
<1>5. /\ HasTable("finding_clause_links", "none", 14, 1)
      /\ \A c : LateColumn("finding_clause_links", c, "none", 14, 1) <=> c \in {}
      /\ \A c : Loose("finding_clause_links", c, "none", 14, 1) <=> c \in {}
  BY DEF HasTable, LateColumn, Loose, Stands
<1>6. Fills(FindingClauseLink.labels, "finding_clause_links",
      [role_in_finding |-> "finding_clause_role"])
  BY DEF Fills, Holds, FindingClauseLink, Model, Mixed, FindingClauseRole, Label, HasEnum, Stands, FileType, LateColumn, DocumentType
<1> QED BY <1>1, <1>4, <1>5, <1>6, MadeFindingClauseLinks, FindingClauseLinksAre, ServedFrom

\* The model of audit_logs is served.
LEMMA AuditLogsServed == Served("audit_logs")
<1>1. Models["audit_logs"] = AuditLog
  BY DEF Models
<1>4. Suits(AuditLog,
      {"id", "company_id", "action", "entity_type", "entity_id", "occurred_at", "actor_user_id",
      "before_state", "after_state", "ip_address"},
      {"actor_user_id", "before_state", "after_state", "ip_address"},
      {"id", "occurred_at"},
      {},
      {})
  BY DEF Suits, AuditLog, Model
<1>5. /\ HasTable("audit_logs", "none", 14, 1)
      /\ \A c : LateColumn("audit_logs", c, "none", 14, 1) <=> c \in {}
      /\ \A c : Loose("audit_logs", c, "none", 14, 1) <=> c \in {}
  BY DEF HasTable, LateColumn, Loose, Stands
<1>6. Fills(AuditLog.labels, "audit_logs",
      [action |-> "audit_action", entity_type |-> "auditable_entity_type"])
  BY DEF Fills, Holds, AuditLog, Model, AuditAction, AuditableEntityType, Label, HasEnum, Stands, FileType, LateColumn, DocumentType
<1> QED BY <1>1, <1>4, <1>5, <1>6, MadeAuditLogs, AuditLogsAre, ServedFrom

\* The model of conflicts is served.
LEMMA ConflictsServed == Served("conflicts")
<1>1. Models["conflicts"] = Conflict
  BY DEF Models
<1>4. Suits(Conflict,
      {"id", "created_at", "updated_at", "deleted_at", "source_policy_id", "target_policy_id",
      "conflict_type", "similarity_score", "severity", "status", "source_obligation_id",
      "target_obligation_id", "ai_explanation"},
      {"deleted_at", "source_obligation_id", "target_obligation_id", "ai_explanation"},
      {"id", "created_at", "updated_at", "status"},
      {"relationship_type", "explanation", "confidence_score", "temporal_conflict",
      "strength_conflict", "staleness_status", "detected_parameters"},
      {"relationship_type", "explanation", "confidence_score", "temporal_conflict",
      "strength_conflict", "staleness_status", "detected_parameters"})
  BY DEF Suits, Conflict, Mixed, Model
<1>5. /\ HasTable("conflicts", "none", 14, 1)
      /\ \A c : LateColumn("conflicts", c, "none", 14, 1) <=> c \in {"relationship_type", "explanation", "confidence_score", "temporal_conflict", "strength_conflict", "staleness_status", "detected_parameters"}
      /\ \A c : Loose("conflicts", c, "none", 14, 1) <=> c \in {"relationship_type", "explanation", "confidence_score", "temporal_conflict", "strength_conflict", "staleness_status", "detected_parameters"}
  BY DEF HasTable, LateColumn, Loose, Stands
<1>6. Fills(Conflict.labels, "conflicts", NoTypes)
  BY DEF Fills, Conflict, Model, Mixed, NoLabels
<1> QED BY <1>1, <1>4, <1>5, <1>6, MadeConflicts, ConflictsAre, ServedFrom

\* The model of recommendations is served.
LEMMA RecommendationsServed == Served("recommendations")
<1>1. Models["recommendations"] = Recommendation
  BY DEF Models
<1>4. Suits(Recommendation,
      {"id", "created_at", "updated_at", "deleted_at", "conflict_id", "recommendation_summary",
      "suggested_action", "reason", "ai_model", "confidence_score", "status", "original_clause",
      "revised_clause"},
      {"deleted_at", "original_clause", "revised_clause"},
      {"id", "created_at", "updated_at", "status"},
      {"reviewer_name", "reviewed_at", "review_comments"},
      {"reviewer_name", "reviewed_at", "review_comments"})
  BY DEF Suits, Recommendation, Mixed, Model
<1>5. /\ HasTable("recommendations", "none", 14, 1)
      /\ \A c : LateColumn("recommendations", c, "none", 14, 1) <=> c \in {"reviewer_name", "reviewed_at", "review_comments"}
      /\ \A c : Loose("recommendations", c, "none", 14, 1) <=> c \in {"reviewer_name", "reviewed_at", "review_comments"}
  BY DEF HasTable, LateColumn, Loose, Stands
<1>6. Fills(Recommendation.labels, "recommendations", NoTypes)
  BY DEF Fills, Recommendation, Model, Mixed, NoLabels
<1> QED BY <1>1, <1>4, <1>5, <1>6, MadeRecommendations, RecommendationsAre, ServedFrom

\* The model of compliance_audit_logs is served.
LEMMA ComplianceAuditLogsServed == Served("compliance_audit_logs")
<1>1. Models["compliance_audit_logs"] = ComplianceAuditLog
  BY DEF Models
<1>4. Suits(ComplianceAuditLog,
      {"id", "company_id", "event_type", "user_identifier", "description", "occurred_at"},
      {},
      {"id", "occurred_at"},
      {},
      {})
  BY DEF Suits, ComplianceAuditLog, Model
<1>5. /\ HasTable("compliance_audit_logs", "none", 14, 1)
      /\ \A c : LateColumn("compliance_audit_logs", c, "none", 14, 1) <=> c \in {}
      /\ \A c : Loose("compliance_audit_logs", c, "none", 14, 1) <=> c \in {}
  BY DEF HasTable, LateColumn, Loose, Stands
<1>6. Fills(ComplianceAuditLog.labels, "compliance_audit_logs", NoTypes)
  BY DEF Fills, ComplianceAuditLog, Model, NoLabels
<1> QED BY <1>1, <1>4, <1>5, <1>6, MadeComplianceAuditLogs, ComplianceAuditLogsAre, ServedFrom

\* The model of regulatory_mappings is served.
LEMMA RegulatoryMappingsServed == Served("regulatory_mappings")
<1>1. Models["regulatory_mappings"] = RegulatoryMapping
  BY DEF Models
<1>4. Suits(RegulatoryMapping,
      {"id", "created_at", "updated_at", "deleted_at", "policy_id", "obligation_id", "framework_name",
      "regulation_id", "clause_number", "confidence_score", "ai_explanation"},
      {"deleted_at"},
      {"id", "created_at", "updated_at"},
      {},
      {})
  BY DEF Suits, RegulatoryMapping, Mixed, Model
<1>5. /\ HasTable("regulatory_mappings", "none", 14, 1)
      /\ \A c : LateColumn("regulatory_mappings", c, "none", 14, 1) <=> c \in {}
      /\ \A c : Loose("regulatory_mappings", c, "none", 14, 1) <=> c \in {}
  BY DEF HasTable, LateColumn, Loose, Stands
<1>6. Fills(RegulatoryMapping.labels, "regulatory_mappings", NoTypes)
  BY DEF Fills, RegulatoryMapping, Model, Mixed, NoLabels
<1> QED BY <1>1, <1>4, <1>5, <1>6, MadeRegulatoryMappings, RegulatoryMappingsAre, ServedFrom

\* The model of stored_files is served.
LEMMA StoredFilesServed == Served("stored_files")
<1>1. Models["stored_files"] = FileBlob
  BY DEF Models
<1>4. Suits(FileBlob,
      {"storage_path", "content", "size_bytes", "content_type", "created_at"},
      {"content_type"},
      {"created_at"},
      {},
      {})
  BY DEF Suits, FileBlob, Model
<1>5. /\ HasTable("stored_files", "none", 14, 1)
      /\ \A c : LateColumn("stored_files", c, "none", 14, 1) <=> c \in {}
      /\ \A c : Loose("stored_files", c, "none", 14, 1) <=> c \in {}
  BY DEF HasTable, LateColumn, Loose, Stands
<1>6. Fills(FileBlob.labels, "stored_files", NoTypes)
  BY DEF Fills, FileBlob, Model, NoLabels
<1> QED BY <1>1, <1>4, <1>5, <1>6, MadeStoredFiles, StoredFilesAre, ServedFrom

\* A schema that fits the head revision serves every model.
LEMMA HeadFitServes == FitsInv => HeadServesModels
<1> SUFFICES ASSUME FitsInv, db.rev = HeadRevision, NEW t \in AllTables PROVE Serves(db.schema, t)
  BY DEF HeadServesModels
<1>1. Fits(db.schema, "none", 14, 1)
  BY HeadIs DEF FitsInv
<1>2. Served(t)
  <2>1. t \in {"companies", "departments", "users", "policies", "policy_versions", "clauses",
               "obligations", "regulatory_frameworks", "regulatory_clauses", "clause_regulatory_mappings",
               "findings", "finding_clause_links", "audit_logs", "conflicts", "recommendations",
               "compliance_audit_logs", "regulatory_mappings", "stored_files"}
    BY AllTablesAre
  <2> QED BY ONLY <2>1, CompaniesServed, DepartmentsServed, UsersServed, PoliciesServed, PolicyVersionsServed,
          ClausesServed, ObligationsServed, RegulatoryFrameworksServed, RegulatoryClausesServed,
          ClauseRegulatoryMappingsServed, FindingsServed, FindingClauseLinksServed, AuditLogsServed,
          ConflictsServed, RecommendationsServed, ComplianceAuditLogsServed, RegulatoryMappingsServed,
          StoredFilesServed
<1> QED BY <1>1, <1>2 DEF Served

\* The seed is whole where its marker is.
LEMMA VerifiedIsSeeded == FitsInv => VerifyIsSound
<1> SUFFICES ASSUME FitsInv, VerifyPasses, NEW t \in SeedTables PROVE Wrote("seed", t)
  BY HeadFitServes DEF VerifyIsSound
<1>1. SeedTables \subseteq Tables(db.schema)
  BY SeedTablesAre, AllTablesAre DEF VerifyPasses, CheckTables
<1>2. WriterIn(db.rows, "seed", "companies")
  BY DEF VerifyPasses, CheckSeedData, MarkerPresent, Wrote, WriterIn
<1>3. WriterIn(db.rows, "seed", t)
  BY <1>1, <1>2 DEF FitsInv, RowsFit
<1> QED BY <1>3 DEF WriterIn, Wrote

\* At the head revision the schema serves every model, whatever way the database has come.
THEOREM HeadAlwaysServes == DbSpec => []HeadServesModels
<1>1. DbInit => RowsInv /\ FitsInv
  BY DbInitRows, DbInitFits
<1>2. RowsInv /\ FitsInv /\ [DbNext]_dbVars => (RowsInv /\ FitsInv)'
  BY RowsInvStep, FitsInvStep
<1>3. FitsInv => HeadServesModels
  BY HeadFitServes
<1> QED BY <1>1, <1>2, <1>3, PTL DEF DbSpec

\* The verification passes only on a database that serves the models and holds the whole seed.
THEOREM VerifyAlwaysSound == DbSpec => []VerifyIsSound
<1>1. DbInit => RowsInv /\ FitsInv
  BY DbInitRows, DbInitFits
<1>2. RowsInv /\ FitsInv /\ [DbNext]_dbVars => (RowsInv /\ FitsInv)'
  BY RowsInvStep, FitsInvStep
<1>3. FitsInv => VerifyIsSound
  BY VerifiedIsSeeded
<1> QED BY <1>1, <1>2, <1>3, PTL DEF DbSpec

=============================================================================
