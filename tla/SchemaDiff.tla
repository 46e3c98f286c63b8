----------------------------- MODULE SchemaDiff -----------------------------
(***************************************************************************)
(* Models of the database, the changes that lead from one to the next, the *)
(* statements of a migration and what the database makes of them           *)
(* (crates/core/src/migration/engine.rs, diff.rs, engine_sql.rs).          *)
(*                                                                         *)
(* A model (ModelSnapshot) is a function from tables to functions from     *)
(* column names to columns.  A column has a kind, <<type, nullability>>,   *)
(* the table its foreign key refers to or NoTable, that key's ON DELETE    *)
(* clause, and an index.  Primary keys are left out: every table has one   *)
(* and a foreign key refers to it.  A statement is a record; `old` is what *)
(* the Down script needs besides.                                          *)
(***************************************************************************)
EXTENDS Naturals, Sequences, FiniteSets, SequencesExt

CONSTANTS
  Dialect,   \* MigrationDialect: "Postgres" or "Sqlite"
  NoTable    \* fk_referenced_table is None

ASSUME DialectAssumption == Dialect \in {"Postgres", "Sqlite"}

(***************************************************************************)
(* Sets of change lists: a HashMap is visited in any order.                *)
(***************************************************************************)
\* For each element of S, in any order, one of the lists F(e).
AnyOrder(S, F(_)) ==
    {FlattenSeq([n \in DOMAIN order |-> list[order[n]]]) :
        order \in SetToSeqs(S),
        list \in {f \in [S -> UNION {F(e) : e \in S}] : \A e \in S : f[e] \in F(e)}}

\* For each element of S, in one order, the list F(e).
Each(S, F(_)) == LET order == SetToSeq(S) IN FlattenSeq([n \in DOMAIN order |-> F(order[n])])

\* A list of A and then one of B.
Followed(A, B) == {a \o b : a \in A, b \in B}

(***************************************************************************)
(* diff.rs and engine.rs.                                                  *)
(***************************************************************************)
HasKey(column) == column.ref # NoTable

Kinds(columns) == [c \in DOMAIN columns |-> columns[c].kind]

AddForeignKey(t, c, column) ==
    <<[do |-> "add_key", table |-> t, col |-> c, ref |-> column.ref, del |-> column.del]>>
DropForeignKey(t, c, column) ==
    <<[do |-> "drop_key", table |-> t, col |-> c, ref |-> column.ref]>>
CreateIndex(t, c, index) ==
    <<[do |-> "create_index", table |-> t, col |-> c, index |-> index]>>
DropIndex(t, c, index) ==
    <<[do |-> "drop_index", table |-> t, col |-> c, old |-> index]>>

CreateTable(t, columns) ==
    <<[do |-> "create_table", table |-> t, cols |-> Kinds(columns)]>>
DropTable(t) == <<[do |-> "drop_table", table |-> t]>>

TableKeys(t, columns) ==
    Each({c \in DOMAIN columns : HasKey(columns[c])}, LAMBDA c : AddForeignKey(t, c, columns[c]))
TableIndexes(t, columns) ==
    Each({c \in DOMAIN columns : columns[c].index # "none"},
         LAMBDA c : CreateIndex(t, c, columns[c].index))

\* initial_create_with_fks: every table, then its keys and indexes.
InitialCreate(new) ==
    Each(DOMAIN new, LAMBDA t : CreateTable(t, new[t])) \o
    Each(DOMAIN new, LAMBDA t : TableKeys(t, new[t]) \o TableIndexes(t, new[t]))

DiffIndexes(t, c, old, new) ==
    IF old = new THEN <<>>
    ELSE (IF old = "none" THEN <<>> ELSE DropIndex(t, c, old)) \o
         (IF new = "none" THEN <<>> ELSE CreateIndex(t, c, new))

\* diff_foreign_keys, for the columns both, one or the other table has.
KeyColumns(columns) == {c \in DOMAIN columns : HasKey(columns[c])}
DiffForeignKeys(t, old, new) ==
    LET had  == KeyColumns(old)
        has  == KeyColumns(new)
        kept == {c \in had \cap has : <<old[c].ref, old[c].del>> # <<new[c].ref, new[c].del>>}
    IN Followed(AnyOrder(has \ had, LAMBDA c : {AddForeignKey(t, c, new[c])}),
       Followed(AnyOrder(had \ has, LAMBDA c : {DropForeignKey(t, c, old[c])}),
                AnyOrder(kept, LAMBDA c : {DropForeignKey(t, c, old[c]) \o AddForeignKey(t, c, new[c])})))

\* AlterColumn unless columns_structurally_equal, which leaves out the index
\* and the ON DELETE clause.
DiffColumn(t, c, old, new) ==
    DiffIndexes(t, c, old.index, new.index) \o
    IF old.kind = new.kind /\ old.ref = new.ref THEN <<>>
    ELSE <<[do |-> "alter", table |-> t, col |-> c, kind |-> new.kind, old |-> old.kind]>>

DiffTable(t, old, new) ==
    LET added == DOMAIN new \ DOMAIN old IN
    Followed(AnyOrder(added, LAMBDA c : {<<[do |-> "add_column", table |-> t, col |-> c,
                                       kind |-> new[c].kind]>> \o
                                    DiffIndexes(t, c, "none", new[c].index)}),
    Followed(DiffForeignKeys(t, old, new),
    Followed(AnyOrder(DOMAIN old \ DOMAIN new,
                 LAMBDA c : {<<[do |-> "drop_column", table |-> t, col |-> c]>>}),
             AnyOrder(DOMAIN old \cap DOMAIN new, LAMBDA c : {DiffColumn(t, c, old[c], new[c])}))))

\* MigrationEngine::diff.
Diff(old, new) ==
    Followed(AnyOrder(DOMAIN old \ DOMAIN new, LAMBDA t : {DropTable(t)}),
    Followed(AnyOrder(DOMAIN new \ DOMAIN old,
                 LAMBDA t : {CreateTable(t, new[t]) \o TableKeys(t, new[t]) \o
                             TableIndexes(t, new[t])}),
             AnyOrder(DOMAIN old \cap DOMAIN new, LAMBDA t : DiffTable(t, old[t], new[t]))))

(***************************************************************************)
(* engine_sql.rs.  What is only a comment in a script is no statement      *)
(* (split_sql_statements).                                                 *)
(***************************************************************************)
\* An AlterColumn is a comment for SQLite and two statements for PostgreSQL.
Statement(change) ==
    IF change.do # "alter" THEN <<change>>
    ELSE IF Dialect = "Sqlite" THEN <<>>
    ELSE <<[change EXCEPT !.do = "alter_type"], [change EXCEPT !.do = "alter_null"]>>

\* Mutant: the migration is recorded before its statements.
UpScript_RecordedFirst(id, changes) ==
    <<[do |-> "record", id |-> id]>> \o
    FlattenSeq([n \in DOMAIN changes |-> Statement(changes[n])])

UpScript(id, changes) ==
    FlattenSeq([n \in DOMAIN changes |-> Statement(changes[n])]) \o
    <<[do |-> "record", id |-> id]>>

\* Mutant: keys and indexes that were added are left.
Undo_LeavesKeys(change) ==
    CASE change.do = "create_table" -> DropTable(change.table)
      [] change.do = "add_column" ->
            <<[do |-> "drop_column", table |-> change.table, col |-> change.col]>>
      [] change.do = "alter" -> Statement([change EXCEPT !.kind = change.old, !.old = change.kind])
      [] OTHER -> <<>>

\* Tables, columns and keys that were dropped cannot be restored.
Undo(change) ==
    CASE change.do = "create_table" -> DropTable(change.table)
      [] change.do = "add_column" ->
            <<[do |-> "drop_column", table |-> change.table, col |-> change.col]>>
      [] change.do = "alter" -> Statement([change EXCEPT !.kind = change.old, !.old = change.kind])
      [] change.do = "add_key" -> DropForeignKey(change.table, change.col, change)
      [] change.do = "create_index" -> DropIndex(change.table, change.col, change.index)
      [] change.do = "drop_index" -> CreateIndex(change.table, change.col, change.old)
      [] OTHER -> <<>>

\* Mutant: the changes are undone in the order they were made.
DownScript_Forward(id, changes) ==
    FlattenSeq([n \in DOMAIN changes |-> Undo(changes[n])]) \o
    <<[do |-> "forget", id |-> id]>>

DownScript(id, changes) ==
    FlattenSeq([n \in DOMAIN changes |-> Undo(Reverse(changes)[n])]) \o
    <<[do |-> "forget", id |-> id]>>

(***************************************************************************)
(* The database: its tables with the kinds of their columns, its foreign   *)
(* keys, its indexes, and the ids in __ef_migrations_history in the order  *)
(* in which they were recorded.                                            *)
(***************************************************************************)
EmptySchema == [tables |-> <<>>, keys |-> {}, indexes |-> {}]

KeysOn(s, t, c) == {k \in s.keys : k.table = t /\ k.col = c}
IndexesOn(s, t, c) == {x \in s.indexes : x.table = t /\ x.col = c}
HasTable(s, t) == t \in DOMAIN s.tables
HasColumn(s, t, c) == HasTable(s, t) /\ c \in DOMAIN s.tables[t]

\* Statements the database accepts.  SQLite has neither ADD nor DROP
\* CONSTRAINT and no DROP COLUMN IF EXISTS; PostgreSQL drops no table that
\* another one refers to.
Accepts(s, history, st) ==
    CASE st.do = "create_table" -> ~HasTable(s, st.table)
      [] st.do = "drop_table" -> \A k \in s.keys : k.ref = st.table => k.table = st.table
      [] st.do = "add_column" -> HasTable(s, st.table) /\ ~HasColumn(s, st.table, st.col)
      [] st.do = "drop_column" -> Dialect # "Sqlite" /\ HasTable(s, st.table)
      [] st.do \in {"alter_type", "alter_null"} -> HasColumn(s, st.table, st.col)
      [] st.do = "add_key" ->
            /\ Dialect # "Sqlite"
            /\ HasColumn(s, st.table, st.col) /\ HasTable(s, st.ref)
            /\ \A k \in KeysOn(s, st.table, st.col) : k.ref # st.ref
      [] st.do = "drop_key" -> Dialect # "Sqlite" /\ HasTable(s, st.table)
      [] st.do = "create_index" ->
            HasColumn(s, st.table, st.col) /\ IndexesOn(s, st.table, st.col) = {}
      [] st.do = "record" -> st.id \notin ToSet(history)
      [] OTHER -> TRUE

\* The schema after st; what is dropped takes its keys and indexes along.
Executed(s, st) ==
    CASE st.do = "create_table" ->
            [s EXCEPT !.tables = [t \in DOMAIN @ \cup {st.table} |->
                                     IF t = st.table THEN st.cols ELSE @[t]]]
      [] st.do = "drop_table" ->
            [tables  |-> [t \in DOMAIN s.tables \ {st.table} |-> s.tables[t]],
             keys    |-> {k \in s.keys : k.table # st.table},
             indexes |-> {x \in s.indexes : x.table # st.table}]
      [] st.do = "alter_type" -> [s EXCEPT !.tables[st.table][st.col][1] = st.kind[1]]
      [] st.do = "alter_null" -> [s EXCEPT !.tables[st.table][st.col][2] = st.kind[2]]
      [] st.do = "add_column" ->
            [s EXCEPT !.tables[st.table] = [c \in DOMAIN @ \cup {st.col} |->
                                               IF c = st.col THEN st.kind ELSE @[c]]]
      [] st.do = "drop_column" ->
            [tables  |-> [s.tables EXCEPT ![st.table] = [c \in DOMAIN @ \ {st.col} |-> @[c]]],
             keys    |-> s.keys \ KeysOn(s, st.table, st.col),
             indexes |-> s.indexes \ IndexesOn(s, st.table, st.col)]
      [] st.do = "add_key" ->
            [s EXCEPT !.keys = @ \cup {[table |-> st.table, col |-> st.col, ref |-> st.ref,
                                        del |-> st.del]}]
      [] st.do = "drop_key" ->
            [s EXCEPT !.keys = {k \in @ : ~(k.table = st.table /\ k.col = st.col /\ k.ref = st.ref)}]
      [] st.do = "create_index" ->
            [s EXCEPT !.indexes = @ \cup {[table |-> st.table, col |-> st.col, index |-> st.index]}]
      [] st.do = "drop_index" ->
            [s EXCEPT !.indexes = @ \ IndexesOn(s, st.table, st.col)]
      [] OTHER -> s

Recorded(history, st) ==
    CASE st.do = "record" -> Append(history, st.id)
      [] st.do = "forget" -> SelectSeq(history, LAMBDA id : id # st.id)
      [] OTHER -> history

\* The schema a model asks for.
SchemaOf(model) ==
    [tables  |-> [t \in DOMAIN model |-> Kinds(model[t])],
     keys    |-> UNION {{[table |-> t, col |-> c, ref |-> model[t][c].ref, del |-> model[t][c].del] :
                            c \in KeyColumns(model[t])} : t \in DOMAIN model},
     indexes |-> UNION {{[table |-> t, col |-> c, index |-> model[t][c].index] :
                            c \in {d \in DOMAIN model[t] : model[t][d].index # "none"}} :
                                t \in DOMAIN model}]
=============================================================================
