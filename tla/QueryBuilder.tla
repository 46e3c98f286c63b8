----------------------------- MODULE QueryBuilder -----------------------------
(***************************************************************************)
(* A query on DbSet<Blog>: from DbSet::query() through the builder calls   *)
(* linq! expands to, to the terminal that compiles the state into a        *)
(* statement, binds its parameters and reads the answer.  "asked" records  *)
(* what the caller has asked for, in the caller's terms.                   *)
(*                                                                         *)
(* The tables are blogs (id, rating, deleted) and posts (blog_id, score).  *)
(* Rows with equal sort keys are listed by id: one of the orders the       *)
(* database may choose.                                                    *)
(***************************************************************************)
EXTENDS QueryExpr, SequencesExt

CONSTANTS
    Setups,      \* dialect, global filter of the set or NoBody, and menu
    Blogs,       \* the rows of the two tables at the start
    Posts,
    Bodies,      \* closure bodies the caller filters with
    CteBodies,   \* and defines CTEs with
    Having,      \* and passes to having
    Uses         \* uses of the builder that are left out unless listed here

AllUses == {"or over a filter", "filter after having", "exists in select or update",
            "skip alone on SQLite", "aggregate of a page", "count of distinct",
            "ordered aggregate", "sum of nothing", "bulk of a page or join", "bulk of a CTE",
            "operand with parameters", "ordered set operation", "single after take",
            "ambiguous column", "join written backwards", "exists over a CTE"}

ASSUME UsesAssumption == Uses \subseteq AllUses

VARIABLES
    setup,       \* [dialect, filter, menu]: never changes; the menu bounds how
                 \* often one query makes each kind of call
    tables,      \* the database: [blogs, posts]
    qb,          \* QueryState of the builder, NoQuery outside a query
    asked,       \* what the caller has asked for since query()
    scope,       \* the rows the statement of qb ranges over, before paging
    answer       \* the last terminal: [of, on, ok, value]

vars == <<setup, tables, qb, asked, scope, answer>>

None     == -1
NoBody   == [is |-> "none"]
NoQuery  == [from |-> "nothing"]
NoAnswer == [of |-> "nothing"]

-----------------------------------------------------------------------------
(* QueryState.                                                              *)

NewState == [from |-> "blogs", where |-> NoBody, join |-> NoBody, grouped |-> FALSE,
             havings |-> <<>>, orders |-> <<>>, offset |-> None, limit |-> None,
             params |-> <<>>, distinct |-> FALSE, ctes |-> <<>>, sets |-> <<>>]

append_bool_expr_Or(s, e) == [s EXCEPT !.where = IF s.where = NoBody THEN e ELSE Or(s.where, e)]

append_bool_expr(s, e) ==
    [s EXCEPT !.where = IF s.where = NoBody THEN e ELSE And(s.where, e)]

Bound(s, vals) == [s EXCEPT !.params = s.params \o vals]

apply_query_filter(s, e) == append_bool_expr(Bound(s, CollectValues(e)), e)

filter_column(s, c) ==
    LET e == Filter(c.col, c.op, Len(c.vals), <<>>)
    IN  append_bool_expr(Bound(s, c.vals), IF c.negated THEN Not(e) ELSE e)

where_exists_internal(s, c) ==
    append_bool_expr(Bound(s, CollectValues(c.pred)), Exists(c.pred, c.negated))

where_in_subquery_internal(s, c) == append_bool_expr(s, In(c.col, c.negated))

or_where_And(s, sub) ==
    IF sub.where = NoBody THEN s ELSE Bound(append_bool_expr(s, sub.where), sub.params)

\* or_where: the whole condition so far on the left, what the closure builds
\* from an empty state on the right.
or_where(s, sub) ==
    IF sub.where = NoBody THEN s
    ELSE Bound([s EXCEPT !.where = IF s.where = NoBody THEN sub.where
                                   ELSE Or(s.where, sub.where)], sub.params)

RECURSIVE Chained(_, _)
Chained(s, chain) ==
    IF chain = <<>> THEN s
    ELSE LET c == Head(chain)
         IN  Chained(CASE c.call = "filter"   -> filter_column(s, c)
                       [] c.call = "exists"   -> where_exists_internal(s, c)
                       [] c.call = "in"       -> where_in_subquery_internal(s, c)
                       [] c.call = "or_where" -> or_where(s, Chained(NewState, c.sub)),
                     Tail(chain))

\* DbSet::query() and query_ignore_filters().
query(filtered) ==
    IF filtered /\ setup.filter # NoBody
    THEN apply_query_filter(NewState, ValueOf(setup.filter)) ELSE NewState

having_expr_internal(s, e) ==
    [Bound(s, CollectValues(e)) EXCEPT !.havings = Append(s.havings, e)]

with_cte_typed(s, e) ==
    [s EXCEPT !.ctes = Append(s.ctes, [expr |-> e, params |-> CollectValues(e)])]

-----------------------------------------------------------------------------
(* Compilation: to_sql_with and all_params.                                 *)

all_params_CtesLast(s) ==
    s.params \o FlattenSeq([k \in DOMAIN s.ctes |-> s.ctes[k].params])
        \o FlattenSeq([k \in DOMAIN s.sets |-> s.sets[k].operand.params])

all_params(s) ==
    FlattenSeq([k \in DOMAIN s.ctes |-> s.ctes[k].params]) \o s.params
        \o FlattenSeq([k \in DOMAIN s.sets |-> s.sets[k].operand.params])

CompileOr(e, i) == IF e = NoBody THEN <<NoBody, i>> ELSE Compile(e, i)

\* Conditions joined with AND, numbered on from i.
CompileAll(es, i) ==
    FoldLeft(LAMBDA acc, e : LET c == Compile(e, acc[2]) IN <<Append(acc[1], c[1]), c[2]>>,
             <<<<>>, i>>, es)

\* pagination of the dialects: SQLite has no form for an offset alone.
pagination(offset, limit) ==
    IF setup.dialect = "sqlite" /\ limit = None
    THEN [skip |-> None, take |-> None] ELSE [skip |-> offset, take |-> limit]

to_sql_with(s, select) ==
    LET ctes == CompileAll([k \in DOMAIN s.ctes |-> s.ctes[k].expr], 1)
        main == CompileOr(s.where, 1 + Len(FlattenSeq([k \in DOMAIN s.ctes |-> s.ctes[k].params])))
        have == CompileAll(s.havings, main[2])
    IN  [select |-> select, distinct |-> s.distinct, from |-> s.from, cte |-> ctes[1],
         join |-> s.join, where |-> main[1], grouped |-> s.grouped, having |-> have[1],
         orders |-> s.orders, page |-> pagination(s.offset, s.limit),
         next |-> have[2], sets |-> s.sets, params |-> all_params(s)]

Resolved_TopOnly(s) ==
    [s EXCEPT !.where = IF s.where = NoBody \/ s.where.is # "exists" THEN s.where ELSE Resolve(s.where)]

Resolved(s) == [s EXCEPT !.where = IF s.where = NoBody THEN NoBody ELSE Resolve(s.where)]

\* compile_sql: what union_internal and its likes take as an operand.
compile_sql(s) ==
    LET stmt == to_sql_with(Resolved(s), "rows")
    IN  [where |-> stmt.where, next |-> stmt.next, params |-> stmt.params]

-----------------------------------------------------------------------------
(* The database.                                                            *)

Ordinal == setup.dialect # "postgres"

\* An EXISTS that correlates with a table FROM does not name: its tables were
\* never filled in, or it correlates with the table of the entity and FROM names
\* a CTE.
Dangling(c, from) ==
    LET RECURSIVE Has(_)
        Has(d) == CASE d.is \in {"and", "or"} -> Has(d.l) \/ Has(d.r)
                    [] d.is = "not"    -> Has(d.of)
                    [] d.is = "exists" -> d.outer # from \/ Has(d.pred)
                    [] OTHER           -> FALSE
    IN  Has(c)

Mentions(c, col) ==
    LET RECURSIVE Has(_)
        Has(d) == CASE d.is \in {"and", "or"}    -> Has(d.l) \/ Has(d.r)
                    [] d.is = "not"              -> Has(d.of)
                    [] d.is \in {"filter", "in"} -> d.col = col
                    [] OTHER                     -> FALSE
    IN  Has(c)

\* Column names are compiled without their table.
Ambiguous(s) ==
    /\ s.join # NoBody
    /\ Mentions(s.where, "id") \/ \E k \in DOMAIN s.orders : s.orders[k].col = "id"

\* How many values the database expects: one for each ?, or the highest $N.
Placeholders(stmt) ==
    LET own     == stmt.next - 1
        operand == IF stmt.sets = <<>> THEN 0 ELSE stmt.sets[1].operand.next - 1
    IN  IF Ordinal THEN own + operand ELSE Highest(own, operand)

\* Statements no database executes.
Refused(stmt) ==
    \/ Dangling(stmt.where, stmt.from)
    \/ Placeholders(stmt) # Len(stmt.params)
    \/ stmt.from = "cte" /\ stmt.cte = <<>>
    \/ Ambiguous(stmt)
    \/ stmt.join # NoBody /\ stmt.join.backwards
    \/ stmt.sets # <<>> /\ (stmt.orders # <<>> \/ stmt.page # [skip |-> None, take |-> None])
    \/ stmt.select = "count" /\ stmt.distinct
    \/ stmt.select \in {"count", "aggregate"} /\ stmt.orders # <<>> /\ ~setup.dialect = "sqlite"

SortKey(v) == IF v # Null THEN v ELSE IF setup.dialect = "postgres" THEN 99 ELSE -1

Precedes(orders, a, b) ==
    LET differ == {k \in DOMAIN orders : a[orders[k].col] # b[orders[k].col]}
    IN  IF differ = {} THEN FALSE
        ELSE LET o == orders[Min(differ)]
                 x == SortKey(a[o.col])
                 y == SortKey(b[o.col])
             IN  IF o.desc THEN x > y ELSE x < y

Sorted(rows, orders) ==
    SortSeq(rows, LAMBDA a, b : \/ Precedes(orders, a, b)
                                \/ ~Precedes(orders, b, a) /\ a.id < b.id)

\* The rows of a set with distinct ids, by id.
ById(rows) ==
    [k \in 1 .. Cardinality(rows) |->
        CHOOSE r \in rows : Cardinality({q \in rows : q.id < r.id}) = k - 1]

Page(rows, skip, take) ==
    LET from == Highest(skip, 0) + 1
        upto == IF take = None THEN Len(rows) ELSE Lowest(Len(rows), from + take - 1)
    IN  SubSeq(rows, from, upto)

\* One row of the left table, as often as the join repeats it.
Repeated(row, join, posts) ==
    LET own == Cardinality({p \in posts : p.blog_id = row.id})
        n   == CASE join = NoBody        -> 1
                 [] join.kind = "inner"  -> own
                 [] join.kind = "left"   -> Highest(own, 1)
                 [] join.kind = "cross"  -> Cardinality(posts)
    IN  [k \in 1 .. n |-> row]

Joined(rows, join, posts) ==
    FoldSeq(LAMBDA row, acc : Repeated(row, join, posts) \o acc, <<>>, rows)

Groups(rows) ==
    LET keys == {rows[k].rating : k \in DOMAIN rows}
        Of(r) == {k \in DOMAIN rows : rows[k].rating = r}
    IN  ById({[id |-> SortKey(r), rating |-> r, count |-> Cardinality(Of(r)),
                   max |-> Max({rows[k].id : k \in Of(r)})] : r \in keys})

OnceEach(rows) == ById(ToSet(rows))

Combined(op, l, r) ==
    CASE op = "union"     -> OnceEach(l \o r)
      [] op = "union_all" -> l \o r
      [] op = "intersect" -> OnceEach(SelectSeq(l, LAMBDA x : x \in ToSet(r)))
      [] op = "except"    -> OnceEach(SelectSeq(l, LAMBDA x : x \notin ToSet(r)))

DistinctRatings(rows) ==
    OnceEach([k \in DOMAIN rows |-> [id |-> SortKey(rows[k].rating), rating |-> rows[k].rating]])

BlogRows == ById(tables.blogs)

Satisfying(rows, c, bind) ==
    IF c = NoBody THEN rows
    ELSE SelectSeq(rows, LAMBDA r : SqlTruth(c, r, r, bind, tables.posts) = 2)

\* The rows a statement lists.
Listed(stmt) ==
    LET bind   == stmt.params
        base   == IF stmt.from = "cte" THEN Satisfying(BlogRows, stmt.cte[1], bind) ELSE BlogRows
        rows   == Satisfying(Joined(base, stmt.join, tables.posts), stmt.where, bind)
        groups == SelectSeq(Groups(rows), LAMBDA g : \A k \in DOMAIN stmt.having :
                               SqlTruth(stmt.having[k], g, g, bind, {}) = 2)
        after  == IF ~Ordinal THEN bind ELSE SubSeq(bind, stmt.next, Len(bind))
        all    == IF stmt.grouped THEN groups
                  ELSE IF stmt.sets = <<>> THEN rows
                  ELSE Combined(stmt.sets[1].op, rows,
                                Satisfying(BlogRows, stmt.sets[1].operand.where, after))
        shown  == IF stmt.select = "rating" /\ stmt.distinct THEN DistinctRatings(all) ELSE all
    IN  Page(Sorted(shown, stmt.orders), stmt.page.skip, stmt.page.take)
=============================================================================
