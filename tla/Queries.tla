------------------------------- MODULE Queries -------------------------------
(***************************************************************************)
(* The life of a query: query(), the builder calls and clauses, one        *)
(* terminal.  What the caller asked for is kept next to the state the      *)
(* builder accumulates, and the answer of the database to the compiled     *)
(* statement is compared with what was asked.                              *)
(***************************************************************************)
EXTENDS QueryBuilder

NothingAsked(filtered) ==
    [filtered |-> filtered, where |-> <<>>, cte |-> NoBody, from |-> "blogs", join |-> NoBody,
     orders |-> <<>>, skip |-> None, take |-> None, grouped |-> FALSE, having |-> <<>>,
     distinct |-> FALSE, set |-> NoBody, left |-> setup.menu]

Init ==
    /\ setup \in Setups
    /\ tables = [blogs |-> Blogs, posts |-> Posts]
    /\ qb = NoQuery
    /\ asked = NothingAsked(TRUE)
    /\ scope = {}
    /\ answer = NoAnswer

-----------------------------------------------------------------------------
(* Builder calls.                                                           *)

Open    == qb # NoQuery
Used(u) == u \in Uses

\* The rows of the set a statement built from state s is about.
ScopeOf(s) ==
    LET stmt == to_sql_with(Resolved(s), "rows")
        base == IF stmt.from # "cte" THEN BlogRows ELSE Satisfying(BlogRows, stmt.cte[1], stmt.params)
    IN  ToSet(Satisfying(base, stmt.where, stmt.params))

Call(kind, state, request) ==
    /\ Open
    /\ asked.left[kind] > 0
    /\ ~Ambiguous(state) \/ Used("ambiguous column")
    /\ \/ state.from # "cte" \/ ~Dangling(state.where, "cte")
       \/ Used("exists over a CTE")
    /\ qb' = state
    /\ scope' = ScopeOf(qb')
    /\ asked' = [request EXCEPT !.left[kind] = @ - 1]
    /\ UNCHANGED <<setup, tables, answer>>

\* DbSet::query() and query_ignore_filters().
Start(filtered) ==
    /\ ~Open
    /\ answer = NoAnswer
    /\ qb' = query(filtered)
    /\ scope' = ScopeOf(qb')
    /\ asked' = NothingAsked(filtered)
    /\ UNCHANGED <<setup, tables, answer>>

\* An || of the closure takes whatever condition the state has already.
NoOrOver(s, b) ==
    \/ s.where = NoBody
    \/ Used("or over a filter")
    \/ \A k \in DOMAIN ChainOf(b) : ChainOf(b)[k].call # "or_where"

\* filter(linq!(|b| body)).
Where(b) ==
    /\ NoOrOver(qb, b)
    /\ qb.havings = <<>> \/ Used("filter after having")
    /\ Call("where", Chained(qb, ChainOf(b)), [asked EXCEPT !.where = Append(@, b)])

OrderBy(col, desc) ==
    LET o == [col |-> col, desc |-> desc]
    IN  /\ \A k \in DOMAIN asked.orders : asked.orders[k].col # col
        /\ asked.grouped => col = "rating"
        /\ Call("order", [qb EXCEPT !.orders = Append(@, o)], [asked EXCEPT !.orders = Append(@, o)])

Skip(n) == Call("skip", [qb EXCEPT !.offset = n], [asked EXCEPT !.skip = n])
Take(n) == Call("take", [qb EXCEPT !.limit = n], [asked EXCEPT !.take = n])
Distinct == Call("distinct", [qb EXCEPT !.distinct = TRUE], [asked EXCEPT !.distinct = TRUE])

GroupBy ==
    /\ asked.join = NoBody /\ asked.set = NoBody /\ asked.orders = <<>>
    /\ Call("group", [qb EXCEPT !.grouped = TRUE], [asked EXCEPT !.grouped = TRUE])

HavingBy(h) ==
    /\ asked.grouped
    /\ Call("having", having_expr_internal(qb, ValueOf(h)), [asked EXCEPT !.having = Append(@, h)])

\* with <name> as |b: Blog| body
With(b) ==
    /\ asked.cte = NoBody
    /\ Call("with", with_cte_typed(qb, ValueOf(b)), [asked EXCEPT !.cte = b])

From ==
    /\ asked.cte # NoBody
    /\ Call("from", [qb EXCEPT !.from = "cte"], [asked EXCEPT !.from = "cte"])

\* The ON clause is from.left = table.right, whichever parameter is which.
Join(kind, backwards) ==
    /\ asked.join = NoBody /\ ~asked.grouped /\ asked.set = NoBody
    /\ ~backwards \/ Used("join written backwards")
    /\ LET j == [kind |-> kind, backwards |-> backwards]
       IN  Call("join", [qb EXCEPT !.join = j], [asked EXCEPT !.join = j])

\* union and its likes with ctx.blogs.filter(linq!(|b| body)).compile_sql().
SetOperation(op, b) ==
    LET operand == compile_sql(Chained(query(TRUE), ChainOf(b)))
    IN  /\ asked.set = NoBody /\ ~asked.grouped /\ asked.join = NoBody
        /\ NoOrOver(query(TRUE), b)
        /\ \/ setup.dialect # "postgres" \/ operand.params = <<>>
           \/ Used("operand with parameters")
        /\ Call("set", [qb EXCEPT !.sets = Append(@, [op |-> op, operand |-> operand])],
                [asked EXCEPT !.set = [op |-> op, body |-> b]])

-----------------------------------------------------------------------------
(* Terminals.                                                               *)

Outcome(ok, value) == IF ok THEN [ok |-> TRUE, value |-> value] ELSE [ok |-> FALSE, value |-> <<>>]

Answer(of, request, outcome, rows) ==
    /\ Open
    /\ qb' = NoQuery
    /\ scope' = {}
    /\ asked' = request
    /\ answer' = [of |-> of, on |-> tables] @@ outcome
    /\ tables' = [tables EXCEPT !.blogs = rows]
    /\ UNCHANGED setup

Read(of, request, outcome) == Answer(of, request, outcome, tables.blogs)

PlainPage    == asked.skip = None /\ asked.take = None
Grouped      == asked.grouped
SkipAlone(s) == setup.dialect = "sqlite" /\ s.offset # None /\ s.limit = None
Ids(rows)    == [k \in DOMAIN rows |-> rows[k].id]

TooMany      == <<None, None>>

\* to_list on a state: the keys of the entities.
Entities(of, s) ==
    LET stmt == to_sql_with(Resolved(s), "rows")
        ids  == Ids(Listed(stmt))
    IN  Outcome(~Refused(stmt), IF of = "single" /\ Len(ids) > 1 THEN TooMany ELSE ids)

Fetched(of, s, request) ==
    /\ ~Grouped
    /\ ~SkipAlone(s) \/ Used("skip alone on SQLite")
    /\ \/ s.sets = <<>>
       \/ Used("ordered set operation")
       \/ s.orders = <<>> /\ s.limit = None /\ s.offset = None
    /\ Read(of, request, Entities(of, s))

ToList == Open /\ Fetched("to_list", qb, asked)
First  == Open /\ Fetched("first", [qb EXCEPT !.limit = 1], asked)
Single ==
    /\ Open /\ (asked.take # 1 \/ Used("single after take"))
    /\ Fetched("single", [qb EXCEPT !.limit = 2], asked)

Reversed(orders) ==
    IF orders = <<>> THEN <<[col |-> "id", desc |-> TRUE]>>
    ELSE [k \in DOMAIN orders |-> [orders[k] EXCEPT !.desc = ~@]]

Last_ ==
    /\ Open /\ asked.join = NoBody
    /\ Fetched("last", [qb EXCEPT !.orders = Reversed(@), !.limit = 1], asked)

\* find(id): a filter on the first primary key, then first_or_default.
Find(id) ==
    LET b == Test("id", "=", <<id>>)
    IN  /\ Open /\ asked.join = NoBody
        /\ Fetched("first", [Chained(qb, ChainOf(b)) EXCEPT !.limit = 1],
                   [asked EXCEPT !.where = Append(@, b)])

\* SelectQueryBuilder::to_list: the subqueries are not resolved.
Selected ==
    LET stmt == to_sql_with(qb, "rating")
        rows == Listed(stmt)
    IN  Outcome(~Refused(stmt), [k \in DOMAIN rows |-> rows[k].rating])

Select ==
    /\ Open /\ qb.sets = <<>>
    /\ ~SkipAlone(qb) \/ Used("skip alone on SQLite")
    /\ ~Dangling(qb.where, qb.from) \/ Used("exists in select or update")
    /\ asked.distinct => asked.orders = <<>> /\ ~Grouped
    /\ Read("select", asked, Selected)

Ratings(rows) == SelectSeq([k \in DOMAIN rows |-> rows[k].rating], LAMBDA r : r # Null)

Total(rows) == FoldSeq(LAMBDA r, sum : r + sum, 0, Ratings(rows))

\* The smallest or the largest rating, if there is one.
Extreme(of, rows) ==
    LET some == ToSet(Ratings(rows))
    IN  IF some = {} THEN <<>> ELSE <<IF of = "min" THEN Min(some) ELSE Max(some)>>

Unpaged(stmt) == Listed([stmt EXCEPT !.page = [skip |-> None, take |-> None]])

\* COUNT, SUM, MIN and MAX over the statement: one row, to which the page applies.
\* SUM over no value is NULL, which is no f64.
AggregateOf(of) == to_sql_with(Resolved(qb), IF of = "count" THEN "count" ELSE "aggregate")

NothingToSum ==
    LET stmt == AggregateOf("sum") IN ~Refused(stmt) /\ Ratings(Unpaged(stmt)) = <<>>

Aggregate(of) ==
    LET stmt == AggregateOf(of)
        rows == Unpaged(stmt)
    IN  Outcome(~Refused(stmt) /\ (of = "sum" => ~NothingToSum),
                IF stmt.page.skip >= 1 THEN 0
                ELSE CASE of = "count" -> Len(rows)
                       [] of = "sum"   -> Total(rows)
                       [] OTHER        -> Extreme(of, rows))

Scalar(of) ==
    /\ Open /\ ~Grouped /\ qb.sets = <<>>
    /\ PlainPage \/ Used("aggregate of a page")
    /\ qb.orders = <<>> \/ setup.dialect = "sqlite" \/ Used("ordered aggregate")
    /\ ~asked.distinct \/ (of = "count" /\ Used("count of distinct"))
    /\ Read(of, asked, Aggregate(of))

Count      == Scalar("count")
SumRatings == Open /\ (NothingToSum => Used("sum of nothing")) /\ Scalar("sum")
MinRating  == Scalar("min")
MaxRating  == Scalar("max")

\* any(): SELECT 1 with LIMIT 1, the offset stays.
Exists1(s) ==
    LET stmt == to_sql_with(Resolved([s EXCEPT !.limit = 1]), "exists")
    IN  Outcome(~Refused(stmt), Listed(stmt) # <<>>)

AnyRow == Open /\ ~Grouped /\ qb.sets = <<>> /\ Read("any", asked, Exists1(qb))

\* exists_by_id(id): the filter of find, then any.
HasId(id) ==
    LET b == Test("id", "=", <<id>>)
    IN  /\ Open /\ ~Grouped /\ qb.sets = <<>> /\ asked.join = NoBody
        /\ Read("any", [asked EXCEPT !.where = Append(@, b)], Exists1(Chained(qb, ChainOf(b))))

Hits(s, first, params) ==
    {r \in tables.blogs : s.where = NoBody
        \/ SqlTruth(CompileOr(s.where, first)[1], r, r, params, tables.posts) = 2}

Executes(s, first, params) ==
    /\ CompileOr(s.where, first)[2] - 1 = Len(params)
    /\ s.from = "blogs"
    /\ ~Dangling(s.where, "blogs")

Bulk(of, s, first, params) ==
    /\ Open /\ ~Grouped /\ qb.sets = <<>>
    /\ (PlainPage /\ asked.join = NoBody) \/ Used("bulk of a page or join")
    /\ asked.cte = NoBody \/ Used("bulk of a CTE")
    /\ Answer(of, asked,
              Outcome(Executes(s, first, params), Cardinality(Hits(s, first, params))),
              IF ~Executes(s, first, params) THEN tables.blogs
              ELSE (tables.blogs \ Hits(s, first, params))
                   \cup (IF of = "delete" THEN {}
                         ELSE {[r EXCEPT !.rating = params[1]] : r \in Hits(s, first, params)}))

execute_delete == Open /\ Bulk("delete", Resolved(qb), 1, all_params(qb))

execute_update_ValuesLast(v) ==
    /\ Open
    /\ ~Dangling(qb.where, "blogs") \/ Used("exists in select or update")
    /\ Bulk("update", qb, 2, Append(qb.params, v))

\* set b.rating, v ...; execute_update: the values set come first.
execute_update(v) ==
    /\ Open
    /\ ~Dangling(qb.where, "blogs") \/ Used("exists in select or update")
    /\ Bulk("update", qb, 2, <<v>> \o qb.params)

Next ==
    \/ \E filtered \in BOOLEAN : Start(filtered)
    \/ \E b \in Bodies : Open /\ Where(b)
    \/ \E col \in {"id", "rating"}, desc \in BOOLEAN : Open /\ OrderBy(col, desc)
    \/ Open /\ Skip(1)
    \/ \E n \in 1 .. 2 : Open /\ Take(n)
    \/ Open /\ Distinct
    \/ Open /\ GroupBy
    \/ \E h \in Having : Open /\ HavingBy(h)
    \/ \E b \in CteBodies : Open /\ With(b)
    \/ Open /\ From
    \/ \E kind \in {"inner", "left", "cross"}, backwards \in BOOLEAN : Open /\ Join(kind, backwards)
    \/ \E op \in {"union", "union_all", "intersect", "except"}, b \in CteBodies :
          Open /\ SetOperation(op, b)
    \/ ToList \/ First \/ Single \/ Last_ \/ Select \/ Count \/ SumRatings \/ MinRating \/ MaxRating
    \/ AnyRow
    \/ \E id \in {r.id : r \in Blogs} : Find(id) \/ HasId(id)
    \/ execute_delete
    \/ \E v \in {Null, 2} : execute_update(v)

Spec == Init /\ [][Next]_vars

-----------------------------------------------------------------------------
(* What the caller asked for, on the tables the terminal saw.               *)

AskedFor(r) ==
    /\ asked.filtered /\ setup.filter # NoBody => Means(setup.filter, r, answer.on.posts) = 2
    /\ asked.from = "cte" => Means(asked.cte, r, answer.on.posts) = 2
    /\ \A k \in DOMAIN asked.where : Means(asked.where[k], r, answer.on.posts) = 2

AskedOfOperand(r) ==
    /\ setup.filter # NoBody => Means(setup.filter, r, answer.on.posts) = 2
    /\ Means(asked.set.body, r, answer.on.posts) = 2

AskedAll ==
    LET all    == ById(answer.on.blogs)
        rows   == Joined(SelectSeq(all, AskedFor), asked.join, answer.on.posts)
        groups == SelectSeq(Groups(rows), LAMBDA g :
                      \A k \in DOMAIN asked.having : Means(asked.having[k], g, {}) = 2)
        whole  == IF asked.grouped THEN groups
                  ELSE IF asked.set = NoBody THEN rows
                  ELSE Combined(asked.set.op, rows, SelectSeq(all, AskedOfOperand))
    IN  IF answer.of = "select" /\ asked.distinct THEN DistinctRatings(whole) ELSE whole

AskedList == Page(Sorted(AskedAll, asked.orders), asked.skip, asked.take)

RowOf(id) == CHOOSE r \in answer.on.blogs : r.id = id

\* Rows that come in the same place, whichever way ties are broken.
SamePlace(a, b) == ~Precedes(asked.orders, a, b) /\ ~Precedes(asked.orders, b, a)
-----------------------------------------------------------------------------
(* Properties.                                                              *)

\* What to_list, first, single, last and select return is what the caller
\* asked for: the rows for which every closure holds, with the filter of the
\* set, in the order asked, at the place asked, whatever the macro, the
\* builder and the compiler made of it (macros linq/compile, query/state.rs).
ListsWhatWasAsked ==
    LET list == AskedList
    IN  answer.of \in {"to_list", "first", "single", "last", "select"} /\ answer.ok =>
        CASE answer.of = "to_list" -> answer.value = Ids(list)
          [] answer.of = "select"  -> answer.value = [k \in DOMAIN list |-> list[k].rating]
          [] answer.of = "first"   ->
               answer.value = (IF list = <<>> THEN <<>> ELSE <<list[1].id>>)
          [] answer.of = "single"  ->
               answer.value = (IF Len(list) > 1 THEN TooMany ELSE Ids(list))
          [] answer.of = "last"    ->
               LET whole == Sorted(AskedAll, IF asked.orders = <<>>
                                             THEN <<[col |-> "id", desc |-> FALSE]>>
                                             ELSE asked.orders)
               IN  IF PlainPage
                   THEN \/ whole = <<>> /\ answer.value = <<>>
                        \/ /\ Len(answer.value) = 1
                           /\ SamePlace(RowOf(answer.value[1]), Last(whole))
                   ELSE TRUE

\* count, any, sum, min and max agree with the list to_list would return
\* (query/builder/terminal.rs, aggregate.rs).
ScalarsAgreeWithTheList ==
    LET list == AskedList
    IN  answer.of \in {"count", "any", "sum", "min", "max"} /\ answer.ok =>
        CASE answer.of = "count" -> answer.value = Len(list)
          [] answer.of = "any"   -> answer.value = (list # <<>>)
          [] answer.of = "sum"   -> answer.value = Total(list)
          [] OTHER               -> answer.value = Extreme(answer.of, list)

\* execute_delete and execute_update change exactly the rows to_list would
\* have returned (terminal.rs, execute_update.rs).
BulkTouchesWhatWasAsked ==
    answer.of \in {"delete", "update"} /\ answer.ok =>
        LET ids == ToSet(Ids(AskedList))
        IN  /\ answer.value = Cardinality(ids)
            /\ {r \in answer.on.blogs : r.id \notin ids} \subseteq tables.blogs
            /\ \A r \in tables.blogs : r \in answer.on.blogs \/ r.id \in ids
            /\ answer.of = "delete" => \A r \in tables.blogs : r.id \notin ids

\* No statement the builder compiles is refused: every placeholder has its
\* value, every subquery its tables, every clause its place (query/state.rs).
NothingIsRefused == answer = NoAnswer \/ answer.ok

\* The hidden rows of the global filter are neither returned nor changed by a
\* query that started with query() (db_set.rs, README.md:252).
HiddenRowsStayHidden ==
    LET hidden == {r \in answer.on.blogs : Means(setup.filter, r, answer.on.posts) # 2}
    IN  answer # NoAnswer /\ answer.ok /\ asked.filtered /\ setup.filter # NoBody =>
            /\ hidden \subseteq tables.blogs
            /\ answer.of \in {"to_list", "first", "single", "last"} /\ asked.set = NoBody =>
                   \A r \in hidden : \A k \in DOMAIN answer.value : answer.value[k] # r.id

Shown ==
    IF answer.of \in {"to_list", "first", "last"} /\ asked.set = NoBody
    THEN {r \in answer.on.blogs : \E k \in DOMAIN answer.value : answer.value[k] = r.id}
    ELSE {}

Scope == INSTANCE QueryScope WITH
    stored <- tables.blogs,
    hidden <- {r \in tables.blogs : setup.filter # NoBody /\ Means(setup.filter, r, tables.posts) # 2},
    open   <- Open,
    shown  <- Shown

\* The builder implements the scope it promises: a call never widens a query,
\* a read shows and a bulk statement changes only what is in scope.  The one
\* call that does widen a query, an || of the closure over the global filter
\* (or_where, query/builder/filter.rs), is a use left out of Uses.
StaysInScope == Scope!Spec
=============================================================================
