------------------------------ MODULE QueryExpr ------------------------------
(***************************************************************************)
(* Conditions of a query: the body of a linq! closure, the chain of        *)
(* builder calls or the BoolExpr value the macro turns it into, the SQL    *)
(* condition compile_bool_expr emits, as the database parses it, and what  *)
(* each of them means for a row.                                           *)
(*                                                                         *)
(* A row maps column names to values, Null is the SQL NULL and truth has   *)
(* three values: 0 false, 1 unknown, 2 true.                               *)
(***************************************************************************)
EXTENDS Integers, Sequences, FiniteSetsExt

CONSTANT Null

-----------------------------------------------------------------------------
(* Closure bodies, as a caller writes them.                                 *)

Test(col, op, vals)  == [is |-> "test", col |-> col, op |-> op, vals |-> vals]
Member(col)          == [is |-> "member", col |-> col]
Related(q, pred)     == [is |-> "related", q |-> q, pred |-> pred]
InSubquery(col)      == [is |-> "in_subquery", col |-> col]
Not(b)               == [is |-> "not", of |-> b]
And(a, b)            == [is |-> "and", l |-> a, r |-> b]
Or(a, b)             == [is |-> "or", l |-> a, r |-> b]

-----------------------------------------------------------------------------
(* BoolExpr values (Form C and the predicates of subqueries).               *)

Filter(col, op, n, vals) == [is |-> "filter", col |-> col, op |-> op, n |-> n, vals |-> vals]

Exists(pred, negated) ==
    [is |-> "exists", pred |-> pred, negated |-> negated, outer |-> ""]

In(col, negated) == [is |-> "in", col |-> col, negated |-> negated]

RECURSIVE ValueOf(_)
ValueOf(b) ==
    CASE b.is = "test"        -> Filter(b.col, b.op, Len(b.vals), b.vals)
      [] b.is = "member"      -> Filter(b.col, "=", 1, <<1>>)
      [] b.is = "related"     -> Exists(LET p == ValueOf(b.pred)
                                        IN IF b.q = "all" THEN Not(p) ELSE p,
                                        b.q # "any")
      [] b.is = "in_subquery" -> In(b.col, FALSE)
      [] b.is = "not"         -> Not(ValueOf(b.of))
      [] b.is = "and"         -> And(ValueOf(b.l), ValueOf(b.r))
      [] b.is = "or"          -> Or(ValueOf(b.l), ValueOf(b.r))

\* The values an expression carries with it, left to right.
RECURSIVE CollectValues(_)
CollectValues(e) ==
    CASE e.is = "filter"       -> e.vals
      [] e.is \in {"and", "or"} -> CollectValues(e.l) \o CollectValues(e.r)
      [] e.is = "not"          -> CollectValues(e.of)
      [] e.is = "exists"       -> CollectValues(e.pred)
      [] e.is = "in"           -> <<>>

-----------------------------------------------------------------------------
(* Form A and B: the chain of builder calls.  filter_column, filter_in,     *)
(* filter_between, filter_is_null and their negations are one call.         *)

FilterCall(col, op, vals, negated) ==
    [call |-> "filter", col |-> col, op |-> op, vals |-> vals, negated |-> negated]

ExistsCall(b, negated) ==
    [call |-> "exists", negated |-> negated,
     pred |-> LET p == ValueOf(b.pred) IN IF b.q = "all" THEN Not(p) ELSE p]

InCall(col, negated) == [call |-> "in", col |-> col, negated |-> negated]

OrWhere(chain) == [call |-> "or_where", sub |-> chain]

\* A comparison, a bool column, a method call, or the negation of one.
Leaf(b, negated) ==
    CASE b.is = "member"      -> <<FilterCall(b.col, "=", <<IF negated THEN 0 ELSE 1>>, FALSE)>>
      [] b.is = "related"     -> <<ExistsCall(b, (b.q # "any") # negated)>>
      [] b.is = "in_subquery" -> <<InCall(b.col, negated)>>
      [] b.is = "test"        -> <<FilterCall(b.col, b.op, b.vals, negated)>>

\* compile_not: De Morgan over && and ||, quantifiers inverted.
RECURSIVE ChainOfNot(_)
ChainOfNot(b) ==
    CASE b.is = "and" -> ChainOfNot(b.l) \o <<OrWhere(ChainOfNot(b.r))>>
      [] b.is = "or"  -> ChainOfNot(b.l) \o ChainOfNot(b.r)
      [] OTHER        -> Leaf(b, TRUE)

RECURSIVE ChainOf(_)
ChainOf(b) ==
    CASE b.is = "and" -> ChainOf(b.l) \o ChainOf(b.r)
      [] b.is = "or"  -> ChainOf(b.l) \o <<OrWhere(ChainOf(b.r))>>
      [] b.is = "not" -> ChainOfNot(b.of)
      [] OTHER        -> Leaf(b, FALSE)

-----------------------------------------------------------------------------
(* From a BoolExpr to the SQL condition.  Every AND, OR and NOT has its      *)
(* operands in parentheses; the predicate of an EXISTS is appended to the    *)
(* correlation without any, so that an OR in it takes the correlation as     *)
(* part of its left side.                                                    *)

Correlation == [is |-> "correlation"]

Appended(c, d) == IF d.is = "or" THEN Or(And(c, d.l), d.r) ELSE And(c, d)

\* The condition and the number of the next placeholder.
RECURSIVE Compile(_, _)
Compile(e, i) ==
    CASE e.is = "filter" ->
            <<[is |-> "filter", col |-> e.col, op |-> e.op,
               slots |-> [k \in 1 .. e.n |-> i + k - 1]], i + e.n>>
      [] e.is \in {"and", "or"} ->
            LET l == Compile(e.l, i)
                r == Compile(e.r, l[2])
            IN  <<[e EXCEPT !.l = l[1], !.r = r[1]], r[2]>>
      [] e.is = "not" ->
            LET c == Compile(e.of, i) IN <<Not(c[1]), c[2]>>
      [] e.is = "exists" ->
            LET p == Compile(e.pred, i)
            IN  <<[e EXCEPT !.pred = Appended(Correlation, p[1])], p[2]>>
      [] e.is = "in" -> <<e, i>>

\* resolve_subqueries: the tables of a subquery come from the metadata of the
\* outer entity, whatever FROM names; those of a subquery inside a subquery stay
\* empty.
RECURSIVE Resolve(_)
Resolve(e) ==
    CASE e.is \in {"and", "or"} -> [e EXCEPT !.l = Resolve(e.l), !.r = Resolve(e.r)]
      [] e.is = "not"          -> Not(Resolve(e.of))
      [] e.is = "exists"       -> [e EXCEPT !.outer = "blogs"]
      [] OTHER                 -> e

-----------------------------------------------------------------------------
(* The database: three-valued logic.                                        *)

Truth3(p) == IF p THEN 2 ELSE 0

Compare(op, v, args) ==
    CASE op = "IS NULL"     -> Truth3(v = Null)
      [] op = "IS NOT NULL" -> Truth3(v # Null)
      [] op = "IN" /\ args = <<>> -> 0
      [] OTHER ->
           IF v = Null \/ \E k \in DOMAIN args : args[k] = Null THEN 1
           ELSE CASE op = "="       -> Truth3(v = args[1])
                  [] op = "!="      -> Truth3(v # args[1])
                  [] op = ">"       -> Truth3(v > args[1])
                  [] op = ">="      -> Truth3(v >= args[1])
                  [] op = "<"       -> Truth3(v < args[1])
                  [] op = "<="      -> Truth3(v <= args[1])
                  [] op = "BETWEEN" -> Truth3(args[1] <= v /\ v <= args[2])
                  [] op = "IN"      -> Truth3(\E k \in DOMAIN args : args[k] = v)

AnyOf(truths) == IF truths = {} THEN 0 ELSE Max(truths)

Lowest(a, b)  == IF a < b THEN a ELSE b
Highest(a, b) == IF a < b THEN b ELSE a

\* Truth of a compiled condition for a row; bind gives the value of each slot.
RECURSIVE SqlTruth(_, _, _, _, _)
SqlTruth(c, row, outer, bind, posts) ==
    LET rec(d) == SqlTruth(d, row, outer, bind, posts)
    IN  CASE c.is = "filter" ->
               Compare(c.op, row[c.col], [k \in DOMAIN c.slots |-> bind[c.slots[k]]])
          [] c.is = "and" -> Lowest(rec(c.l), rec(c.r))
          [] c.is = "or"  -> Highest(rec(c.l), rec(c.r))
          [] c.is = "not" -> 2 - rec(c.of)
          [] c.is = "correlation" -> Truth3(row.blog_id = outer.id)
          [] c.is = "exists" ->
               LET found == Truth3(\E p \in posts : SqlTruth(c.pred, p, row, bind, posts) = 2)
               IN  IF c.negated THEN 2 - found ELSE found
          [] c.is = "in" ->
               LET found == AnyOf({Compare("=", row[c.col], <<p.blog_id>>) : p \in posts})
               IN  IF c.negated THEN 2 - found ELSE found

\* What the caller means by a closure body: && || ! are and, or, not; any,
\* none and all range over the posts of the blog.
RECURSIVE Means(_, _, _)
Means(b, row, posts) ==
    CASE b.is = "test"   -> Compare(b.op, row[b.col], b.vals)
      [] b.is = "member" -> Compare("=", row[b.col], <<1>>)
      [] b.is = "not"    -> 2 - Means(b.of, row, posts)
      [] b.is = "and"    -> Lowest(Means(b.l, row, posts), Means(b.r, row, posts))
      [] b.is = "or"     -> Highest(Means(b.l, row, posts), Means(b.r, row, posts))
      [] b.is = "in_subquery" -> AnyOf({Compare("=", row[b.col], <<p.blog_id>>) : p \in posts})
      [] b.is = "related" ->
           LET own  == {p \in posts : p.blog_id = row.id}
               good == {p \in own : Means(b.pred, p, posts) = 2}
           IN  Truth3(CASE b.q = "any"  -> good # {}
                        [] b.q = "none" -> good = {}
                        [] b.q = "all"  -> good = own)
=============================================================================
