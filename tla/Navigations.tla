------------------------------ MODULE Navigations ------------------------------
(***************************************************************************)
(* One to_list() with its includes, and what the caller does with the      *)
(* entities afterwards: load() of their navigations, adding to them,       *)
(* editing foreign keys.  Every statement is a step of its own, between    *)
(* which another connection may change the rows.                           *)
(*                                                                         *)
(* The entities live in "heap"; a navigation container lists the indices   *)
(* of its entities, at most one for a reference.                           *)
(***************************************************************************)
EXTENDS EntityDerive

CONSTANTS
    Scenarios,         \* name -> structs, rows, filters, queries, changes of rows
    MAX_LAZY_DEPTH,
    MaxWrites,         \* changes the other connection makes
    MaxUses,           \* calls of load() and add, and edits, by the caller
    Uses               \* uses that are left out unless listed here

AllUses == {"edit before load", "add before load", "lazy beside include",
            "lazy join with an own key", "then below then"}

ASSUME NavigationsAssumption ==
    /\ Uses \subseteq AllUses
    /\ MAX_LAZY_DEPTH \in Nat /\ MaxWrites \in Nat /\ MaxUses \in Nat

VARIABLES
    setup,       \* the scenario: never changes
    tables,      \* the database: type -> sequence of rows, a row maps columns to values
    ever,        \* the rows each table has had
    heap,        \* the entities: [type, values, values as read, navs, mine]
    todo,        \* what the call in progress has still to do
    result,      \* to_list: [objs, query], Nothing before
    answer,      \* the last load(): [at, nav, ok], Nothing before
    writes,      \* changes made by the other connection
    uses         \* of the entities, by the caller

vars == <<setup, tables, ever, heap, todo, result, answer, writes, uses>>

Given    == Scenarios[setup]
Struct(T) == Given.model[T]

\* The metadata is computed once per scenario.
Metas == [s \in DOMAIN Scenarios |->
            LET model == Scenarios[s].model
            IN  [T \in DOMAIN model |->
                    [name \in NavNames(model[T]) |-> find_navigation(model, T, name)]]]

Meta(T, nav) == Metas[setup][T][nav]

\* Every struct has a table, navigations lead to structs, and queries include
\* navigations of their type.
ScenarioOk(s) ==
    LET S == Scenarios[s]
    IN  /\ DOMAIN S.rows = DOMAIN S.model /\ DOMAIN S.order = DOMAIN S.model
        /\ \A T \in DOMAIN S.model :
               /\ S.rows[T] \in Seq(Range(S.rows[T])) /\ S.order[T] \in Seq(Range(S.order[T]))
               /\ \A nav \in NavNames(S.model[T]) :
                     /\ Metas[s][T][nav].type \in DOMAIN S.model
                     /\ Metas[s][T][nav].kind = "ManyToMany" =>
                            Metas[s][T][nav].join \in DOMAIN S.model
        /\ \A q \in S.queries :
               /\ q.type \in DOMAIN S.model /\ q.includes \in Seq(Range(q.includes))
               /\ \A p \in Range(q.includes) :
                     /\ p = [nav |-> p.nav, nested |-> p.nested]
                     /\ p.nav \in NavNames(S.model[q.type])
                     /\ p.nested \in Seq(Range(p.nested))
        /\ \A c \in S.changes : c.type \in DOMAIN S.model

ASSUME ScenariosAssumption == \A s \in DOMAIN Scenarios : ScenarioOk(s)

Used(u) == u \in Uses

Init ==
    /\ setup \in DOMAIN Scenarios
    /\ tables = Given.rows
    /\ ever = [T \in DOMAIN Given.rows |-> Range(Given.rows[T])]
    /\ heap = <<>> /\ todo = <<>>
    /\ result = Nothing /\ answer = Nothing
    /\ writes = 0 /\ uses = 0

-----------------------------------------------------------------------------
(* Statements.                                                              *)

Visible(T, row) == T \in Given.filters => row.hidden = 0

\* The values of a row of SELECT *: in the order of the columns of the table.
Values(T, row) == [k \in DOMAIN Given.order[T] |-> row[Given.order[T][k]]]

Known(T, column) == column \in Range(Given.order[T])

\* The elements of s at the positions "at", in their order.
Picked(s, at) == FlattenSeq([k \in DOMAIN s |-> IF k \in at THEN <<s[k]>> ELSE <<>>])

\* SELECT * FROM T WHERE column IN (keys) AND the filter of T.
SelectUnfiltered(T, column, keys, filtered) ==
    LET rows == Picked(tables[T], {k \in DOMAIN tables[T] : tables[T][k][column] \in keys \ {Null}})
    IN  [k \in DOMAIN rows |-> Values(T, rows[k])]

Select(T, column, keys, filtered) ==
    LET rows == Picked(tables[T], {k \in DOMAIN tables[T] :
                    /\ tables[T][k][column] \in keys \ {Null}
                    /\ filtered => Visible(T, tables[T][k])})
    IN  [k \in DOMAIN rows |-> Values(T, rows[k])]

-----------------------------------------------------------------------------
(* Entities and containers.                                                 *)

\* The context is a sequence of at most one.
NoContainer == [items |-> <<>>, loaded |-> FALSE, ctx |-> <<>>, of |-> Nothing]

Entity(T, values) ==
    [type |-> T, values |-> values, read |-> values, mine |-> FALSE,
     navs |-> [name \in NavNames(Struct(T)) |-> NoContainer]]

\* attach_lazy_contexts: every container gets the values as they are now.
Attached(e, depth) ==
    [e EXCEPT !.navs = [name \in DOMAIN @ |->
        [@[name] EXCEPT !.ctx = <<[snapshot |-> snapshot(e), depth |-> depth]>>]]]

Materialised(T, rows) == [k \in DOMAIN rows |-> Entity(T, from_row(Struct(T), rows[k]))]

Extended(h, news) == [k \in DOMAIN news |-> Len(h) + k]

\* Where o is among objs, 0 when it is not.
Place(objs, o) == SelectInSeq(objs, LAMBDA p : p = o)

\* Mutant: how many items the objects after the k-th one have.
BeforeFromTheEnd(counts, k) ==
    LET sum[n \in 0..Len(counts)] == IF n = 0 THEN 0 ELSE sum[n - 1] + counts[n]
    IN  sum[Len(counts)] - sum[k]

\* How many items the objects before the k-th one have.
Before(counts, k) ==
    LET sum[n \in 0..Len(counts)] == IF n = 0 THEN 0 ELSE sum[n - 1] + counts[n]
    IN  sum[k - 1]

\* apply_has_many and apply_reference, for the objects that have rows of type
\* T: a new container, loaded, with no context.
Applied(h, objs, nav, T, rows) ==
    LET counts   == [k \in DOMAIN objs |-> Len(rows[k])]
        items(k) == [j \in 1..counts[k] |-> Len(h) + Before(counts, k) + j]
        filled   == [o \in DOMAIN h |->
                       LET k == Place(objs, o)
                       IN  IF k = 0 THEN h[o] ELSE IF rows[k] = <<>> THEN h[o]
                           ELSE [h[o] EXCEPT !.navs[nav] =
                                   [items |-> items(k), loaded |-> TRUE, ctx |-> <<>>,
                                    of |-> h[o].values]]]
    IN  filled \o Materialised(T, FlattenSeq(rows))

-----------------------------------------------------------------------------
(* to_list().                                                               *)

Load(objs, path) == [do |-> "load", objs |-> objs, nav |-> path.nav, nested |-> path.nested]

\* then_include_internal puts every nested navigation below the last include
\* and drops the ones the related type does not have.
Nested(T, path) ==
    Picked(path.nested, {k \in DOMAIN path.nested :
                            path.nested[k] \in NavNames(Struct(Meta(T, path.nav).type))})

ToList(q) ==
    LET rows == Picked(tables[q.type], {k \in DOMAIN tables[q.type] :
                                           q.filtered => Visible(q.type, tables[q.type][k])})
        read == Materialised(q.type, [k \in DOMAIN rows |-> Values(q.type, rows[k])])
        objs == [k \in DOMAIN read |-> k]
    IN  /\ result = Nothing
        /\ \/ \A p \in Range(q.includes) : Nested(q.type, p) = p.nested
           \/ Used("then below then")
        /\ result' = [objs |-> objs, query |-> q]
        /\ heap' = IF Given.lazy /\ q.includes = <<>>
                   THEN [k \in DOMAIN read |-> Attached(read[k], 0)] ELSE read
        /\ todo' = IF read = <<>> THEN <<>>
                   ELSE [k \in DOMAIN q.includes |->
                           Load(objs, [q.includes[k] EXCEPT !.nested = Nested(q.type, q.includes[k])])]
        /\ UNCHANGED <<setup, tables, ever, answer, writes, uses>>

Doing(what) == todo # <<>> /\ Head(todo).do = what

TypeOf(t) == heap[Head(t.objs)].type

\* load_nested_includes takes the items out of the containers ...
Drained(h, t) ==
    [k \in DOMAIN h |->
        IF k \notin Range(t.objs) THEN h[k]
        ELSE [h[k] EXCEPT !.navs[t.nav].items = <<>>,
                          !.navs[t.nav].loaded = @ /\ Meta(h[k].type, t.nav).kind
                                                       \in {"HasMany", "ManyToMany"}]]

\* ... loads the nested navigations of all of them at once, and puts them back
\* by counting.
Deeper(h, t) ==
    LET counts == [k \in DOMAIN t.objs |-> Len(h[t.objs[k]].navs[t.nav].items)]
        all    == FlattenSeq([k \in DOMAIN t.objs |-> h[t.objs[k]].navs[t.nav].items])
        loads  == [k \in DOMAIN t.nested |->
                     Load(all, [nav |-> t.nested[k], nested |-> <<>>])]
    IN  (IF all = <<>> THEN <<>> ELSE loads)
        \o <<[do |-> "restore", objs |-> t.objs, nav |-> t.nav, counts |-> counts, all |-> all]>>

\* The navigation of task t is loaded and h is the heap: go on to what is
\* nested below it.
GoOn(h, t) ==
    /\ heap' = IF t.nested = <<>> THEN h ELSE Drained(h, t)
    /\ todo' = (IF t.nested = <<>> THEN <<>> ELSE Deeper(h, t)) \o Tail(todo)
    /\ UNCHANGED <<setup, tables, ever, result, answer, writes, uses>>

\* The value by which an entity looks for related rows.
SoughtBy(n, e) ==
    IF n.kind = "HasMany" THEN Get(key_values(Struct(e.type), e), n.ref_column)
    ELSE Get(snapshot(e), n.fk_column)

\* group_rows and index_rows: by position; the last of the rows of one key.
RowsOfLastOnly(n, e, found) ==
    LET at   == IF n.kind = "HasMany" THEN n.fk_row_index ELSE n.pk_row_index
        rows == Picked(found, {k \in DOMAIN found : <<found[k][at]>> = SoughtBy(n, e)})
    IN  IF rows = <<>> THEN rows ELSE <<Last(rows)>>

RowsOf(n, e, found) ==
    LET key  == SoughtBy(n, e)
        at   == IF n.kind = "HasMany" THEN n.fk_row_index ELSE n.pk_row_index
        rows == Picked(found, {k \in DOMAIN found : <<found[k][at]>> = key})
    IN  IF n.kind = "HasMany" \/ rows = <<>> THEN rows ELSE <<Last(rows)>>

\* load_scalar_navigation.
LoadScalar ==
    /\ Doing("load")
    /\ LET t      == Head(todo)
           n      == Meta(TypeOf(t), t.nav)
           sought == UNION {Range(SoughtBy(n, heap[o])) : o \in Range(t.objs)}
           column == IF n.kind = "HasMany" THEN n.fk_column ELSE n.ref_column
           found  == Select(n.type, column, sought, TRUE)
       IN  /\ n.kind # "ManyToMany"
           /\ GoOn(Applied(heap, t.objs, t.nav, n.type,
                           [k \in DOMAIN t.objs |-> RowsOf(n, heap[t.objs[k]], found)]), t)

KeyOf(e) == e.values[Head(primary_keys(Struct(e.type)))]

\* load_many_to_many, the join table: no filter.
LoadJoin ==
    /\ Doing("load")
    /\ LET t     == Head(todo)
           n     == Meta(TypeOf(t), t.nav)
           joins == Select(n.join, n.through_parent_fk, {KeyOf(heap[o]) : o \in Range(t.objs)}, FALSE)
       IN  /\ n.kind = "ManyToMany"
           /\ IF joins = <<>> THEN GoOn(heap, t)
              ELSE /\ todo' = <<[do |-> "related", objs |-> t.objs, nav |-> t.nav,
                                 nested |-> t.nested, joins |-> joins]>> \o Tail(todo)
                   /\ UNCHANGED <<setup, tables, ever, heap, result, answer, writes, uses>>

\* The related rows of an entity, in the order of its join rows.
Joined(n, e, joins, found) ==
    LET own  == Picked(joins, {k \in DOMAIN joins : joins[k][n.parent_index] = KeyOf(e)})
        rows(j) == Picked(found, {k \in DOMAIN found : found[k][n.pk_row_index] = j[n.related_index]})
    IN  FlattenSeq([k \in DOMAIN own |->
            IF rows(own[k]) = <<>> THEN <<>> ELSE <<Last(rows(own[k]))>>])

\* load_many_to_many, the related table.
LoadRelated ==
    /\ Doing("related")
    /\ LET t     == Head(todo)
           n     == Meta(TypeOf(t), t.nav)
           found == Select(n.type, n.ref_column, {j[n.related_index] : j \in Range(t.joins)}, TRUE)
       IN  GoOn(Applied(heap, t.objs, t.nav, n.type,
                        [k \in DOMAIN t.objs |-> Joined(n, heap[t.objs[k]], t.joins, found)]), t)

Returned(h, t) ==
    [o \in DOMAIN h |->
        IF o \notin Range(t.objs) THEN h[o]
        ELSE LET k    == Place(t.objs, o)
                 some == SubSeq(t.all, Before(t.counts, k) + 1, Before(t.counts, k) + t.counts[k])
             IN  [h[o] EXCEPT !.navs[t.nav].items = some,
                              !.navs[t.nav].loaded = @ \/ some # <<>>]]

Restore ==
    /\ Doing("restore")
    /\ heap' = Returned(heap, Head(todo))
    /\ todo' = Tail(todo)
    /\ UNCHANGED <<setup, tables, ever, result, answer, writes, uses>>

-----------------------------------------------------------------------------
(* load() of one container.                                                 *)

Idle == todo = <<>> /\ result # Nothing

Answer(o, nav, ok) == answer' = [at |-> o, nav |-> nav, ok |-> ok]

\* Loaded already, or no context to load with.
LoadNoop(o, nav) ==
    /\ heap[o].navs[nav].loaded \/ heap[o].navs[nav].ctx = <<>>
    /\ Given.lazy /\ result.query.includes # <<>> =>
           heap[o].navs[nav].loaded \/ Used("lazy beside include")
    /\ Answer(o, nav, TRUE)
    /\ UNCHANGED <<setup, tables, ever, heap, todo, result, writes>>

LoadsAgain(o, nav) ==
    /\ heap[o].navs[nav].ctx # <<>>
    /\ heap[o].navs[nav].loaded \/ heap[o].navs[nav].items = <<>>

Loads(o, nav) ==
    /\ ~heap[o].navs[nav].loaded /\ heap[o].navs[nav].ctx # <<>>
    /\ heap[o].navs[nav].items = <<>> \/ Used("add before load")

TooDeep(o, nav) ==
    /\ Loads(o, nav)
    /\ heap[o].navs[nav].ctx[1].depth >= MAX_LAZY_DEPTH
    /\ Answer(o, nav, FALSE)
    /\ UNCHANGED <<setup, tables, ever, heap, todo, result, writes>>

\* The container after load(): the entities get contexts one level deeper.  A
\* reference with no row keeps what it held.
FilledWhenFound(o, nav, rows) ==
    LET c    == heap[o].navs[nav]
        read == Materialised(Meta(heap[o].type, nav).type, rows)
        news == [k \in DOMAIN read |-> Attached(read[k], c.ctx[1].depth + 1)]
    IN  /\ heap' = IF rows = <<>> THEN heap
                   ELSE [(heap \o news) EXCEPT ![o].navs[nav] =
                           [c EXCEPT !.items = Extended(heap, news), !.loaded = TRUE, !.of = heap[o].values]]
        /\ Answer(o, nav, TRUE)

Filled(o, nav, rows) ==
    LET c     == heap[o].navs[nav]
        read  == Materialised(Meta(heap[o].type, nav).type, rows)
        news  == [k \in DOMAIN read |-> Attached(read[k], c.ctx[1].depth + 1)]
        keeps == rows = <<>> /\ Meta(heap[o].type, nav).kind \in {"BelongsTo", "HasOne"}
    IN  /\ heap' = [(heap \o news) EXCEPT ![o].navs[nav] =
                       [c EXCEPT !.items = IF keeps THEN @ ELSE Extended(heap, news),
                                 !.loaded = TRUE, !.of = heap[o].values]]
        /\ Answer(o, nav, TRUE)

\* build_lazy_query: by the key of the owner, or by its foreign key, as they
\* were when the context was attached.
SoughtLazily(n, S, snap) ==
    IF n.kind = "BelongsTo" THEN Get(snap, n.fk_column)
    ELSE Get([name \in Range(primary_keys(S)) |-> snap[name]], n.ref_column)

LazyScalar(o, nav) ==
    LET n      == Meta(heap[o].type, nav)
        sought == SoughtLazily(n, Struct(heap[o].type), heap[o].navs[nav].ctx[1].snapshot)
        column == IF n.kind = "BelongsTo" THEN n.ref_column ELSE n.fk_column
        found  == Select(n.type, column, Range(sought), TRUE)
    IN  /\ Loads(o, nav) /\ n.kind # "ManyToMany"
        /\ heap[o].navs[nav].ctx[1].depth < MAX_LAZY_DEPTH
        /\ IF sought \in {<<>>, <<Null>>} THEN Filled(o, nav, <<>>)
           ELSE IF ~Known(n.type, column) THEN Answer(o, nav, FALSE) /\ UNCHANGED heap
           ELSE Filled(o, nav, IF n.kind = "HasMany" \/ found = <<>> THEN found ELSE <<Head(found)>>)
        /\ UNCHANGED <<setup, tables, ever, todo, result, writes>>

\* load_m2m_collection_lazy: the statement has one column, the identifiers are
\* read at the position they have in the whole join row.
LazyJoin(o, nav) ==
    LET n      == Meta(heap[o].type, nav)
        sought == SoughtLazily(n, Struct(heap[o].type), heap[o].navs[nav].ctx[1].snapshot)
        joins  == Select(n.join, n.through_parent_fk, Range(sought), FALSE)
        ids    == IF n.related_index # 1 THEN {}
                  ELSE {joins[k][n.related_index] : k \in DOMAIN joins}
    IN  /\ Loads(o, nav) /\ n.kind = "ManyToMany"
        /\ n.related_index = 1 \/ Used("lazy join with an own key")
        /\ heap[o].navs[nav].ctx[1].depth < MAX_LAZY_DEPTH
        /\ IF ids = {} THEN Filled(o, nav, <<>>) /\ UNCHANGED todo
           ELSE /\ todo' = <<[do |-> "lazy", at |-> o, nav |-> nav, ids |-> ids]>>
                /\ UNCHANGED <<heap, answer>>
        /\ UNCHANGED <<setup, tables, ever, result, writes>>

LazyRelated ==
    /\ Doing("lazy")
    /\ LET t == Head(todo)
           n == Meta(heap[t.at].type, t.nav)
       IN  Filled(t.at, t.nav, Select(n.type, n.ref_column, t.ids, TRUE))
    /\ todo' = <<>>
    /\ UNCHANGED <<setup, tables, ever, result, writes, uses>>

-----------------------------------------------------------------------------
(* The caller and the other connection.                                     *)

\* HasMany::add of an entity the caller has made.
Add(o, nav) ==
    LET T     == Meta(heap[o].type, nav).type
        fresh == [Entity(T, [name \in FieldNames(Struct(T)) |-> Null]) EXCEPT !.mine = TRUE]
    IN  /\ Meta(heap[o].type, nav).kind \in {"HasMany", "ManyToMany"}
        /\ \/ heap[o].navs[nav].loaded \/ heap[o].navs[nav].ctx = <<>>
           \/ Used("add before load")
        /\ heap' = [Append(heap, fresh) EXCEPT ![o].navs[nav].items = Append(@, Len(heap) + 1)]
        /\ UNCHANGED <<setup, tables, ever, todo, result, answer, writes>>

\* The caller points a foreign key elsewhere.
Edit(o, name, v) ==
    /\ heap[o].values[name] # v
    /\ \/ \A nav \in DOMAIN heap[o].navs : heap[o].navs[nav].loaded \/ heap[o].navs[nav].ctx = <<>>
       \/ Used("edit before load")
    /\ heap' = [heap EXCEPT ![o].values[name] = v]
    /\ UNCHANGED <<setup, tables, ever, todo, result, answer, writes>>

Changed(rows, from, to) ==
    FlattenSeq([k \in DOMAIN rows |->
        IF rows[k] # from THEN <<rows[k]>> ELSE IF to = Nothing THEN <<>> ELSE <<to>>])

Write(c) ==
    /\ writes < MaxWrites
    /\ c.from \in Range(tables[c.type])
    /\ tables' = [tables EXCEPT ![c.type] = Changed(@, c.from, c.to)]
    /\ ever' = [T \in DOMAIN ever |-> ever[T] \cup Range(tables'[T])]
    /\ writes' = writes + 1
    /\ UNCHANGED <<setup, heap, todo, result, answer, uses>>

Caller ==
    \E o \in DOMAIN heap :
        /\ Idle /\ ~heap[o].mine
        /\ uses < MaxUses /\ uses' = uses + 1
        /\ \/ \E nav \in DOMAIN heap[o].navs :
                 \/ LoadNoop(o, nav) \/ TooDeep(o, nav)
                 \/ LazyScalar(o, nav) \/ LazyJoin(o, nav) \/ Add(o, nav)
           \/ \E e \in Given.edits :
                 heap[o].type = e.type /\ Edit(o, e.field, e.value)

Next ==
    \/ \E q \in Given.queries : ToList(q)
    \/ LoadScalar \/ LoadJoin \/ LoadRelated \/ Restore \/ LazyRelated
    \/ Caller
    \/ \E c \in Given.changes : Write(c)

Spec == Init /\ [][Next]_vars

-----------------------------------------------------------------------------
(* What the fields of the structs declare.                                  *)

FieldOf(S, nav) == S.fields[SelectInSeq(S.fields, LAMBDA f : f.name = nav)]

KeyNameOf(S) == Head(primary_keys(S))

\* The foreign key of a struct to a target.
FkNameOf(S, target) ==
    LET some == SelectSeq(Scalars(S), LAMBDA f : f.type = target)
    IN  some[1].name

PlaceOf(S, name) == SelectInSeq(Scalars(S), LAMBDA f : f.name = name)

Field(T, nav)      == FieldOf(Struct(T), nav)
KeyName(T)         == KeyNameOf(Struct(T))
FkName(T, target)  == FkNameOf(Struct(T), target)

ByField(T, row) ==
    [name \in FieldNames(Struct(T)) |-> row[Scalars(Struct(T))[PlaceOf(Struct(T), name)].column]]

\* r is related to an entity of type T with values "of".
Belongs(T, nav, of, r) ==
    LET f == Field(T, nav)
    IN  CASE f.is = "BelongsTo" -> of[FkName(T, f.type)] = r[KeyName(f.type)]
          [] f.is \in {"HasMany", "HasOne"} -> r[FkName(f.type, T)] = of[KeyName(T)]
          [] f.is = "ManyToMany" ->
               \E row \in ever[f.join] :
                   LET j == ByField(f.join, row)
                   IN  /\ j[FkName(f.join, T)] = of[KeyName(T)]
                       /\ j[FkName(f.join, f.type)] = r[KeyName(f.type)]

Declared(T, nav, of) ==
    LET type == Field(T, nav).type
    IN  {ByField(type, row) : row \in {r \in Range(tables[type]) :
            Visible(type, r) /\ Belongs(T, nav, of, ByField(type, r))}}

Container(o, nav) == heap[o].navs[nav]

Fetched(o, nav) ==
    LET items == Container(o, nav).items
    IN  Picked(items, {k \in DOMAIN items : ~heap[items[k]].mine})

\* An include of the query names it, or a "then": for the entities the include
\* leads to, or for those the "then" before it leads to.
Included(o, nav) ==
    \/ o \in Range(result.objs) /\ nav \in {p.nav : p \in Range(result.query.includes)}
    \/ \E r \in Range(result.objs), p \in Range(result.query.includes) :
           /\ o \in Range(Container(r, p.nav).items) /\ ~heap[o].mine
           /\ nav \in Range(p.nested)
    \/ \E r \in Range(result.objs), p \in Range(result.query.includes) :
           \E i \in Range(Container(r, p.nav).items), k \in 2..Len(p.nested) :
               /\ p.nested[k - 1] \in DOMAIN heap[i].navs
               /\ o \in Range(Container(i, p.nested[k - 1]).items) /\ ~heap[o].mine
               /\ nav = p.nested[k]

-----------------------------------------------------------------------------
(* Conditions on the structs and tables of a scenario.                      *)

\* The field "name" of T is read from position "at" of a row, that of the column.
ReadsField(s, T, name, at, column) ==
    LET S     == Scenarios[s].model[T]
        order == Scenarios[s].order[T]
    IN  /\ name \in FieldNames(S) /\ at = PlaceOf(S, name) /\ Scalars(S)[at].column = column
        /\ at \in DOMAIN order /\ order[at] = column

\* The metadata of a navigation is what the fields of the structs declare:
\* nav_meta takes the first foreign key it has seen, and the columns of keys
\* for their fields.
Agrees(s, T, nav) ==
    LET n == Metas[s][T][nav]
        f == FieldOf(Scenarios[s].model[T], nav)
        S == Scenarios[s].model[T]
        R == Scenarios[s].model[n.type]
    IN  /\ f.is = n.kind /\ f.type = n.type /\ f.join = n.join
        /\ \/ /\ n.kind = "BelongsTo" /\ n.fk_column = FkNameOf(S, n.type)
              /\ ReadsField(s, n.type, KeyNameOf(R), n.pk_row_index, n.ref_column)
           \/ /\ n.kind = "HasMany" /\ n.ref_column = KeyNameOf(S)
              /\ ReadsField(s, n.type, FkNameOf(R, T), n.fk_row_index, n.fk_column)
           \/ /\ n.kind = "ManyToMany"
              /\ n.ref_column \in Range(primary_keys(S)) => n.ref_column = KeyNameOf(S)
              /\ ReadsField(s, n.type, KeyNameOf(R), n.pk_row_index, n.ref_column)
              /\ ReadsField(s, n.join, FkNameOf(Scenarios[s].model[n.join], T),
                            n.parent_index, n.through_parent_fk)
              /\ ReadsField(s, n.join, FkNameOf(Scenarios[s].model[n.join], n.type),
                            n.related_index, n.related_fk)

MetadataAgrees ==
    \A s \in DOMAIN Scenarios : \A T \in DOMAIN Scenarios[s].model :
        \A nav \in NavNames(Scenarios[s].model[T]) : Agrees(s, T, nav)

\* The struct of a table with a filter reads the column the filter looks at.
FiltersSee ==
    \A s \in DOMAIN Scenarios : \A T \in DOMAIN Scenarios[s].model :
        T \in Scenarios[s].filters =>
            ReadsField(s, T, "hidden", PlaceOf(Scenarios[s].model[T], "hidden"), "hidden")

-----------------------------------------------------------------------------
(* Properties.                                                              *)

\* Whatever other connections change between the statements of a call, every
\* entity in a container is related to the entity that owns it, as the fields
\* of the two structs declare (navigation_loader.rs, lazy.rs, entity/parse.rs).
MembersBelong ==
    \A o \in DOMAIN heap : \A nav \in DOMAIN heap[o].navs :
        Container(o, nav).of # Nothing =>
            \A i \in Range(Fetched(o, nav)) :
                Belongs(heap[o].type, nav, Container(o, nav).of, heap[i].read)

\* With no such change, a loaded container holds all the related rows that the
\* filters show, each once, and an included one that is not loaded has none;
\* nesting loses or moves nothing (load_nested_includes).
NothingIsMissing ==
    writes = 0 /\ Idle =>
        \A o \in DOMAIN heap : \A nav \in DOMAIN heap[o].navs :
            LET c    == Container(o, nav)
                held == [k \in DOMAIN Fetched(o, nav) |-> heap[Fetched(o, nav)[k]].read]
            IN  IF c.of # Nothing
                THEN /\ Range(held) = Declared(heap[o].type, nav, c.of)
                     /\ Len(held) = Cardinality(Range(held))
                ELSE Included(o, nav) => Declared(heap[o].type, nav, heap[o].read) = {}

\* A row that the filter of its table hides reaches the caller through no
\* navigation, eager, nested or lazy (apply_filter_to_sql, apply_filter).
HiddenStayHidden ==
    \A i \in DOMAIN heap :
        heap[i].mine \/ Visible(heap[i].type, heap[i].read)
        \/ (~result.query.filtered /\ i \in Range(result.objs))

\* After a load() that returned Ok on a context with lazy loading, the
\* container is loaded (relations.rs:253-258).
LoadTakesEffect ==
    answer # Nothing /\ Given.lazy => (answer.ok => Container(answer.at, answer.nav).loaded)

\* What the caller has added to a collection stays in it until it is saved
\* (relations.rs, HasMany::add and load).
AddedIsKept ==
    \A i \in DOMAIN heap : heap[i].mine =>
        \E o \in DOMAIN heap : \E nav \in DOMAIN heap[o].navs : i \in Range(Container(o, nav).items)

\* The containers an include names are loaded when to_list returns
\* (docs/rust-ef/04-relationships/lazy-loading.md:56).
IncludedIsLoaded ==
    Idle => \A o \in Range(result.objs) : \A p \in Range(result.query.includes) :
                Container(o, p.nav).loaded
=============================================================================
