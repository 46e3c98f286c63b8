------------------------------ MODULE ModelConfig ------------------------------
(***************************************************************************)
(* The model: registrations found at start, the cache that every request   *)
(* of the process shares, and the ModelBuilder that each context owns and  *)
(* configures, with its two caches and the DbSets that copy from it.       *)
(*                                                                         *)
(* A request makes one DbContext from the shared options, configures it,   *)
(* takes its sets, creates the tables and sends statements.                *)
(***************************************************************************)
EXTENDS Integers, Sequences

CONSTANTS
    Nothing,
    Types, Fields, Tables, Columns, Filters,
    Keys,               \* context keys
    Compiled,           \* what the derive macro makes of a type: [table, keys, column]
    KeyOf,              \* the context key of a type
    Token,              \* the concurrency tokens of a type, a set of fields
    Trees,              \* types with a navigation to themselves
    Configurations,     \* what configure() of the registrations calls, in order
    Calls,              \* what a request may call on its own builder
    Requests,
    MaxCalls,           \* calls on builders in all
    MaxBegun,           \* requests in all
    MaxPanics,          \* configure() callbacks that panic
    Uses                \* uses that are left out unless listed here

AllUses == {"configure after set", "rename after create", "apply_configuration of a new type",
            "navigation to a renamed table", "query of a renamed column", "find by a new key",
            "save by a new key", "key in a column of another name"}

\* keys are the fields flagged is_primary_key. The list primary_keys beside the
\* flags always stays as compiled, as its readers do: Compiled[T].keys.
Metas == [table : Tables, keys : SUBSET Fields, column : [Fields -> Columns]]

Ops == {"entity", "to_table", "has_key", "has_column_name", "has_query_filter"}

ASSUME ModelAssumption ==
    /\ Compiled \in [Types -> Metas]
    /\ \A T, U \in Types : Compiled[T].table = Compiled[U].table => T = U
    /\ KeyOf \in [Types -> Keys]
    /\ Token \in [Types -> SUBSET Fields]
    /\ \A T \in Trees : \E f \in Fields : Compiled[T].keys = {f}
    /\ Nothing \notin Requests \cup Fields
    /\ Configurations \in Seq({Configurations[k] : k \in DOMAIN Configurations})
    /\ \A k \in DOMAIN Configurations :
           Configurations[k].type \in Types /\ Configurations[k].op \in Ops
    /\ \A call \in Calls : call.type \in Types /\ call.op \in Ops
    /\ Uses \subseteq AllUses
    /\ {MaxCalls, MaxBegun, MaxPanics} \subseteq Nat

\* What the Fluent API is called with, and the settings that a type can then
\* have; Nothing is none of these.
AllCalls == Calls \cup {Configurations[k] : k \in DOMAIN Configurations}

GivenTo(op) == {Nothing} \cup {call.to : call \in {c \in AllCalls : c.op = op}}

Entries == [table : GivenTo("to_table"), keys : GivenTo("has_key"),
            column : [Fields -> GivenTo("has_column_name")], filter : GivenTo("has_query_filter")]

ASSUME NothingAssumption == Nothing \notin Entries

VARIABLES
    cache,       \* MetadataCache: BuiltMetadata by key
    writer,      \* the request that holds the write lock, or Nothing
    poisoned,    \* the lock is poisoned
    position,    \* registrations the writer has been through
    at,          \* request -> "none", "read", "write", "build", "open"
    key,         \* request -> its context key
    builder,     \* request -> its ModelBuilder: [metas, configs, built, filters]
    sets,        \* request -> its DbSets: type -> [table, filter, filters] or Nothing
    created,     \* request -> the tables ensure_created made, or Nothing
    asked,       \* request -> the calls made on its builder and for its sets
    sent,        \* request -> its last statement, or Nothing
    builds,      \* key -> times the model was built
    panics, begun, called

vars == <<cache, writer, poisoned, position, at, key, builder, sets, created, asked, sent,
          builds, panics, begun, called>>

Used(u) == u \in Uses

-----------------------------------------------------------------------------
(* ModelBuilder.                                                            *)

NoColumns == [f \in Fields |-> Nothing]

Default == [table |-> Nothing, keys |-> Nothing, column |-> NoColumns, filter |-> Nothing]

NewBuilder ==
    [metas |-> {}, configs |-> [T \in Types |-> Nothing], built |-> Nothing, filters |-> Nothing]

from_built(found) ==
    [metas |-> found.metas, configs |-> found.configs, built |-> Nothing, filters |-> Nothing]

Else(override, value) == IF override = Nothing THEN value ELSE override

\* Keys are matched with the names of the fields, and only the flags change.
apply_config_to_meta(T, c) ==
    IF c = Nothing THEN Compiled[T]
    ELSE [table  |-> Else(c.table, Compiled[T].table),
          keys   |-> IF c.keys = Nothing THEN Compiled[T].keys ELSE Fields \cap c.keys,
          column |-> [f \in Fields |-> Else(c.column[f], Compiled[T].column[f])]]

Build(metas, configs) == [T \in metas |-> apply_config_to_meta(T, configs[T])]

get_query_filter(configs, T) == IF configs[T] = Nothing THEN Nothing ELSE configs[T].filter

Scoped(metas, configs) == {T \in metas : get_query_filter(configs, T) # Nothing}

\* By the name of the table that the macro has compiled in.
FiltersByTable(metas, configs) ==
    [name \in {Compiled[T].table : T \in Scoped(metas, configs)} |->
        get_query_filter(configs,
                         CHOOSE T \in Scoped(metas, configs) : Compiled[T].table = name)]

\* build() and filters_by_table() fill the caches when they are empty.
BuildNow(b) == Else(b.built, Build(b.metas, b.configs))

FiltersNow(b) == Else(b.filters, FiltersByTable(b.metas, b.configs))

\* A mutation drops both caches.
Builder(metas, configs) ==
    [metas |-> metas, configs |-> configs, built |-> Nothing, filters |-> Nothing]

EntryOf(configs, T) == Else(configs[T], Default)

\* register_entity_meta() and entity::<T>().
Registered(b, T) ==
    LET configs == [b.configs EXCEPT ![T] = EntryOf(b.configs, T)]
    IN  IF T \in b.metas THEN [b EXCEPT !.configs = configs]
        ELSE Builder(b.metas \cup {T}, configs)

\* set::<T>() leaves a type alone that is registered.
Holding(b, T) == IF T \in b.metas THEN b ELSE Registered(b, T)

\* apply_configuration() makes no entry in configs.
Pushed(b, T) == IF T \in b.metas THEN b ELSE Builder(b.metas \cup {T}, b.configs)

Entered(b, call) == IF call.via = "entity" THEN Registered(b, call.type) ELSE Pushed(b, call.type)

\* to_table and has_key change an entry that is there; has_column_name and
\* has_query_filter make one.
NewConfigs(configs, call) ==
    LET T == call.type
        entry == EntryOf(configs, T)
    IN  CASE call.op = "entity" -> configs
          [] call.op = "to_table" ->
               IF configs[T] = Nothing THEN configs
               ELSE [configs EXCEPT ![T] = [entry EXCEPT !.table = call.to]]
          [] call.op = "has_key" ->
               IF configs[T] = Nothing THEN configs
               ELSE [configs EXCEPT ![T] = [entry EXCEPT !.keys = call.to]]
          [] call.op = "has_column_name" ->
               [configs EXCEPT ![T] = [entry EXCEPT !.column[call.field] = call.to]]
          [] call.op = "has_query_filter" ->
               [configs EXCEPT ![T] = [entry EXCEPT !.filter = call.to]]

\* Mutant: the caches stay when the type was there before.
With_KeepsCaches(b, call) ==
    LET e == Entered(b, call)
    IN  IF call.op = "entity" THEN e ELSE [e EXCEPT !.configs = NewConfigs(e.configs, call)]

With(b, call) ==
    LET e == Entered(b, call)
    IN  IF call.op = "entity" THEN e ELSE Builder(e.metas, NewConfigs(e.configs, call))

-----------------------------------------------------------------------------
(* MetadataCache::get_or_build().                                           *)

NoCache == [k \in {} |-> Nothing]

Init ==
    /\ cache = NoCache /\ writer = Nothing /\ poisoned = FALSE /\ position = 0
    /\ at = [r \in Requests |-> "none"]
    /\ key \in [Requests -> Keys]
    /\ builder = [r \in Requests |-> NewBuilder]
    /\ sets = [r \in Requests |-> [T \in Types |-> Nothing]]
    /\ created = [r \in Requests |-> Nothing]
    /\ asked = [r \in Requests |-> <<>>]
    /\ sent = [r \in Requests |-> Nothing]
    /\ builds = [k \in Keys |-> 0]
    /\ panics = 0 /\ begun = 0 /\ called = 0

\* What a request has besides its builder.
own == <<sets, created, asked, sent>>

\* A request gets a context of its own from the metadata found.
Open(r, found) ==
    /\ at' = [at EXCEPT ![r] = "open"]
    /\ builder' = [builder EXCEPT ![r] = from_built(found)]
    /\ UNCHANGED <<key, own, called>>

GoTo(r, place) ==
    /\ at' = [at EXCEPT ![r] = place]
    /\ UNCHANGED <<key, builder, own, called>>

\* The request ends, and what it had is dropped.
Drop(r) ==
    /\ at' = [at EXCEPT ![r] = "none"]
    /\ builder' = [builder EXCEPT ![r] = NewBuilder]
    /\ sets' = [sets EXCEPT ![r] = [T \in Types |-> Nothing]]
    /\ created' = [created EXCEPT ![r] = Nothing]
    /\ asked' = [asked EXCEPT ![r] = <<>>]
    /\ sent' = [sent EXCEPT ![r] = Nothing]
    /\ UNCHANGED <<key, called>>

Begin(r) ==
    /\ at[r] = "none" /\ begun < MaxBegun
    /\ begun' = begun + 1
    /\ GoTo(r, "read")
    /\ UNCHANGED <<cache, writer, poisoned, position, builds, panics>>

\* The read lock; a poisoned one is not looked into.
ReadCache(r) ==
    /\ at[r] = "read" /\ writer = Nothing
    /\ IF ~poisoned /\ key[r] \in DOMAIN cache THEN Open(r, cache[key[r]]) ELSE GoTo(r, "write")
    /\ UNCHANGED <<cache, writer, poisoned, position, builds, panics, begun>>

\* Mutant: without the second look.
WriteCache_NoSecondLook(r) ==
    /\ at[r] = "write" /\ writer = Nothing
    /\ cache' = IF poisoned THEN NoCache ELSE cache
    /\ writer' = r /\ position' = 0
    /\ at' = [at EXCEPT ![r] = "build"]
    /\ UNCHANGED <<key, builder, own, called, poisoned, builds, panics, begun>>

\* The write lock: what a poisoned lock protected is dropped, the poison
\* stays, and the cache is looked into again.
WriteCache(r) ==
    LET now == IF poisoned THEN NoCache ELSE cache
    IN  /\ at[r] = "write" /\ writer = Nothing
        /\ cache' = now
        /\ IF key[r] \in DOMAIN now
           THEN Open(r, now[key[r]]) /\ UNCHANGED <<writer, position>>
           ELSE /\ writer' = r /\ position' = 0
                /\ at' = [at EXCEPT ![r] = "build"]
                /\ UNCHANGED <<key, builder, own, called>>
        /\ UNCHANGED <<poisoned, builds, panics, begun>>

\* Mutant: whatever the key.
ApplyFn_AnyKey(b, k, step) == With(Registered(b, step.type), step)

\* apply_fn registers the type and calls configure(); the registrations of
\* other keys are passed over.
ApplyFn(b, k, step) == IF step.key = k THEN With(Registered(b, step.type), step) ELSE b

Configured(r) ==
    /\ at[r] = "build" /\ position < Len(Configurations)
    /\ position' = position + 1
    /\ builder' = [builder EXCEPT ![r] = ApplyFn(@, key[r], Configurations[position'])]
    /\ UNCHANGED <<cache, writer, poisoned, at, key, own, builds, panics, begun, called>>

\* A configure() that panics unwinds through the guard.
Panic(r) ==
    /\ at[r] = "build" /\ position < Len(Configurations)
    /\ Configurations[position + 1].key = key[r]
    /\ panics < MaxPanics
    /\ panics' = panics + 1
    /\ poisoned' = TRUE /\ writer' = Nothing
    /\ Drop(r)
    /\ UNCHANGED <<cache, position, builds, begun>>

\* The types of the key that no configuration has registered, and the snapshot.
Discovered(b, k) ==
    LET mine == {T \in Types : KeyOf[T] = k}
    IN  [metas   |-> b.metas \cup mine,
         configs |-> [T \in Types |-> IF T \in mine \ b.metas THEN EntryOf(b.configs, T)
                                      ELSE b.configs[T]]]

FinishBuild(r) ==
    LET found == Discovered(builder[r], key[r])
    IN  /\ at[r] = "build" /\ position = Len(Configurations)
        /\ cache' = [k \in DOMAIN cache \cup {key[r]} |-> IF k = key[r] THEN found ELSE cache[k]]
        /\ builds' = [builds EXCEPT ![key[r]] = @ + 1]
        /\ writer' = Nothing
        /\ Open(r, found)
        /\ UNCHANGED <<poisoned, position, panics, begun>>

-----------------------------------------------------------------------------
(* The context.                                                             *)

Ask(r, b, call) ==
    /\ at[r] = "open" /\ called < MaxCalls
    /\ called' = called + 1
    /\ builder' = [builder EXCEPT ![r] = b]
    /\ asked' = [asked EXCEPT ![r] = Append(@, call)]
    /\ sent' = [sent EXCEPT ![r] = Nothing]
    /\ UNCHANGED <<cache, writer, poisoned, position, at, key, created, builds, panics, begun>>

\* ctx.model() and one call of the Fluent API.
Configure(r, call) ==
    /\ Ask(r, With(builder[r], call), call)
    /\ call.op = "has_query_filter" \/ created[r] = Nothing \/ Used("rename after create")
    /\ \/ call.via = "entity" \/ builder[r].configs[call.type] # Nothing
       \/ Used("apply_configuration of a new type")
    /\ UNCHANGED sets

\* Mutant: the table that is compiled in.
SetOf_Compiled(b, T) ==
    [table   |-> Compiled[T].table,
     filter  |-> get_query_filter(b.configs, T),
     filters |-> FiltersNow(b)]

\* Mutant: the set has its own filter only.
SetOf_OwnFilter(b, T) ==
    [table   |-> BuildNow(b)[T].table,
     filter  |-> get_query_filter(b.configs, T),
     filters |-> [name \in {} |-> Nothing]]

\* A DbSet copies its table, its filter and the filters of the navigations.
SetOf(b, T) ==
    [table   |-> BuildNow(b)[T].table,
     filter  |-> get_query_filter(b.configs, T),
     filters |-> FiltersNow(b)]

Caching(b) == [b EXCEPT !.built = BuildNow(b), !.filters = FiltersNow(b)]

\* set::<T>(); tables are there for the types known to ensure_created.
GetSet(r, T) ==
    LET b == Holding(builder[r], T)
    IN  /\ created[r] # Nothing => T \in DOMAIN created[r]
        /\ sets[r][T] = Nothing
        /\ Ask(r, Caching(b), [op |-> "set", type |-> T])
        /\ sets' = [sets EXCEPT ![r][T] = SetOf(b, T)]

(* Statements. where has what a statement compares with an entity: a column   *)
(* and the field whose value is bound, or Nothing for NULL.                    *)

Names(meta) == {meta.column[f] : f \in Fields}

Pairs(meta, fields) == {<<meta.column[f], f>> : f \in fields}

\* The fields of a key under their own names, without the names of the columns.
ByFieldName(T) == {<<f, f>> : f \in Compiled[T].keys}

Statement(what, T, table, meta, where, filter) ==
    [what |-> what, type |-> T, table |-> table, columns |-> Names(meta), where |-> where,
     filter |-> filter]

Send(r, statement) ==
    /\ sent' = [sent EXCEPT ![r] = statement]
    /\ UNCHANGED <<cache, writer, poisoned, position, at, key, sets, created, asked,
                   builds, panics, begun, called>>

Working(r) == at[r] = "open" /\ created[r] # Nothing

\* The set was taken after the last call on the builder.
UsesSet(r, T) ==
    /\ sets[r][T] # Nothing
    /\ \/ \E i \in DOMAIN asked[r] :
             /\ asked[r][i] = [op |-> "set", type |-> T]
             /\ \A j \in (i + 1)..Len(asked[r]) : asked[r][j].op = "set"
       \/ Used("configure after set")

Renamed(r, T) == created[r][T].column # Compiled[T].column

Rekeyed(r, T) == created[r][T].keys # Compiled[T].keys

\* A key of T that is in a column with another name than its field.
KeyElsewhere(r, T) == \E f \in Compiled[T].keys : created[r][T].column[f] # f

\* The constants that linq! expands to are those the macro has compiled in.
Reading(r, T, what, where) ==
    /\ Working(r) /\ UsesSet(r, T)
    /\ Renamed(r, T) => Used("query of a renamed column")
    /\ Send(r, Statement(what, T, sets[r][T].table, Compiled[T], where, sets[r][T].filter))
    /\ UNCHANGED builder

Query(r, T) == Reading(r, T, "query", {})

\* find_by_key() is given the constants of the key, and find() takes the name
\* of the field for the column.
Find(r, T) ==
    /\ \/ Reading(r, T, "find", Pairs(Compiled[T], Compiled[T].keys))
       \/ /\ Reading(r, T, "find", ByFieldName(T))
          /\ \E f \in Fields : Compiled[T].keys = {f}
          /\ KeyElsewhere(r, T) => Used("key in a column of another name")
    /\ Rekeyed(r, T) => Used("find by a new key")

\* What goes from U to T along a navigation: NavigationMeta is compiled in too.
Along(r, U, T, what, filter) ==
    /\ Working(r) /\ UsesSet(r, U) /\ T \in DOMAIN created[r]
    /\ created[r][T].table # Compiled[T].table => Used("navigation to a renamed table")
    /\ Renamed(r, T) => Used("query of a renamed column")
    /\ Send(r, Statement(what, T, Compiled[T].table, Compiled[T], {}, filter))

\* An include from a query of U.
Include(r, U, T) ==
    LET table == Compiled[T].table
    IN  /\ Along(r, U, T, "include",
                 IF table \in DOMAIN sets[r][U].filters THEN sets[r][U].filters[table]
                 ELSE Nothing)
        /\ UNCHANGED builder

\* save_changes() builds the model again.
Saving(r) == builder' = [builder EXCEPT ![r].built = BuildNow(builder[r])]

\* The phases of a save send what the model now says, under the filter given.
Writes(r, T, what, where, filter) ==
    LET now == BuildNow(builder[r])[T]
    IN  /\ Working(r) /\ UsesSet(r, T)
        /\ Send(r, Statement(what, T, now.table, now, where, filter))
        /\ Saving(r)

\* One row at a time: tokens are compared too, and the key is not single.
PerRow(T, meta) == Token[T] # {} \/ ~\E f \in Fields : meta.keys = {f}

\* UPDATE and DELETE find a row by key_values(), which the macro has compiled
\* in: a batch looks there for the field that is the key now, and one row at a
\* time is compared with all there is, by the names of the fields.
Matched(T, meta) ==
    IF PerRow(T, meta) THEN ByFieldName(T) \cup Pairs(meta, Token[T])
    ELSE {<<meta.column[f], IF f \in Compiled[T].keys THEN f ELSE Nothing>> : f \in meta.keys}

ByKey(r, T) ==
    /\ Rekeyed(r, T) => Used("save by a new key")
    /\ PerRow(T, BuildNow(builder[r])[T]) /\ KeyElsewhere(r, T)
           => Used("key in a column of another name")

Insert(r, T) == Writes(r, T, "insert", {}, Nothing)

\* The conflict is on the key that the model has now, with values of the row.
Upsert(r, T) ==
    LET now == BuildNow(builder[r])[T] IN Writes(r, T, "upsert", Pairs(now, now.keys), Nothing)

\* A field that is no key is left to write.
Update(r, T) ==
    LET now == BuildNow(builder[r])[T]
    IN  /\ Writes(r, T, "update", Matched(T, now), sets[r][T].filter)
        /\ Fields \ now.keys # {}
        /\ ByKey(r, T)

\* An entity without a value for the key is left out.
Delete(r, T) ==
    LET where == Matched(T, BuildNow(builder[r])[T])
    IN  /\ Writes(r, T, "delete", {pair \in where : pair[2] # Nothing}, sets[r][T].filter)
        /\ ByKey(r, T)

\* The key of an inserted parent of the same type, written to its children: the
\* first field flagged, with the first value of key_values().
SelfReference(r, T) ==
    LET now == BuildNow(builder[r])[T]
    IN  /\ T \in Trees /\ Working(r) /\ UsesSet(r, T)
        /\ \E f \in now.keys, g \in Compiled[T].keys :
               Writes(r, T, "link", {<<now.column[f], g>>}, Nothing)
        /\ Rekeyed(r, T) => Used("save by a new key")

\* The SET NULL or DELETE of the dependents T of a deleted principal U.
Cascade(r, U, T) == Along(r, U, T, "cascade", Nothing) /\ Saving(r)

EnsureCreated(r) ==
    /\ at[r] = "open" /\ created[r] = Nothing /\ builder[r].metas # {}
    /\ created' = [created EXCEPT ![r] = BuildNow(builder[r])]
    /\ builder' = [builder EXCEPT ![r].built = BuildNow(builder[r])]
    /\ UNCHANGED <<cache, writer, poisoned, position, at, key, sets, asked, sent,
                   builds, panics, begun, called>>

\* The request drops its context.
Close(r) ==
    /\ at[r] = "open"
    /\ Drop(r)
    /\ UNCHANGED <<cache, writer, poisoned, position, builds, panics, begun>>

Next ==
    \E r \in Requests :
        \/ Begin(r) \/ ReadCache(r) \/ WriteCache(r)
        \/ Configured(r) \/ Panic(r) \/ FinishBuild(r)
        \/ \E call \in Calls : Configure(r, call)
        \/ \E T \in Types : GetSet(r, T) \/ Query(r, T) \/ Find(r, T)
        \/ \E T \in Types : Insert(r, T) \/ Upsert(r, T) \/ Update(r, T) \/ Delete(r, T)
        \/ \E T \in Types : SelfReference(r, T)
        \/ \E U, T \in Types : Include(r, U, T) \/ Cascade(r, U, T)
        \/ EnsureCreated(r) \/ Close(r)

Spec == Init /\ [][Next]_vars

-----------------------------------------------------------------------------
(* Properties.                                                              *)

\* Whatever a builder has cached is what it would compute now, whichever call
\* of the Fluent API came in between (model_builder.rs, invalidate_cache).
Current(b) ==
    /\ b.built # Nothing => b.built = Build(b.metas, b.configs)
    /\ b.filters # Nothing => b.filters = FiltersByTable(b.metas, b.configs)

CachesAreCurrent == \A r \in Requests : Current(builder[r])

\* A context has the types of its key and those it has named itself, each with
\* the last value given to each setting, by the configurations of its key and
\* then by its own calls: nothing of another key or request shows in it, and no
\* call undoes another (metadata_cache.rs:13-16, model_builder.rs).
GivesTo(call, op, T, f) ==
    call.op = op /\ call.type = T /\ (op = "has_column_name" => call.field = f)

Latest(those) == CHOOSE i \in those : \A j \in those : j <= i

LastTo(calls, those) == IF those = {} THEN Nothing ELSE calls[Latest(those)].to

\* What the first n configurations of key k and then the calls in list give.
Given(k, n, list, op, T, f) ==
    LET steps == {i \in 1..n : Configurations[i].key = k /\ GivesTo(Configurations[i], op, T, f)}
        later == {i \in DOMAIN list : GivesTo(list[i], op, T, f)}
    IN  IF later = {} THEN LastTo(Configurations, steps) ELSE LastTo(list, later)

Named(k, n, list) ==
    {Configurations[i].type : i \in {j \in 1..n : Configurations[j].key = k}}
        \cup {list[i].type : i \in DOMAIN list}

ModelIsDeclared ==
    \A r \in Requests : at[r] = "open" =>
        LET b == builder[r]
            k == key[r]
            n == Len(Configurations)
            model == Build(b.metas, b.configs)
        IN  /\ b.metas = {T \in Types : KeyOf[T] = k} \cup Named(k, n, asked[r])
            /\ \A T \in b.metas :
                  /\ model[T].table =
                        Else(Given(k, n, asked[r], "to_table", T, Nothing), Compiled[T].table)
                  /\ model[T].keys =
                        Else(Given(k, n, asked[r], "has_key", T, Nothing), Compiled[T].keys)
                  /\ get_query_filter(b.configs, T) =
                        Given(k, n, asked[r], "has_query_filter", T, Nothing)
                  /\ \A f \in Fields :
                        model[T].column[f] =
                            Else(Given(k, n, asked[r], "has_column_name", T, f),
                                 Compiled[T].column[f])

\* Every statement names the table and columns that ensure_created gave its
\* type, and one that looks for an entity compares the whole key of that table,
\* and each column with the value of its own field (model_builder.rs, db_set.rs,
\* executor_dml.rs:139, 322, 451-461).
OneEntity == {"find", "upsert", "update", "delete", "link"}

FitsTable(statement, made) ==
    /\ statement.table = made.table
    /\ statement.columns \subseteq Names(made)
    /\ statement.what \in OneEntity => Pairs(made, made.keys) \subseteq statement.where
    /\ statement.where \subseteq Pairs(made, Fields)

StatementsFitTheTables ==
    \A r \in Requests : sent[r] # Nothing /\ at[r] = "open" =>
        FitsTable(sent[r], created[r][sent[r].type])

\* Queries, includes and the UPDATE and DELETE of a type carry the filter that
\* the context has for it (query filters, filters_by_table).
Filtered == {"query", "find", "include", "update", "delete"}

StatementsAreScoped ==
    \A r \in Requests : sent[r] # Nothing /\ sent[r].what \in Filtered /\ at[r] = "open" =>
        sent[r].filter = get_query_filter(builder[r].configs, sent[r].type)

\* Unless a configure() panics, the model of a key is built once, however many
\* requests find the cache empty at the same time (get_or_build, double-check).
BuiltOnce == panics = 0 => \A k \in Keys : builds[k] <= 1

\* The same after a panic: once more (metadata_cache.rs:27-28, 63-66).
BuiltOncePerPanic == \A k \in Keys : builds[k] <= 1 + panics
=============================================================================
