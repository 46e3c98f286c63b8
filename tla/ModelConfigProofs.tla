--------------------------- MODULE ModelConfigProofs ---------------------------
(* For every set of types, configurations, calls and requests: the caches of  *)
(* a builder are current, the model of a key is built once unless a           *)
(* configure() panics, a context has the model that was declared for it, and  *)
(* every statement of a request that takes its sets after it has configured   *)
(* its model carries the filter and the names of its type.                    *)
EXTENDS ModelConfig, NaturalLemmas, TLAPS

-----------------------------------------------------------------------------
(* The builder.                                                             *)

FilterOf(b, T) == get_query_filter(b.configs, T)

AllFilters(b) == FiltersByTable(b.metas, b.configs)

\* What metas and configs are like, in a builder and in the cache: a type that
\* has a filter is registered.
Shaped(b) ==
  /\ b.metas \subseteq Types
  /\ b.configs = [T \in Types |-> b.configs[T]]
  /\ \A T \in Types : FilterOf(b, T) # Nothing => T \in b.metas

Good(b) ==
  /\ b = [metas |-> b.metas, configs |-> b.configs, built |-> b.built, filters |-> b.filters]
  /\ Shaped(b) /\ Current(b)

\* An entry of defaults compiles to what the macro has made.
LEMMA DefaultIsCompiled ==
  ASSUME NEW T \in Types
  PROVE  apply_config_to_meta(T, Default) = Compiled[T]
<1>1. Compiled[T] \in Metas BY ModelAssumption
<1>2. Compiled[T] = [table |-> Compiled[T].table, keys |-> Compiled[T].keys,
                     column |-> Compiled[T].column]
  BY <1>1 DEF Metas
<1>3. Compiled[T].column = [f \in Fields |-> Compiled[T].column[f]] BY <1>1 DEF Metas
<1>4. \A f \in Fields : Else(Default.column[f], Compiled[T].column[f]) = Compiled[T].column[f]
  BY DEF Default, NoColumns, Else
<1>5. [f \in Fields |-> Else(Default.column[f], Compiled[T].column[f])] = Compiled[T].column
  BY <1>3, <1>4
<1>6. Else(Default.table, Compiled[T].table) = Compiled[T].table /\ Default.keys = Nothing
  BY DEF Default, Else
<1> QED BY <1>2, <1>5, <1>6 DEF apply_config_to_meta

\* An entry of defaults changes neither the model nor a filter.
LEMMA EntryChangesNothing ==
  ASSUME NEW configs, configs = [T \in Types |-> configs[T]], NEW T \in Types, NEW U \in Types,
         NEW now, now = [configs EXCEPT ![T] = EntryOf(configs, T)]
  PROVE  /\ now = [V \in Types |-> now[V]]
         /\ apply_config_to_meta(U, now[U]) = apply_config_to_meta(U, configs[U])
         /\ get_query_filter(now, U) = get_query_filter(configs, U)
<1>1. now = [V \in Types |-> now[V]] /\ now[U] = IF U = T THEN EntryOf(configs, T) ELSE configs[U]
  OBVIOUS
<1>2. CASE U # T \/ configs[T] # Nothing
  BY <1>1, <1>2 DEF EntryOf, Else, get_query_filter
<1>3. CASE U = T /\ configs[T] = Nothing
  <2>1. now[U] = Default BY <1>1, <1>3 DEF EntryOf, Else
  <2>2. apply_config_to_meta(U, configs[U]) = Compiled[U] BY <1>3 DEF apply_config_to_meta
  <2>3. get_query_filter(now, U) = Nothing BY <2>1 DEF get_query_filter, Default
  <2> QED BY <1>1, <1>3, <2>1, <2>2, <2>3, DefaultIsCompiled DEF get_query_filter
<1> QED BY <1>1, <1>2, <1>3

\* The filters by table are those of the types that have one.
LEMMA FiltersFollow ==
  ASSUME NEW metas \in SUBSET Types, NEW more \in SUBSET Types, NEW configs, NEW now,
         \A T \in Types : get_query_filter(now, T) = get_query_filter(configs, T),
         \A T \in Types : get_query_filter(configs, T) # Nothing => (T \in metas <=> T \in more)
  PROVE  FiltersByTable(more, now) = FiltersByTable(metas, configs)
<1>1. Scoped(more, now) = Scoped(metas, configs) BY DEF Scoped
<1>2. ASSUME NEW name \in {Compiled[T].table : T \in Scoped(metas, configs)}
      PROVE  (CHOOSE T \in Scoped(metas, configs) : Compiled[T].table = name) \in Types
  <2>1. \E T \in Scoped(metas, configs) : Compiled[T].table = name OBVIOUS
  <2> QED BY <2>1 DEF Scoped
<1> QED BY <1>1, <1>2 DEF FiltersByTable

\* A navigation to T finds the filter of T by its compiled name, or none.
LEMMA FilterByName ==
  ASSUME NEW b, Shaped(b), NEW T \in Types
  PROVE  FilterOf(b, T) = IF Compiled[T].table \in DOMAIN AllFilters(b)
                          THEN AllFilters(b)[Compiled[T].table] ELSE Nothing
<1> DEFINE S == Scoped(b.metas, b.configs)
           name == Compiled[T].table
<1>1. DOMAIN AllFilters(b) = {Compiled[U].table : U \in S} BY DEF AllFilters, FiltersByTable
<1>2. \A U \in S : U \in Types BY DEF Scoped, Shaped
<1>3. \A U \in S : Compiled[U].table = name => U = T BY <1>2, ModelAssumption
<1>4. CASE T \in S
  <2>1. (CHOOSE U \in S : Compiled[U].table = name) = T BY <1>3, <1>4
  <2>2. name \in {Compiled[U].table : U \in S} BY <1>4
  <2>3. AllFilters(b)[name] = get_query_filter(b.configs, CHOOSE U \in S : Compiled[U].table = name)
    BY <2>2 DEF AllFilters, FiltersByTable
  <2> QED BY <1>1, <2>1, <2>2, <2>3 DEF FilterOf
<1>5. CASE T \notin S
  <2>1. name \notin DOMAIN AllFilters(b) BY <1>1, <1>3, <1>5
  <2>2. FilterOf(b, T) = Nothing BY <1>5 DEF Scoped, Shaped, FilterOf
  <2> QED BY <2>1, <2>2
<1> QED BY <1>4, <1>5

\* A builder whose caches are empty is good when it has the shape.
LEMMA EmptyIsGood ==
  ASSUME NEW metas, NEW configs, Shaped([metas |-> metas, configs |-> configs])
  PROVE  Good(Builder(metas, configs))
<1> DEFINE b == Builder(metas, configs)
<1>1. /\ b.metas = metas /\ b.configs = configs /\ b.built = Nothing /\ b.filters = Nothing
      /\ b = [metas |-> metas, configs |-> configs, built |-> Nothing, filters |-> Nothing]
  BY DEF Builder
<1>2. Shaped(b) BY <1>1 DEF Shaped, FilterOf
<1>3. Current(b) BY <1>1 DEF Current
<1> HIDE DEF b
<1>4. Good(b) BY <1>1, <1>2, <1>3 DEF Good
<1> QED BY <1>4 DEF b

\* register_entity_meta() and entity::<T>() keep every filter.
LEMMA RegisteredIsGood ==
  ASSUME NEW b, Good(b), NEW T \in Types
  PROVE  /\ Good(Registered(b, T))
         /\ Registered(b, T).metas = b.metas \cup {T}
         /\ \A U \in Types : FilterOf(Registered(b, T), U) = FilterOf(b, U)
         /\ AllFilters(Registered(b, T)) = AllFilters(b)
<1> DEFINE now == [b.configs EXCEPT ![T] = EntryOf(b.configs, T)]
           n == Registered(b, T)
<1>0. /\ b.metas \subseteq Types /\ b.configs = [U \in Types |-> b.configs[U]]
      /\ \A U \in Types : get_query_filter(b.configs, U) # Nothing => U \in b.metas
  BY DEF Good, Shaped, FilterOf
<1>1. /\ now = [V \in Types |-> now[V]]
      /\ \A U \in Types : apply_config_to_meta(U, now[U]) = apply_config_to_meta(U, b.configs[U])
      /\ \A U \in Types : get_query_filter(now, U) = get_query_filter(b.configs, U)
  BY <1>0, EntryChangesNothing
<1>2. /\ n.metas = b.metas \cup {T} /\ n.configs = now
      /\ n = [metas |-> n.metas, configs |-> n.configs, built |-> n.built, filters |-> n.filters]
      /\ T \in b.metas => n.built = b.built /\ n.filters = b.filters
      /\ T \notin b.metas => n.built = Nothing /\ n.filters = Nothing
  <2>1. CASE T \in b.metas
    <3>1. n = [b EXCEPT !.configs = now] BY <2>1 DEF Registered
    <3>2. n = [metas |-> b.metas, configs |-> now, built |-> b.built, filters |-> b.filters]
      BY <3>1 DEF Good
    <3> QED BY <2>1, <3>2
  <2>2. CASE T \notin b.metas BY <2>2 DEF Registered, Builder
  <2> QED BY <2>1, <2>2
<1> HIDE DEF n, now
<1>3. FiltersByTable(b.metas \cup {T}, now) = FiltersByTable(b.metas, b.configs)
  BY <1>0, <1>1, FiltersFollow
<1>4. Shaped(n) BY <1>0, <1>1, <1>2 DEF Shaped, FilterOf
<1>5. Current(n)
  <2>1. CASE T \in b.metas
    <3>1. Build(b.metas, now) = Build(b.metas, b.configs) BY <1>0, <1>1 DEF Build
    <3>2. n.metas = b.metas BY <1>2, <2>1
    <3> QED BY <1>2, <1>3, <2>1, <3>1, <3>2 DEF Current, Good
  <2>2. CASE T \notin b.metas BY <1>2, <2>2 DEF Current
  <2> QED BY <2>1, <2>2
<1>6. Good(n) BY <1>2, <1>4, <1>5 DEF Good
<1>7. /\ \A U \in Types : FilterOf(n, U) = FilterOf(b, U)
      /\ AllFilters(n) = AllFilters(b)
  BY <1>1, <1>2, <1>3 DEF FilterOf, AllFilters
<1> QED BY <1>2, <1>6, <1>7 DEF n

\* So does set::<T>().
LEMMA HoldingIsGood ==
  ASSUME NEW b, Good(b), NEW T \in Types
  PROVE  /\ Good(Holding(b, T))
         /\ \A U \in Types : FilterOf(Holding(b, T), U) = FilterOf(b, U)
         /\ AllFilters(Holding(b, T)) = AllFilters(b)
<1>1. CASE T \in b.metas BY <1>1 DEF Holding
<1>2. CASE T \notin b.metas BY <1>2, RegisteredIsGood DEF Holding
<1> QED BY <1>1, <1>2

\* apply_configuration() adds a type with no entry.
LEMMA PushedIsGood ==
  ASSUME NEW b, Good(b), NEW T \in Types
  PROVE  Good(Pushed(b, T)) /\ T \in Pushed(b, T).metas
<1>1. CASE T \in b.metas BY <1>1 DEF Pushed
<1>2. CASE T \notin b.metas
  <2>1. Pushed(b, T) = Builder(b.metas \cup {T}, b.configs) BY <1>2 DEF Pushed
  <2>2. Shaped([metas |-> b.metas \cup {T}, configs |-> b.configs])
    BY DEF Good, Shaped, FilterOf
  <2>3. Good(Builder(b.metas \cup {T}, b.configs)) BY <2>2, EmptyIsGood
  <2>4. Builder(b.metas \cup {T}, b.configs).metas = b.metas \cup {T} BY DEF Builder
  <2> QED BY <2>1, <2>3, <2>4
<1> QED BY <1>1, <1>2

\* A call changes the entry of its own type, and sets no filter but of it.
LEMMA NewConfigsShape ==
  ASSUME NEW configs, configs = [T \in Types |-> configs[T]],
         NEW call, call.type \in Types, call.op \in Ops
  PROVE  /\ NewConfigs(configs, call) = [T \in Types |-> NewConfigs(configs, call)[T]]
         /\ \A T \in Types : T # call.type =>
               NewConfigs(configs, call)[T] = configs[T]
<1> DEFINE T == call.type
           entry == EntryOf(configs, T)
<1>1. CASE call.op = "entity" BY <1>1 DEF NewConfigs
<1>2. CASE call.op = "to_table"
  <2>1. NewConfigs(configs, call) = IF configs[T] = Nothing THEN configs
                                    ELSE [configs EXCEPT ![T] = [entry EXCEPT !.table = call.to]]
    BY <1>2 DEF NewConfigs
  <2> QED BY <2>1
<1>3. CASE call.op = "has_key"
  <2>1. NewConfigs(configs, call) = IF configs[T] = Nothing THEN configs
                                    ELSE [configs EXCEPT ![T] = [entry EXCEPT !.keys = call.to]]
    BY <1>3 DEF NewConfigs
  <2> QED BY <2>1
<1>4. CASE call.op = "has_column_name"
  <2>1. NewConfigs(configs, call) =
          [configs EXCEPT ![T] = [entry EXCEPT !.column[call.field] = call.to]]
    BY <1>4 DEF NewConfigs
  <2> QED BY <2>1
<1>5. CASE call.op = "has_query_filter"
  <2>1. NewConfigs(configs, call) = [configs EXCEPT ![T] = [entry EXCEPT !.filter = call.to]]
    BY <1>5 DEF NewConfigs
  <2> QED BY <2>1
<1> QED BY <1>1, <1>2, <1>3, <1>4, <1>5 DEF Ops

\* A call of the Fluent API.
LEMMA WithIsGood ==
  ASSUME NEW b, Good(b), NEW call, call.type \in Types, call.op \in Ops
  PROVE  Good(With(b, call))
<1> DEFINE e == Entered(b, call)
<1>1. Good(e) /\ call.type \in e.metas BY RegisteredIsGood, PushedIsGood DEF Entered
<1> HIDE DEF e
<1>2. CASE call.op = "entity"
  <2>1. With(b, call) = e BY <1>2 DEF With, e
  <2> QED BY <1>1, <2>1
<1>3. CASE call.op # "entity"
  <2> DEFINE configs == NewConfigs(e.configs, call)
  <2>1. /\ configs = [T \in Types |-> configs[T]]
        /\ \A T \in Types : T # call.type => configs[T] = e.configs[T]
    BY <1>1, NewConfigsShape DEF Good, Shaped
  <2> HIDE DEF configs
  <2>2. \A T \in Types : get_query_filter(configs, T) # Nothing => T \in e.metas
    BY <1>1, <2>1 DEF Good, Shaped, FilterOf, get_query_filter
  <2>3. Shaped([metas |-> e.metas, configs |-> configs])
    BY <1>1, <2>1, <2>2 DEF Good, Shaped, FilterOf
  <2>4. Good(Builder(e.metas, configs)) BY <2>3, EmptyIsGood
  <2>5. With(b, call) = Builder(e.metas, configs) BY <1>3 DEF With, e, configs
  <2> QED BY <2>4, <2>5
<1> QED BY <1>2, <1>3

\* build() and filters_by_table() store what they compute.
LEMMA CachingIsGood ==
  ASSUME NEW b, Good(b), NEW n,
         n = Caching(b) \/ n = [b EXCEPT !.built = BuildNow(b)]
  PROVE  /\ Good(n) /\ n.metas = b.metas /\ n.configs = b.configs
         /\ FiltersNow(b) = AllFilters(b)
<1>1. BuildNow(b) = Build(b.metas, b.configs) BY DEF BuildNow, Else, Good, Current
<1>2. FiltersNow(b) = AllFilters(b) BY DEF FiltersNow, AllFilters, Else, Good, Current
<1>3. /\ n = [metas |-> b.metas, configs |-> b.configs, built |-> BuildNow(b), filters |-> n.filters]
      /\ n.filters = b.filters \/ n.filters = FiltersNow(b)
  <2> b = [metas |-> b.metas, configs |-> b.configs, built |-> b.built, filters |-> b.filters]
    BY DEF Good
  <2> QED BY DEF Caching
<1>4. Shaped(n) BY <1>3 DEF Shaped, Good, FilterOf
<1>5. n.metas = b.metas /\ n.configs = b.configs /\ n.built = BuildNow(b) BY <1>3
<1>6. Current(n)
  <2>1. n.built = Build(n.metas, n.configs) BY <1>1, <1>5
  <2>2. n.filters # Nothing => n.filters = FiltersByTable(n.metas, n.configs)
    BY <1>2, <1>3, <1>5 DEF AllFilters, Good, Current
  <2> QED BY <2>1, <2>2 DEF Current
<1>7. n = [metas |-> n.metas, configs |-> n.configs, built |-> n.built, filters |-> n.filters]
  BY <1>3, <1>5
<1> QED BY <1>2, <1>4, <1>5, <1>6, <1>7 DEF Good

LEMMA NewIsGood == Good(NewBuilder)
<1>1. Shaped([metas |-> {}, configs |-> [T \in Types |-> Nothing]])
  BY DEF Shaped, FilterOf, get_query_filter
<1>2. NewBuilder = Builder({}, [T \in Types |-> Nothing]) BY DEF NewBuilder, Builder
<1> QED BY <1>1, <1>2, EmptyIsGood

\* A context starts from what the cache holds.
LEMMA FoundIsGood ==
  ASSUME NEW found, Shaped(found)
  PROVE  Good(from_built(found))
<1>1. Shaped([metas |-> found.metas, configs |-> found.configs]) BY DEF Shaped, FilterOf
<1>2. from_built(found) = Builder(found.metas, found.configs) BY DEF from_built, Builder
<1> QED BY <1>1, <1>2, EmptyIsGood

\* What a build leaves in the cache.
LEMMA DiscoveredIsShaped ==
  ASSUME NEW b, Good(b), NEW k
  PROVE  Shaped(Discovered(b, k))
<1> DEFINE mine == {T \in Types : KeyOf[T] = k}
           configs == [T \in Types |-> IF T \in mine \ b.metas THEN EntryOf(b.configs, T)
                                       ELSE b.configs[T]]
           d == Discovered(b, k)
<1>1. d.metas = b.metas \cup mine /\ d.configs = configs BY DEF Discovered
<1>2. ASSUME NEW T \in Types, get_query_filter(configs, T) # Nothing PROVE T \in b.metas
  <2>1. CASE T \in mine \ b.metas
    <3>1. configs[T] = EntryOf(b.configs, T) BY <2>1
    <3>2. get_query_filter(b.configs, T) # Nothing
      BY <1>2, <3>1 DEF get_query_filter, EntryOf, Else, Default
    <3> QED BY <3>2 DEF Good, Shaped, FilterOf
  <2>2. CASE T \notin mine \ b.metas
    <3>1. configs[T] = b.configs[T] BY <2>2
    <3> QED BY <1>2, <3>1 DEF get_query_filter, Good, Shaped, FilterOf
  <2> QED BY <2>1, <2>2
<1> QED BY <1>1, <1>2 DEF Good, Shaped, FilterOf

-----------------------------------------------------------------------------
(* The caches of a builder.                                                 *)

BuilderInv ==
  /\ key \in [Requests -> Keys] /\ position \in Nat
  /\ builder = [r \in Requests |-> builder[r]]
  /\ \A r \in Requests : Good(builder[r])
  /\ \A k \in DOMAIN cache : Shaped(cache[k])

LEMMA BuilderInit == Init => BuilderInv
<1> SUFFICES ASSUME Init PROVE BuilderInv OBVIOUS
<1>1. \A r \in Requests : builder[r] = NewBuilder BY DEF Init
<1> QED BY <1>1, NewIsGood DEF Init, BuilderInv, NoCache

\* One request's builder changes to a good one, and the cache keeps its shape.
LEMMA OneBuilder ==
  ASSUME BuilderInv, NEW r \in Requests, NEW b, Good(b),
         builder' = [builder EXCEPT ![r] = b],
         key' = key, position' \in Nat,
         \A k \in DOMAIN cache' : Shaped(cache'[k])
  PROVE  BuilderInv'
<1>1. \A x \in Requests : builder'[x] = IF x = r THEN b ELSE builder[x] BY DEF BuilderInv
<1>2. \A x \in Requests : Good(builder'[x]) BY <1>1 DEF BuilderInv
<1>3. builder' = [x \in Requests |-> builder'[x]] BY DEF BuilderInv
<1>4. \A x \in Requests : Good(builder[x])' BY <1>2 DEF Good, Shaped, Current, FilterOf
<1>5. \A k \in DOMAIN cache' : Shaped(cache[k])' OBVIOUS
<1> QED BY <1>3, <1>4, <1>5 DEF BuilderInv

\* No builder changes.
LEMMA SameBuilders ==
  ASSUME BuilderInv, builder' = builder, key' = key, position' \in Nat,
         \A k \in DOMAIN cache' : Shaped(cache'[k])
  PROVE  BuilderInv'
BY DEF BuilderInv

\* What a registration does is good, whatever key it is for.
LEMMA ApplyFnIsGood ==
  ASSUME NEW b, Good(b), NEW k, NEW n \in DOMAIN Configurations
  PROVE  Good(ApplyFn(b, k, Configurations[n]))
<1> DEFINE step == Configurations[n]
<1>1. step.type \in Types /\ step.op \in Ops BY ModelAssumption
<1> HIDE DEF step
<1>2. Good(Registered(b, step.type)) BY <1>1, RegisteredIsGood
<1>3. Good(With(Registered(b, step.type), step)) BY <1>1, <1>2, WithIsGood
<1>4. Good(ApplyFn(b, k, step)) BY <1>3 DEF ApplyFn
<1> QED BY <1>4 DEF step

\* At most the cache of the built model is filled.
Fills(r) == builder' = builder \/ builder' = [builder EXCEPT ![r].built = BuildNow(builder[r])]

\* The statements about T.
Sending(r, T) ==
  \/ Query(r, T) \/ Find(r, T) \/ Insert(r, T) \/ Upsert(r, T) \/ Update(r, T) \/ Delete(r, T)
  \/ SelfReference(r, T) \/ \E U \in Types : Include(r, U, T) \/ Cascade(r, U, T)

\* Apart from the statement, sending one changes the cache of the builder only.
LEMMA SendingIs ==
  ASSUME NEW r \in Requests, NEW T \in Types, Sending(r, T)
  PROVE  /\ Working(r) /\ Fills(r)
         /\ UNCHANGED <<cache, writer, poisoned, position, at, key, sets, created, asked,
                        builds, panics, begun, called>>
<1>1. ASSUME NEW what, NEW where, Reading(r, T, what, where)
      PROVE  /\ Working(r) /\ Fills(r)
             /\ UNCHANGED <<cache, writer, poisoned, position, at, key, sets, created, asked,
                            builds, panics, begun, called>>
  BY <1>1 DEF Reading, Send, Fills
<1>2. ASSUME NEW what, NEW where, NEW filter, Writes(r, T, what, where, filter)
      PROVE  /\ Working(r) /\ Fills(r)
             /\ UNCHANGED <<cache, writer, poisoned, position, at, key, sets, created, asked,
                            builds, panics, begun, called>>
  BY <1>2 DEF Writes, Send, Saving, Fills
<1>3. ASSUME NEW U \in Types, NEW what, NEW filter, Along(r, U, T, what, filter)
      PROVE  /\ Working(r)
             /\ UNCHANGED <<cache, writer, poisoned, position, at, key, sets, created, asked,
                            builds, panics, begun, called>>
  BY <1>3 DEF Along, Send
<1>4. CASE Query(r, T) \/ Find(r, T) BY <1>1, <1>4 DEF Query, Find
<1>5. CASE Insert(r, T) \/ Upsert(r, T) \/ Update(r, T) \/ Delete(r, T) \/ SelfReference(r, T)
  BY <1>2, <1>5 DEF Insert, Upsert, Update, Delete, SelfReference
<1>6. CASE \E U \in Types : Include(r, U, T) \/ Cascade(r, U, T)
  BY <1>3, <1>6 DEF Include, Cascade, Saving, Fills
<1> QED BY <1>4, <1>5, <1>6 DEF Sending

\* The steps of a request.
LEMMA NextIs ==
  ASSUME Next
  PROVE  \E r \in Requests :
           \/ Begin(r) \/ ReadCache(r) \/ WriteCache(r)
           \/ Configured(r) \/ Panic(r) \/ FinishBuild(r)
           \/ \E call \in Calls : Configure(r, call)
           \/ \E T \in Types : GetSet(r, T)
           \/ \E T \in Types : Sending(r, T)
           \/ EnsureCreated(r) \/ Close(r)
BY DEF Next, Sending

LEMMA BuilderNext == BuilderInv /\ [Next]_vars => BuilderInv'
<1> SUFFICES ASSUME BuilderInv, [Next]_vars PROVE BuilderInv' OBVIOUS
<1>0. \A k \in DOMAIN NoCache : Shaped(NoCache[k]) BY DEF NoCache
<1>1. ASSUME NEW r \in Requests, NEW found, Shaped(found), Open(r, found), position' \in Nat,
             \A k \in DOMAIN cache' : Shaped(cache'[k])
      PROVE  BuilderInv'
  <2>1. Good(from_built(found)) BY <1>1, FoundIsGood
  <2> QED BY <1>1, <2>1, OneBuilder DEF Open
<1>2. ASSUME NEW r \in Requests, Drop(r), cache' = cache, position' = position
      PROVE  BuilderInv'
  BY <1>2, OneBuilder, NewIsGood DEF Drop, BuilderInv
<1>3. ASSUME NEW r \in Requests, Begin(r) PROVE BuilderInv'
  BY <1>3, SameBuilders DEF Begin, GoTo, BuilderInv
<1>4. ASSUME NEW r \in Requests, ReadCache(r) PROVE BuilderInv'
  <2>1. cache' = cache /\ position' = position /\ position \in Nat
    BY <1>4 DEF ReadCache, BuilderInv
  <2>2. CASE Open(r, cache[key[r]]) /\ key[r] \in DOMAIN cache
    BY <2>1, <2>2, <1>1 DEF BuilderInv
  <2>3. CASE GoTo(r, "write") BY <2>1, <2>3, SameBuilders DEF GoTo, BuilderInv
  <2> QED BY <1>4, <2>2, <2>3 DEF ReadCache
<1>5. ASSUME NEW r \in Requests, WriteCache(r) PROVE BuilderInv'
  <2> DEFINE now == IF poisoned THEN NoCache ELSE cache
  <2>1. cache' = now /\ \A k \in DOMAIN now : Shaped(now[k])
    BY <1>5, <1>0 DEF WriteCache, BuilderInv
  <2>2. CASE key[r] \in DOMAIN now
    <3>1. Open(r, now[key[r]]) /\ position' = position BY <1>5, <2>2 DEF WriteCache
    <3> QED BY <2>1, <2>2, <3>1, <1>1 DEF BuilderInv
  <2>3. CASE key[r] \notin DOMAIN now
    <3>1. builder' = builder /\ key' = key /\ position' = 0 BY <1>5, <2>3 DEF WriteCache
    <3> QED BY <2>1, <3>1, SameBuilders
  <2> QED BY <2>2, <2>3
<1>6. ASSUME NEW r \in Requests, Configured(r) PROVE BuilderInv'
  <2>1. position \in Nat /\ position' = position + 1 /\ position < Len(Configurations)
    BY <1>6 DEF Configured, BuilderInv
  <2>2. position' \in DOMAIN Configurations /\ position' \in Nat BY <2>1, ModelAssumption
  <2> DEFINE b == ApplyFn(builder[r], key[r], Configurations[position'])
  <2>3. Good(b) BY <2>2, ApplyFnIsGood DEF BuilderInv
  <2>4. builder' = [builder EXCEPT ![r] = b] /\ key' = key /\ cache' = cache
    BY <1>6 DEF Configured
  <2> HIDE DEF b
  <2> QED BY <2>2, <2>3, <2>4, OneBuilder DEF BuilderInv
<1>7. ASSUME NEW r \in Requests, Panic(r) PROVE BuilderInv'
  BY <1>7, <1>2 DEF Panic
<1>8. ASSUME NEW r \in Requests, FinishBuild(r) PROVE BuilderInv'
  <2> DEFINE found == Discovered(builder[r], key[r])
  <2>1. Shaped(found) BY DiscoveredIsShaped DEF BuilderInv
  <2>2. /\ Open(r, found) /\ position' = position
        /\ cache' = [k \in DOMAIN cache \cup {key[r]} |-> IF k = key[r] THEN found ELSE cache[k]]
    BY <1>8 DEF FinishBuild
  <2> HIDE DEF found
  <2>3. \A k \in DOMAIN cache' : Shaped(cache'[k]) BY <2>1, <2>2 DEF BuilderInv
  <2> QED BY <2>1, <2>2, <2>3, <1>1 DEF BuilderInv
<1>9. ASSUME NEW r \in Requests, NEW call \in Calls, Configure(r, call) PROVE BuilderInv'
  <2>1. Good(With(builder[r], call)) BY WithIsGood, ModelAssumption DEF BuilderInv
  <2> QED BY <1>9, <2>1, OneBuilder DEF Configure, Ask, BuilderInv
<1>10. ASSUME NEW r \in Requests, NEW T \in Types, GetSet(r, T) PROVE BuilderInv'
  <2> DEFINE b == Holding(builder[r], T)
  <2>1. Good(b) BY HoldingIsGood DEF BuilderInv
  <2>2. Good(Caching(b)) BY <2>1, CachingIsGood
  <2>3. builder' = [builder EXCEPT ![r] = Caching(b)] /\ UNCHANGED <<key, position, cache>>
    BY <1>10 DEF GetSet, Ask
  <2> HIDE DEF b
  <2> QED BY <2>2, <2>3, OneBuilder DEF BuilderInv
<1>11. ASSUME NEW r \in Requests, UNCHANGED <<key, position, cache>>, Fills(r) PROVE BuilderInv'
  <2> DEFINE b == [builder[r] EXCEPT !.built = BuildNow(builder[r])]
  <2>1. CASE builder' = builder BY <1>11, <2>1, SameBuilders DEF BuilderInv
  <2>2. CASE builder' # builder
    <3>1. Good(b) BY CachingIsGood DEF BuilderInv
    <3>2. builder' = [builder EXCEPT ![r] = b] BY <1>11, <2>2 DEF Fills
    <3> HIDE DEF b
    <3> QED BY <1>11, <3>1, <3>2, OneBuilder DEF BuilderInv
  <2> QED BY <2>1, <2>2
<1>12. ASSUME NEW r \in Requests, NEW T \in Types, Sending(r, T) PROVE BuilderInv'
  BY <1>11, <1>12, SendingIs
<1>13. ASSUME NEW r \in Requests, EnsureCreated(r) PROVE BuilderInv'
  BY <1>11, <1>13 DEF EnsureCreated, Fills
<1>14. ASSUME NEW r \in Requests, Close(r) PROVE BuilderInv'
  BY <1>14, <1>2 DEF Close
<1>15. CASE UNCHANGED vars BY <1>15, SameBuilders DEF vars, BuilderInv
<1> QED BY <1>3, <1>4, <1>5, <1>6, <1>7, <1>8, <1>9, <1>10, <1>11, <1>12, <1>13, <1>14, <1>15, NextIs

\* Whatever a builder has cached is what it would compute now, for every set
\* of types, configurations and calls (invalidate_cache and the two calls that
\* do without it).
THEOREM CachesStayCurrent == Spec => []CachesAreCurrent
<1>1. BuilderInv => CachesAreCurrent BY DEF BuilderInv, Good, CachesAreCurrent
<1> QED BY BuilderInit, BuilderNext, <1>1, PTL DEF Spec

-----------------------------------------------------------------------------
(* The cache of the process.                                                *)

\* A request builds exactly while it holds the write lock, and what it builds
\* is not in the cache; a key that was built is there, until a panic.
LockInv ==
  /\ key \in [Requests -> Keys] /\ at = [r \in Requests |-> at[r]]
  /\ panics \in Nat /\ builds \in [Keys -> Nat]
  /\ panics = 0 => ~poisoned
  /\ \A r \in Requests : at[r] = "build" => writer = r /\ key[r] \notin DOMAIN cache
  /\ panics = 0 => \A k \in Keys : builds[k] <= 1 /\ (builds[k] = 1 => k \in DOMAIN cache)

LEMMA LockNext == LockInv /\ [Next]_vars => LockInv'
<1> SUFFICES ASSUME LockInv, [Next]_vars PROVE LockInv' OBVIOUS
<1>0. Nothing \notin Requests BY ModelAssumption
<1>1. ASSUME NEW r \in Requests, Begin(r) PROVE LockInv'
  BY <1>1 DEF LockInv, Begin, GoTo
<1>2. ASSUME NEW r \in Requests, ReadCache(r) PROVE LockInv'
  BY <1>2 DEF LockInv, ReadCache, Open, GoTo
<1>3. ASSUME NEW r \in Requests, WriteCache(r) PROVE LockInv'
  <2> DEFINE now == IF poisoned THEN NoCache ELSE cache
  <2>1. \A x \in Requests : at[x] # "build" BY <1>0, <1>3 DEF LockInv, WriteCache
  <2>2. cache' = now /\ (panics = 0 => now = cache) BY <1>3 DEF LockInv, WriteCache
  <2>3. UNCHANGED <<key, panics, builds, poisoned>> BY <1>3 DEF WriteCache, Open
  <2>4. CASE key[r] \in DOMAIN now
    BY <1>3, <2>1, <2>2, <2>3, <2>4 DEF LockInv, WriteCache, Open
  <2>5. CASE key[r] \notin DOMAIN now
    <3>1. writer' = r /\ at' = [at EXCEPT ![r] = "build"] BY <1>3, <2>5 DEF WriteCache
    <3> QED BY <2>1, <2>2, <2>3, <2>5, <3>1 DEF LockInv
  <2> QED BY <2>4, <2>5
<1>4. ASSUME NEW r \in Requests, Configured(r) PROVE LockInv'
  BY <1>4 DEF LockInv, Configured
<1>5. ASSUME NEW r \in Requests, Panic(r) PROVE LockInv'
  <2>1. \A x \in Requests : at[x] = "build" => x = r BY <1>5 DEF LockInv, Panic
  <2>2. panics' \in Nat /\ panics' # 0 BY <1>5 DEF LockInv, Panic
  <2> QED BY <1>5, <2>1, <2>2 DEF LockInv, Panic, Drop
<1>6. ASSUME NEW r \in Requests, FinishBuild(r) PROVE LockInv'
  <2>1. \A x \in Requests : at[x] = "build" => x = r BY <1>6 DEF LockInv, FinishBuild
  <2>2. /\ at' = [at EXCEPT ![r] = "open"] /\ UNCHANGED <<key, panics, poisoned>>
        /\ builds' = [builds EXCEPT ![key[r]] = @ + 1]
        /\ DOMAIN cache' = DOMAIN cache \cup {key[r]}
    BY <1>6 DEF FinishBuild, Open
  <2>3. \A x \in Requests : at'[x] # "build" BY <2>1, <2>2 DEF LockInv
  <2>4. key[r] \in Keys /\ key[r] \notin DOMAIN cache BY <1>6 DEF LockInv, FinishBuild
  <2>5. panics = 0 => builds[key[r]] = 0 BY <2>4 DEF LockInv
  <2>6. builds' \in [Keys -> Nat] BY <2>2, <2>4 DEF LockInv
  <2>7. panics = 0 => \A k \in Keys : builds'[k] <= 1 /\ (builds'[k] = 1 => k \in DOMAIN cache')
    BY <2>2, <2>4, <2>5 DEF LockInv
  <2> QED BY <2>2, <2>3, <2>6, <2>7 DEF LockInv
<1>7. ASSUME NEW r \in Requests, NEW T \in Types,
             GetSet(r, T) \/ Sending(r, T)
      PROVE  LockInv'
  <2>1. UNCHANGED <<cache, writer, poisoned, at, key, builds, panics>>
    BY <1>7, SendingIs DEF GetSet, Ask
  <2> QED BY <2>1 DEF LockInv
<1>8. ASSUME NEW r \in Requests, (\E call \in Calls : Configure(r, call)) \/ EnsureCreated(r)
      PROVE  LockInv'
  <2>1. UNCHANGED <<cache, writer, poisoned, at, key, builds, panics>>
    BY <1>8 DEF Configure, Ask, EnsureCreated
  <2> QED BY <2>1 DEF LockInv
<1>9. ASSUME NEW r \in Requests, Close(r) PROVE LockInv'
  BY <1>9 DEF LockInv, Close, Drop
<1>10. CASE UNCHANGED vars BY <1>10 DEF vars, LockInv
<1> QED BY <1>1, <1>2, <1>3, <1>4, <1>5, <1>6, <1>7, <1>8, <1>9, <1>10, NextIs

\* Unless a configure() panics, the model of a key is built once, for any
\* number of requests that find the cache empty together (get_or_build).
THEOREM ModelIsBuiltOnce == Spec => []BuiltOnce
<1>1. Init => LockInv BY DEF Init, LockInv
<1>2. LockInv => BuiltOnce BY DEF LockInv, BuiltOnce
<1> QED BY <1>1, LockNext, <1>2, PTL DEF Spec

-----------------------------------------------------------------------------
(* The filters that statements carry.                                       *)

Asked == Calls \cup {[op |-> "set", type |-> T] : T \in Types}

\* The set was taken, and only sets were after it.
Taken(r, T) ==
  /\ sets[r][T] # Nothing
  /\ \E i \in DOMAIN asked[r] :
        /\ asked[r][i] = [op |-> "set", type |-> T]
        /\ \A j \in (i + 1)..Len(asked[r]) : asked[r][j].op = "set"

\* What a set has copied is what the builder has now.
Copies(s, b, T) == s.filter = FilterOf(b, T) /\ s.filters = AllFilters(b)

\* A statement has the filter of its type if it is of a kind that has one.
CarriesFilter(statement, b) ==
  /\ statement.type \in Types
  /\ statement.what \in Filtered => statement.filter = FilterOf(b, statement.type)

Scope(r) ==
  /\ sets[r] = [T \in Types |-> sets[r][T]]
  /\ asked[r] \in Seq(Asked)
  /\ at[r] # "open" => /\ \A T \in Types : sets[r][T] = Nothing
                       /\ sent[r] = Nothing
  /\ \A T \in Types : Taken(r, T) => Copies(sets[r][T], builder[r], T)
  /\ sent[r] # Nothing => CarriesFilter(sent[r], builder[r])

ScopeInv ==
  /\ BuilderInv
  /\ at = [r \in Requests |-> at[r]] /\ sets = [r \in Requests |-> sets[r]]
  /\ asked = [r \in Requests |-> asked[r]] /\ sent = [r \in Requests |-> sent[r]]
  /\ \A r \in Requests : Scope(r)

LEMMA ScopeInit == Init => ScopeInv
<1> SUFFICES ASSUME Init PROVE ScopeInv OBVIOUS
<1>1. /\ at = [r \in Requests |-> at[r]] /\ sets = [r \in Requests |-> sets[r]]
      /\ asked = [r \in Requests |-> asked[r]] /\ sent = [r \in Requests |-> sent[r]]
  BY DEF Init
<1>2. ASSUME NEW r \in Requests PROVE Scope(r)
  <2>1. /\ sets[r] = [T \in Types |-> Nothing] /\ asked[r] = <<>> /\ sent[r] = Nothing
    BY DEF Init
  <2>2. \A T \in Types : sets[r][T] = Nothing BY <2>1
  <2>3. sets[r] = [T \in Types |-> sets[r][T]] BY <2>1
  <2>4. asked[r] \in Seq(Asked) BY <2>1
  <2> QED BY <2>1, <2>2, <2>3, <2>4 DEF Scope, Taken
<1> QED BY <1>1, <1>2, BuilderInit DEF ScopeInv

\* A request that is not concerned stays as it is.
LEMMA ScopeStays ==
  ASSUME NEW r, Scope(r),
         at'[r] = at[r], sets'[r] = sets[r], asked'[r] = asked[r], sent'[r] = sent[r],
         \A T \in Types : FilterOf(builder'[r], T) = FilterOf(builder[r], T),
         AllFilters(builder'[r]) = AllFilters(builder[r])
  PROVE  Scope(r)'
<1>1. \A T \in Types : Taken(r, T)' => Taken(r, T) BY DEF Taken
<1>2. \A T \in Types : Taken(r, T)' => Copies(sets[r][T], builder[r], T)'
  BY <1>1 DEF Scope, Copies, FilterOf, AllFilters
<1>3. (sent[r] # Nothing)' => CarriesFilter(sent'[r], builder'[r])
  BY DEF Scope, CarriesFilter
<1> QED BY <1>2, <1>3 DEF Scope, CarriesFilter, FilterOf

\* A request without a context has no sets and has sent nothing.
LEMMA ScopeEmpty ==
  ASSUME NEW r, \A T \in Types : sets'[r][T] = Nothing, sent'[r] = Nothing,
         sets'[r] = [T \in Types |-> sets'[r][T]], asked'[r] \in Seq(Asked)
  PROVE  Scope(r)'
BY DEF Scope, Taken

\* A step of r leaves the other requests alone.
LEMMA OnlyOne ==
  ASSUME ScopeInv, BuilderInv', NEW r \in Requests, Scope(r)',
         NEW a, at' = [at EXCEPT ![r] = a],
         NEW s, sets' = [sets EXCEPT ![r] = s],
         NEW c, asked' = [asked EXCEPT ![r] = c],
         NEW m, sent' = [sent EXCEPT ![r] = m],
         NEW b, builder' = [builder EXCEPT ![r] = b]
  PROVE  ScopeInv'
<1>1. ASSUME NEW x \in Requests, x # r PROVE Scope(x)'
  <2>1. /\ at'[x] = at[x] /\ sets'[x] = sets[x] /\ asked'[x] = asked[x] /\ sent'[x] = sent[x]
        /\ builder'[x] = builder[x]
    BY <1>1 DEF ScopeInv, BuilderInv
  <2>2. Scope(x) BY DEF ScopeInv
  <2> QED BY <2>1, <2>2, ScopeStays
<1>2. /\ at' = [x \in Requests |-> at'[x]] /\ sets' = [x \in Requests |-> sets'[x]]
      /\ asked' = [x \in Requests |-> asked'[x]] /\ sent' = [x \in Requests |-> sent'[x]]
  BY DEF ScopeInv
<1>3. \A x \in Requests : Scope(x)' BY <1>1
<1> QED BY <1>2, <1>3 DEF ScopeInv

\* A step of a request that has no context, or loses it.
LEMMA ScopeOutside ==
  ASSUME ScopeInv, BuilderInv', NEW r \in Requests,
         \/ Begin(r) \/ ReadCache(r) \/ WriteCache(r) \/ Configured(r)
         \/ Panic(r) \/ FinishBuild(r) \/ Close(r)
  PROVE  ScopeInv'
<1>0. /\ at[r] # "open" => sets[r] = [T \in Types |-> Nothing] /\ sent[r] = Nothing
      /\ asked[r] \in Seq(Asked)
  BY DEF ScopeInv, Scope
<1>1. ASSUME NEW a, at' = [at EXCEPT ![r] = a], at[r] # "open", UNCHANGED <<sets, asked, sent>>,
             NEW b, builder' = [builder EXCEPT ![r] = b]
      PROVE  ScopeInv'
  <2>1. Scope(r)' BY <1>0, <1>1, ScopeEmpty
  <2>2. /\ sets' = [sets EXCEPT ![r] = sets[r]] /\ asked' = [asked EXCEPT ![r] = asked[r]]
        /\ sent' = [sent EXCEPT ![r] = sent[r]]
    BY <1>1 DEF ScopeInv
  <2> QED BY <1>1, <2>1, <2>2, OnlyOne
<1>2. ASSUME Drop(r) PROVE ScopeInv'
  <2>1. /\ sets'[r] = [T \in Types |-> Nothing] /\ sent'[r] = Nothing /\ asked'[r] = <<>>
    BY <1>2 DEF Drop, ScopeInv
  <2>2. \A T \in Types : sets'[r][T] = Nothing BY <2>1
  <2>3. sets'[r] = [T \in Types |-> sets'[r][T]] /\ asked'[r] \in Seq(Asked) BY <2>1
  <2>4. Scope(r)' BY <2>1, <2>2, <2>3, ScopeEmpty
  <2> QED BY <1>2, <2>4, OnlyOne DEF Drop
<1>3. builder = [builder EXCEPT ![r] = builder[r]] /\ at = [at EXCEPT ![r] = at[r]]
  BY DEF ScopeInv, BuilderInv
<1>4. CASE Panic(r) \/ Close(r) BY <1>2, <1>4 DEF Panic, Close
<1>5. CASE Begin(r) BY <1>1, <1>3, <1>5 DEF Begin, GoTo, own
<1>6. CASE ReadCache(r)
  <2>1. CASE Open(r, cache[key[r]]) BY <1>1, <1>6, <2>1 DEF ReadCache, Open, own
  <2>2. CASE GoTo(r, "write") BY <1>1, <1>3, <1>6, <2>2 DEF ReadCache, GoTo, own
  <2> QED BY <1>6, <2>1, <2>2 DEF ReadCache
<1>7. CASE WriteCache(r)
  <2> DEFINE now == IF poisoned THEN NoCache ELSE cache
  <2>1. CASE key[r] \in DOMAIN now
    <3>1. Open(r, now[key[r]]) /\ at[r] # "open" BY <1>7, <2>1 DEF WriteCache
    <3> QED BY <1>1, <3>1 DEF Open, own
  <2>2. CASE key[r] \notin DOMAIN now
    <3>1. /\ at[r] # "open" /\ at' = [at EXCEPT ![r] = "build"]
          /\ UNCHANGED <<builder, sets, asked, sent>>
      BY <1>7, <2>2 DEF WriteCache, own
    <3> QED BY <1>1, <1>3, <3>1
  <2> QED BY <2>1, <2>2
<1>8. CASE Configured(r)
  <2> DEFINE b == ApplyFn(builder[r], key[r], Configurations[position'])
  <2>1. /\ at[r] # "open" /\ at' = at /\ UNCHANGED <<sets, asked, sent>>
        /\ builder' = [builder EXCEPT ![r] = b]
    BY <1>8 DEF Configured, own
  <2> HIDE DEF b
  <2> QED BY <1>1, <1>3, <2>1
<1>9. CASE FinishBuild(r)
  <2>1. Open(r, Discovered(builder[r], key[r])) /\ at[r] # "open" BY <1>9 DEF FinishBuild
  <2> QED BY <1>1, <2>1 DEF Open, own
<1> QED BY <1>4, <1>5, <1>6, <1>7, <1>8, <1>9

\* After a call on the builder no set counts any more.
LEMMA NoneTaken ==
  ASSUME NEW r, NEW S, asked[r] \in Seq(S), NEW call \in S, call.op # "set",
         asked'[r] = Append(asked[r], call)
  PROVE  \A T \in Types : ~Taken(r, T)'
<1> SUFFICES ASSUME NEW T \in Types, NEW i \in DOMAIN asked'[r],
                    asked'[r][i] = [op |-> "set", type |-> T],
                    \A j \in (i + 1)..Len(asked'[r]) : asked'[r][j].op = "set"
             PROVE  FALSE
  BY DEF Taken
<1>1. /\ Len(asked'[r]) = Len(asked[r]) + 1 /\ asked'[r][Len(asked[r]) + 1] = call
      /\ DOMAIN asked'[r] = 1..(Len(asked[r]) + 1) /\ Len(asked[r]) \in Nat
  OBVIOUS
<1>2. CASE i = Len(asked[r]) + 1
  <2>1. asked'[r][i] = call BY <1>1, <1>2
  <2>2. [op |-> "set", type |-> T].op = "set" OBVIOUS
  <2> QED BY <2>1, <2>2
<1>3. CASE i # Len(asked[r]) + 1
  <2>1. i \in Int /\ i <= Len(asked[r]) BY <1>1, <1>3
  <2>2. Len(asked[r]) + 1 \in (i + 1)..Len(asked'[r]) BY <1>1, <2>1
  <2> QED BY <1>1, <2>2
<1> QED BY <1>2, <1>3

\* Taking a set leaves the sets that count as they are.
LEMMA TakenBefore ==
  ASSUME NEW r, NEW S, asked[r] \in Seq(S), NEW T \in Types, NEW U \in Types, U # T,
         [op |-> "set", type |-> T] \in S,
         asked'[r] = Append(asked[r], [op |-> "set", type |-> T]),
         sets'[r][U] = sets[r][U], Taken(r, U)'
  PROVE  Taken(r, U)
<1> DEFINE call == [op |-> "set", type |-> T]
<1>1. PICK i \in DOMAIN asked'[r] :
         /\ asked'[r][i] = [op |-> "set", type |-> U]
         /\ \A j \in (i + 1)..Len(asked'[r]) : asked'[r][j].op = "set"
  BY DEF Taken
<1>2. /\ Len(asked'[r]) = Len(asked[r]) + 1 /\ asked'[r][Len(asked[r]) + 1] = call
      /\ DOMAIN asked'[r] = 1..(Len(asked[r]) + 1) /\ Len(asked[r]) \in Nat
      /\ DOMAIN asked[r] = 1..Len(asked[r])
      /\ \A j \in DOMAIN asked[r] : asked'[r][j] = asked[r][j]
  OBVIOUS
<1>3. i # Len(asked[r]) + 1
  <2> SUFFICES ASSUME i = Len(asked[r]) + 1 PROVE FALSE OBVIOUS
  <2>1. [op |-> "set", type |-> U] = call BY <1>1, <1>2
  <2> QED BY <2>1
<1>4. i \in DOMAIN asked[r] BY <1>1, <1>2, <1>3
<1>5. ASSUME NEW j \in (i + 1)..Len(asked[r]) PROVE asked[r][j].op = "set"
  <2>1. j \in (i + 1)..Len(asked'[r]) /\ j \in DOMAIN asked[r] BY <1>2, <1>4
  <2>2. asked'[r][j].op = "set" /\ asked'[r][j] = asked[r][j] BY <1>1, <1>2, <2>1
  <2> QED BY <2>2
<1> QED BY <1>1, <1>2, <1>4, <1>5 DEF Taken

\* A call on the builder: no set that was taken counts any more.
LEMMA ScopeConfigure ==
  ASSUME ScopeInv, BuilderInv', NEW r \in Requests, NEW call \in Calls, Configure(r, call)
  PROVE  ScopeInv'
<1>1. /\ at[r] = "open" /\ at' = at /\ sets' = sets
      /\ asked' = [asked EXCEPT ![r] = Append(asked[r], call)]
      /\ sent' = [sent EXCEPT ![r] = Nothing]
      /\ builder' = [builder EXCEPT ![r] = With(builder[r], call)]
  BY DEF Configure, Ask
<1>2. asked[r] \in Seq(Asked) /\ sets[r] = [T \in Types |-> sets[r][T]] BY DEF ScopeInv, Scope
<1>3. asked'[r] = Append(asked[r], call) /\ at'[r] = "open" /\ sent'[r] = Nothing
  BY <1>1 DEF ScopeInv
<1>4. call.op # "set" BY ModelAssumption DEF Ops
<1>5. \A T \in Types : ~Taken(r, T)' BY <1>2, <1>3, <1>4, NoneTaken DEF Asked
<1>6. asked'[r] \in Seq(Asked) BY <1>2, <1>3 DEF Asked
<1>7. Scope(r)' BY <1>1, <1>2, <1>3, <1>5, <1>6 DEF Scope
<1>8. at' = [at EXCEPT ![r] = at[r]] /\ sets' = [sets EXCEPT ![r] = sets[r]]
  BY <1>1 DEF ScopeInv
<1> QED BY <1>1, <1>7, <1>8, OnlyOne

\* set::<T>() keeps the filters, so the sets taken just before still fit.
LEMMA ScopeGetSet ==
  ASSUME ScopeInv, BuilderInv', NEW r \in Requests, NEW T \in Types, GetSet(r, T)
  PROVE  ScopeInv'
<1> DEFINE b == Holding(builder[r], T)
           n == Caching(b)
           set == SetOf(b, T)
           call == [op |-> "set", type |-> T]
<1>1. /\ at[r] = "open" /\ at' = at /\ sets[r][T] = Nothing
      /\ sets' = [sets EXCEPT ![r][T] = set]
      /\ asked' = [asked EXCEPT ![r] = Append(asked[r], call)]
      /\ sent' = [sent EXCEPT ![r] = Nothing]
      /\ builder' = [builder EXCEPT ![r] = n]
  BY DEF GetSet, Ask
<1>2. Scope(r) /\ Good(builder[r]) BY DEF ScopeInv, BuilderInv
<1>3. /\ Good(b) /\ \A U \in Types : FilterOf(b, U) = FilterOf(builder[r], U)
      /\ AllFilters(b) = AllFilters(builder[r])
  BY <1>2, HoldingIsGood
<1>4. /\ \A U \in Types : FilterOf(n, U) = FilterOf(builder[r], U)
      /\ AllFilters(n) = AllFilters(builder[r]) /\ FiltersNow(b) = AllFilters(builder[r])
  <2> HIDE DEF b
  <2>1. n.metas = b.metas /\ n.configs = b.configs /\ FiltersNow(b) = AllFilters(b)
    BY <1>3, CachingIsGood
  <2> HIDE DEF n
  <2> QED BY <1>3, <2>1 DEF FilterOf, AllFilters
<1>5. set.filter = FilterOf(builder[r], T) /\ set.filters = AllFilters(builder[r])
  <2>1. set.filter = FilterOf(b, T) /\ set.filters = FiltersNow(b) BY DEF SetOf, FilterOf
  <2> QED BY <1>3, <1>4, <2>1
<1> HIDE DEF b, n, set
<1>6. /\ asked[r] \in Seq(Asked) /\ call \in Asked /\ sets[r] = [U \in Types |-> sets[r][U]]
  BY <1>2 DEF Scope, Asked
<1>7. /\ asked'[r] = Append(asked[r], call) /\ at'[r] = "open" /\ sent'[r] = Nothing
      /\ builder'[r] = n /\ sets'[r] = [sets[r] EXCEPT ![T] = set]
  BY <1>1 DEF ScopeInv, BuilderInv
<1>8. ASSUME NEW U \in Types, Taken(r, U)' PROVE Copies(sets[r][U], builder[r], U)'
  <2>1. CASE U = T
    <3>1. sets'[r][U] = set BY <1>6, <1>7, <2>1
    <3> QED BY <1>4, <1>5, <1>7, <2>1, <3>1 DEF Copies, FilterOf, AllFilters
  <2>2. CASE U # T
    <3>1. sets'[r][U] = sets[r][U] BY <1>6, <1>7, <2>2
    <3>2. Taken(r, U) BY <1>6, <1>7, <1>8, <2>2, <3>1, TakenBefore
    <3>3. Copies(sets[r][U], builder[r], U) BY <1>2, <3>2 DEF Scope
    <3> QED BY <1>4, <1>7, <3>1, <3>3 DEF Copies, FilterOf, AllFilters
  <2> QED BY <2>1, <2>2
<1>9. sets'[r] = [U \in Types |-> sets'[r][U]] /\ asked'[r] \in Seq(Asked)
  BY <1>6, <1>7
<1>10. Scope(r)' BY <1>7, <1>8, <1>9 DEF Scope
<1>11. at' = [at EXCEPT ![r] = at[r]] /\ sets' = [sets EXCEPT ![r] = [sets[r] EXCEPT ![T] = set]]
  BY <1>1 DEF ScopeInv
<1> QED BY <1>1, <1>10, <1>11, OnlyOne

\* A statement takes its filter from a set that still fits.
LEMMA ScopeStatement ==
  ASSUME ScopeInv, NEW r \in Requests, NEW T \in Types, "configure after set" \notin Uses,
         Sending(r, T)
  PROVE  \E m : sent' = [sent EXCEPT ![r] = m] /\ CarriesFilter(m, builder[r])
<1> DEFINE table == Compiled[T].table
           mine == FilterOf(builder[r], T)
           beside(U) == IF table \in DOMAIN sets[r][U].filters
                        THEN sets[r][U].filters[table] ELSE Nothing
<1>1. Scope(r) /\ Good(builder[r]) BY DEF ScopeInv, BuilderInv
<1>2. \A U \in Types : UsesSet(r, U) => Taken(r, U) BY DEF UsesSet, Taken, Used
<1>3. \A U \in Types : UsesSet(r, U) => sets[r][U].filter = FilterOf(builder[r], U)
                                      /\ sets[r][U].filters = AllFilters(builder[r])
  BY <1>1, <1>2 DEF Scope, Copies
<1>4. ASSUME NEW U \in Types, UsesSet(r, U) PROVE beside(U) = mine
  BY <1>1, <1>3, <1>4, FilterByName DEF Good
<1>5. ASSUME NEW what, NEW name, NEW meta, NEW where, NEW filter,
             what \in Filtered => filter = mine
      PROVE  CarriesFilter(Statement(what, T, name, meta, where, filter), builder[r])
  BY <1>5 DEF CarriesFilter, Statement
<1> HIDE DEF mine
<1>6. ASSUME NEW what, NEW where, Reading(r, T, what, where)
      PROVE  \E m : sent' = [sent EXCEPT ![r] = m] /\ CarriesFilter(m, builder[r])
  <2> DEFINE m == Statement(what, T, sets[r][T].table, Compiled[T], where, sets[r][T].filter)
  <2>1. sent' = [sent EXCEPT ![r] = m] /\ sets[r][T].filter = mine
    BY <1>3, <1>6 DEF Reading, Send, mine
  <2>2. CarriesFilter(m, builder[r]) BY <2>1, <1>5
  <2> HIDE DEF m
  <2> QED BY <2>1, <2>2
<1>7. ASSUME NEW what, NEW where, NEW filter, Writes(r, T, what, where, filter),
             what \in Filtered => filter = sets[r][T].filter
      PROVE  \E m : sent' = [sent EXCEPT ![r] = m] /\ CarriesFilter(m, builder[r])
  <2> DEFINE now == BuildNow(builder[r])[T]
             m == Statement(what, T, now.table, now, where, filter)
  <2>1. sent' = [sent EXCEPT ![r] = m] /\ sets[r][T].filter = mine
    BY <1>3, <1>7 DEF Writes, Send, mine
  <2>2. CarriesFilter(m, builder[r]) BY <1>7, <2>1, <1>5
  <2> HIDE DEF m
  <2> QED BY <2>1, <2>2
<1>8. ASSUME NEW U \in Types, NEW what, NEW filter, Along(r, U, T, what, filter),
             what \in Filtered => filter = beside(U)
      PROVE  \E m : sent' = [sent EXCEPT ![r] = m] /\ CarriesFilter(m, builder[r])
  <2> DEFINE m == Statement(what, T, Compiled[T].table, Compiled[T], {}, filter)
  <2>1. sent' = [sent EXCEPT ![r] = m] /\ UsesSet(r, U) BY <1>8 DEF Along, Send
  <2>2. beside(U) = mine BY <1>4, <2>1
  <2>3. CarriesFilter(m, builder[r]) BY <1>5, <1>8, <2>2
  <2> HIDE DEF m
  <2> QED BY <2>1, <2>3
<1>9. CASE Query(r, T) \/ Find(r, T) BY <1>6, <1>9 DEF Query, Find
<1>10. CASE Insert(r, T) \/ Upsert(r, T) \/ SelfReference(r, T)
  <2>1. {"insert", "upsert", "link"} \cap Filtered = {} BY DEF Filtered
  <2> QED BY <1>7, <1>10, <2>1 DEF Insert, Upsert, SelfReference
<1>11. CASE Update(r, T) \/ Delete(r, T) BY <1>7, <1>11 DEF Update, Delete
<1>12. ASSUME NEW U \in Types, Include(r, U, T) \/ Cascade(r, U, T)
       PROVE  \E m : sent' = [sent EXCEPT ![r] = m] /\ CarriesFilter(m, builder[r])
  <2>1. "cascade" \notin Filtered BY DEF Filtered
  <2>2. CASE Include(r, U, T) BY <1>8, <2>2 DEF Include
  <2>3. CASE Cascade(r, U, T) BY <1>8, <2>1, <2>3 DEF Cascade
  <2> QED BY <1>12, <2>2, <2>3
<1> QED BY <1>9, <1>10, <1>11, <1>12 DEF Sending

LEMMA ScopeSend ==
  ASSUME ScopeInv, BuilderInv', NEW r \in Requests, NEW T \in Types,
         "configure after set" \notin Uses, Sending(r, T)
  PROVE  ScopeInv'
<1>1. Scope(r) /\ Good(builder[r]) BY DEF ScopeInv, BuilderInv
<1>2. at[r] = "open" /\ Fills(r) /\ UNCHANGED <<at, sets, asked>> BY SendingIs DEF Working
<1>3. PICK m : sent' = [sent EXCEPT ![r] = m] /\ CarriesFilter(m, builder[r])
  BY ScopeStatement
<1>4. PICK b : /\ builder' = [builder EXCEPT ![r] = b]
               /\ \A U \in Types : FilterOf(b, U) = FilterOf(builder[r], U)
               /\ AllFilters(b) = AllFilters(builder[r])
  <2>1. CASE builder' = builder
    <3>1. builder' = [builder EXCEPT ![r] = builder[r]] BY <2>1 DEF ScopeInv, BuilderInv
    <3> QED BY <3>1
  <2>2. CASE builder' # builder
    <3> DEFINE b == [builder[r] EXCEPT !.built = BuildNow(builder[r])]
    <3>1. b.metas = builder[r].metas /\ b.configs = builder[r].configs BY <1>1, CachingIsGood
    <3>2. builder' = [builder EXCEPT ![r] = b] BY <1>2, <2>2 DEF Fills
    <3> HIDE DEF b
    <3>3. \A U \in Types : FilterOf(b, U) = FilterOf(builder[r], U) BY <3>1 DEF FilterOf
    <3>4. AllFilters(b) = AllFilters(builder[r]) BY <3>1 DEF AllFilters
    <3> QED BY <3>2, <3>3, <3>4
  <2> QED BY <2>1, <2>2
<1>5. builder'[r] = b /\ sent'[r] = m BY <1>3, <1>4 DEF ScopeInv, BuilderInv
<1>6. CarriesFilter(sent'[r], builder'[r]) BY <1>3, <1>4, <1>5 DEF CarriesFilter
<1>7. ASSUME NEW U \in Types, Taken(r, U)' PROVE Copies(sets[r][U], builder[r], U)'
  <2>1. Taken(r, U) BY <1>2, <1>7 DEF Taken
  <2>2. Copies(sets[r][U], builder[r], U) BY <1>1, <2>1 DEF Scope
  <2> QED BY <1>2, <1>4, <1>5, <2>2 DEF Copies, FilterOf, AllFilters
<1>8. Scope(r)' BY <1>1, <1>2, <1>6, <1>7 DEF Scope, CarriesFilter, FilterOf
<1>9. /\ at' = [at EXCEPT ![r] = at[r]] /\ sets' = [sets EXCEPT ![r] = sets[r]]
      /\ asked' = [asked EXCEPT ![r] = asked[r]]
  BY <1>2 DEF ScopeInv
<1> QED BY <1>3, <1>4, <1>8, <1>9, OnlyOne

LEMMA ScopeCreate ==
  ASSUME ScopeInv, BuilderInv', NEW r \in Requests, EnsureCreated(r)
  PROVE  ScopeInv'
<1> DEFINE b == [builder[r] EXCEPT !.built = BuildNow(builder[r])]
<1>1. Scope(r) /\ Good(builder[r]) BY DEF ScopeInv, BuilderInv
<1>2. b.metas = builder[r].metas /\ b.configs = builder[r].configs BY <1>1, CachingIsGood
<1>3. builder' = [builder EXCEPT ![r] = b] /\ UNCHANGED <<at, sets, asked, sent>>
  BY DEF EnsureCreated
<1> HIDE DEF b
<1>4. builder'[r] = b BY <1>3 DEF ScopeInv, BuilderInv
<1>5. /\ \A U \in Types : FilterOf(builder'[r], U) = FilterOf(builder[r], U)
      /\ AllFilters(builder'[r]) = AllFilters(builder[r])
  BY <1>2, <1>4 DEF FilterOf, AllFilters
<1>6. Scope(r)' BY <1>1, <1>3, <1>5, ScopeStays
<1>7. /\ at' = [at EXCEPT ![r] = at[r]] /\ sets' = [sets EXCEPT ![r] = sets[r]]
      /\ asked' = [asked EXCEPT ![r] = asked[r]] /\ sent' = [sent EXCEPT ![r] = sent[r]]
  BY <1>3 DEF ScopeInv
<1> QED BY <1>3, <1>6, <1>7, OnlyOne

LEMMA ScopeNext ==
  ASSUME "configure after set" \notin Uses, ScopeInv, [Next]_vars
  PROVE  ScopeInv'
<1>1. BuilderInv' BY BuilderNext DEF ScopeInv
<1>2. CASE Next
  BY <1>1, <1>2, ScopeOutside, ScopeConfigure, ScopeGetSet, ScopeSend, ScopeCreate, NextIs
<1>3. CASE UNCHANGED vars
  <2>1. ASSUME NEW r \in Requests PROVE Scope(r)'
    BY <1>3, ScopeStays DEF vars, ScopeInv
  <2> QED BY <1>1, <1>3, <2>1 DEF vars, ScopeInv
<1> QED BY <1>2, <1>3

\* When no set is used after a later call on the builder, every statement, an
\* include too, carries the filter of its type, for every set of types,
\* configurations, calls and requests (query_filter, filters_by_table).
THEOREM StatementsStayScoped ==
  "configure after set" \notin Uses => (Spec => []StatementsAreScoped)
<1> SUFFICES ASSUME "configure after set" \notin Uses PROVE Spec => []StatementsAreScoped
  OBVIOUS
<1>1. ScopeInv /\ [Next]_vars => ScopeInv' BY ScopeNext
<1>2. ScopeInv => StatementsAreScoped
  BY DEF ScopeInv, Scope, StatementsAreScoped, CarriesFilter, FilterOf
<1> QED BY ScopeInit, <1>1, <1>2, PTL DEF Spec


-----------------------------------------------------------------------------
(* What the configurations and the calls give a type.                       *)

Settings == ({"to_table", "has_key", "has_query_filter"} \X {Nothing})
              \cup ({"has_column_name"} \X Fields)

\* The value that an entry holds for a setting.
Setting(entry, op, f) ==
  IF entry = Nothing THEN Nothing
  ELSE IF op = "to_table" THEN entry.table
  ELSE IF op = "has_key" THEN entry.keys
  ELSE IF op = "has_query_filter" THEN entry.filter
  ELSE entry.column[f]

\* The last of the calls in a set that is not empty is one of them.
LEMMA LastIsThere ==
  ASSUME NEW n \in Nat, NEW those \in SUBSET (1..n), those # {}
  PROVE  Latest(those) \in those /\ \A j \in those : j <= Latest(those)
<1>1. those \in SUBSET (0..n) OBVIOUS
<1>2. \E i \in those : \A j \in those : j <= i BY <1>1, GreatestNat
<1> QED BY <1>2 DEF Latest

\* A later call is the last one.
LEMMA LastToLater ==
  ASSUME NEW calls, NEW n \in Nat, NEW those \in SUBSET (1..n)
  PROVE  LastTo(calls, those \cup {n + 1}) = calls[n + 1].to
<1> DEFINE all == those \cup {n + 1}
<1>0. \A i \in those : i \in 1..(n + 1) OBVIOUS
<1>1. all \in SUBSET (1..(n + 1)) /\ all # {} /\ n + 1 \in all /\ n + 1 \in Nat BY <1>0
<1>2. Latest(all) \in all /\ \A j \in all : j <= Latest(all)
  <2> HIDE DEF all
  <2> QED BY <1>1, LastIsThere
<1>3. Latest(all) = n + 1
  <2>1. \A i \in all : i \in 1..(n + 1) BY <1>0
  <2>2. n + 1 <= Latest(all) /\ Latest(all) \in 1..(n + 1)
    <3> HIDE DEF all
    <3> QED BY <1>1, <1>2, <2>1
  <2> HIDE DEF all
  <2> QED BY <2>2
<1> QED BY <1>1, <1>3 DEF LastTo

\* Only the calls in the set count.
LEMMA LastToSame ==
  ASSUME NEW calls, NEW more, NEW n \in Nat, NEW those \in SUBSET (1..n),
         \A i \in those : more[i] = calls[i]
  PROVE  LastTo(more, those) = LastTo(calls, those)
<1>1. CASE those = {} BY <1>1 DEF LastTo
<1>2. CASE those # {}
  <2>1. Latest(those) \in those BY <1>2, LastIsThere
  <2> QED BY <1>2, <2>1 DEF LastTo
<1> QED BY <1>1, <1>2

\* Nobody has said anything yet.
LEMMA GivenNone ==
  ASSUME NEW k, NEW op, NEW T, NEW f
  PROVE  Given(k, 0, <<>>, op, T, f) = Nothing
BY DEF Given, LastTo

\* The next configuration.
LEMMA GivenStep ==
  ASSUME NEW k, NEW n \in Nat, NEW op, NEW T, NEW f
  PROVE  Given(k, n + 1, <<>>, op, T, f) =
           IF Configurations[n + 1].key = k /\ GivesTo(Configurations[n + 1], op, T, f)
           THEN Configurations[n + 1].to ELSE Given(k, n, <<>>, op, T, f)
<1> DEFINE steps(m) == {i \in 1..m : Configurations[i].key = k
                                     /\ GivesTo(Configurations[i], op, T, f)}
<1>1. \A m : Given(k, m, <<>>, op, T, f) = LastTo(Configurations, steps(m)) BY DEF Given
<1>2. 1..(n + 1) = (1..n) \cup {n + 1} OBVIOUS
<1>3. CASE Configurations[n + 1].key = k /\ GivesTo(Configurations[n + 1], op, T, f)
  <2>1. steps(n + 1) = steps(n) \cup {n + 1} BY <1>2, <1>3
  <2>2. steps(n) \in SUBSET (1..n) OBVIOUS
  <2> HIDE DEF steps
  <2> QED BY <1>1, <1>3, <2>1, <2>2, LastToLater
<1>4. CASE ~(Configurations[n + 1].key = k /\ GivesTo(Configurations[n + 1], op, T, f))
  <2>1. steps(n + 1) = steps(n) BY <1>2, <1>4
  <2> QED BY <1>1, <1>4, <2>1
<1> QED BY <1>3, <1>4

\* The next call.
LEMMA GivenCall ==
  ASSUME NEW k, NEW n, NEW S, NEW s \in Seq(S), NEW call \in S, NEW op, NEW T, NEW f
  PROVE  Given(k, n, Append(s, call), op, T, f) =
           IF GivesTo(call, op, T, f) THEN call.to ELSE Given(k, n, s, op, T, f)
<1> DEFINE more == Append(s, call)
           later(l) == {i \in DOMAIN l : GivesTo(l[i], op, T, f)}
           steps == {i \in 1..n : Configurations[i].key = k
                                  /\ GivesTo(Configurations[i], op, T, f)}
<1>1. \A l : Given(k, n, l, op, T, f) =
               IF later(l) = {} THEN LastTo(Configurations, steps) ELSE LastTo(l, later(l))
  BY DEF Given
<1>2. /\ Len(s) \in Nat /\ DOMAIN s = 1..Len(s) /\ DOMAIN more = (1..Len(s)) \cup {Len(s) + 1}
      /\ \A i \in 1..Len(s) : more[i] = s[i]
      /\ more[Len(s) + 1] = call /\ Len(s) + 1 \notin 1..Len(s)
  OBVIOUS
<1> HIDE DEF more
<1>3. later(s) \in SUBSET (1..Len(s)) /\ \A i \in later(s) : more[i] = s[i] BY <1>2
<1>4. LastTo(more, later(s)) = LastTo(s, later(s))
  <2> DEFINE those == later(s)
  <2>1. Len(s) \in Nat /\ those \in SUBSET (1..Len(s)) /\ \A i \in those : more[i] = s[i]
    BY <1>2, <1>3
  <2> HIDE DEF those
  <2>2. LastTo(more, those) = LastTo(s, those) BY <2>1, LastToSame
  <2> QED BY <2>2 DEF those
<1>5. CASE GivesTo(call, op, T, f)
  <2>1. later(more) = later(s) \cup {Len(s) + 1} BY <1>2, <1>5
  <2>2. LastTo(more, later(s) \cup {Len(s) + 1}) = call.to
    <3> HIDE DEF later
    <3> QED BY <1>2, <1>3, LastToLater
  <2>3. later(more) # {} BY <2>1
  <2>4. LastTo(more, later(more)) = call.to BY <2>1, <2>2
  <2> HIDE DEF later
  <2> QED BY <1>1, <1>5, <2>3, <2>4 DEF more
<1>6. CASE ~GivesTo(call, op, T, f)
  <2>1. later(more) = later(s) BY <1>2, <1>6
  <2> QED BY <1>1, <1>4, <1>6, <2>1 DEF more
<1> QED BY <1>5, <1>6

\* The types that are named.
LEMMA NamedMore ==
  ASSUME NEW k
  PROVE  /\ Named(k, 0, <<>>) = {}
         /\ \A n \in Nat : Named(k, n + 1, <<>>) =
               Named(k, n, <<>>) \cup (IF Configurations[n + 1].key = k
                                       THEN {Configurations[n + 1].type} ELSE {})
<1>1. Named(k, 0, <<>>) = {} BY DEF Named
<1>2. ASSUME NEW n \in Nat
      PROVE  Named(k, n + 1, <<>>) = Named(k, n, <<>>) \cup (IF Configurations[n + 1].key = k
                                       THEN {Configurations[n + 1].type} ELSE {})
  <2>1. 1..(n + 1) = (1..n) \cup {n + 1} OBVIOUS
  <2> QED BY <2>1 DEF Named
<1> QED BY <1>1, <1>2

LEMMA NamedCall ==
  ASSUME NEW k, NEW n, NEW S, NEW s \in Seq(S), NEW call \in S
  PROVE  Named(k, n, Append(s, call)) = Named(k, n, s) \cup {call.type}
<1> DEFINE more == Append(s, call)
<1>1. /\ DOMAIN s = 1..Len(s) /\ DOMAIN more = (1..Len(s)) \cup {Len(s) + 1}
      /\ \A i \in 1..Len(s) : more[i] = s[i]
      /\ more[Len(s) + 1] = call
  OBVIOUS
<1> HIDE DEF more
<1>2. {more[i].type : i \in DOMAIN more} = {s[i].type : i \in DOMAIN s} \cup {call.type}
  BY <1>1
<1> QED BY <1>2 DEF Named, more

-----------------------------------------------------------------------------
(* What the builder makes of it.                                            *)

Typed(configs) == configs \in [Types -> Entries \cup {Nothing}]

\* An entry holds nothing that was not given, and it is not Nothing.
LEMMA EntryKeeps ==
  ASSUME NEW configs, Typed(configs), NEW T \in Types
  PROVE  /\ EntryOf(configs, T) \in Entries /\ EntryOf(configs, T) # Nothing
         /\ \A slot \in Settings : Setting(EntryOf(configs, T), slot[1], slot[2])
                                     = Setting(configs[T], slot[1], slot[2])
<1>1. Default \in Entries
  <2>1. NoColumns \in [Fields -> GivenTo("has_column_name")] BY DEF NoColumns, GivenTo
  <2> QED BY <2>1 DEF Default, Entries, GivenTo
<1>2. CASE configs[T] # Nothing
  BY <1>2, NothingAssumption DEF Typed, EntryOf, Else
<1>3. CASE configs[T] = Nothing
  <2>1. EntryOf(configs, T) = Default BY <1>3 DEF EntryOf, Else
  <2>2. \A slot \in Settings : Setting(Default, slot[1], slot[2]) = Nothing
    BY DEF Settings, Setting, Default, NoColumns
  <2> QED BY <1>1, <1>3, <2>1, <2>2, NothingAssumption DEF Setting
<1> QED BY <1>2, <1>3

\* A call sets what it gives, in a type that has an entry, and nothing else.
LEMMA NewConfigsGive ==
  ASSUME NEW configs, Typed(configs), NEW call \in AllCalls,
         call.op \in Ops, call.type \in Types, configs[call.type] # Nothing
  PROVE  /\ Typed(NewConfigs(configs, call))
         /\ NewConfigs(configs, call)[call.type] # Nothing
         /\ \A T \in Types : \A slot \in Settings :
               Setting(NewConfigs(configs, call)[T], slot[1], slot[2]) =
                 IF GivesTo(call, slot[1], T, slot[2]) THEN call.to
                 ELSE Setting(configs[T], slot[1], slot[2])
<1> DEFINE U == call.type
           entry == configs[U]
           now == NewConfigs(configs, call)
<1>1. /\ entry \in Entries /\ entry # Nothing /\ EntryOf(configs, U) = entry
      /\ call.to \in GivenTo(call.op)
  BY DEF Typed, EntryOf, Else, GivenTo
<1>2. entry.column = [f \in Fields |-> entry.column[f]] BY <1>1 DEF Entries
<1>3. ASSUME NEW e \in Entries, now = [configs EXCEPT ![U] = e],
             \A slot \in Settings : Setting(e, slot[1], slot[2]) =
               IF GivesTo(call, slot[1], U, slot[2]) THEN call.to
               ELSE Setting(entry, slot[1], slot[2])
      PROVE  /\ Typed(now) /\ now[U] # Nothing
             /\ \A T \in Types : \A slot \in Settings :
                   Setting(now[T], slot[1], slot[2]) =
                     IF GivesTo(call, slot[1], T, slot[2]) THEN call.to
                     ELSE Setting(configs[T], slot[1], slot[2])
  <2>1. Typed(now) /\ now[U] = e /\ \A T \in Types : T # U => now[T] = configs[T]
    BY <1>3 DEF Typed
  <2> HIDE DEF now
  <2>2. \A T \in Types : \A slot \in Settings : T # U => ~GivesTo(call, slot[1], T, slot[2])
    BY DEF GivesTo
  <2> QED BY <1>3, <2>1, <2>2, NothingAssumption
<1>4. CASE call.op = "entity"
  <2>1. now = configs BY <1>4 DEF NewConfigs
  <2>2. \A T : \A slot \in Settings : ~GivesTo(call, slot[1], T, slot[2])
    BY <1>4 DEF Settings, GivesTo
  <2> QED BY <1>1, <2>1, <2>2
<1>5. CASE call.op = "to_table"
  <2> DEFINE e == [entry EXCEPT !.table = call.to]
  <2>1. e \in Entries /\ now = [configs EXCEPT ![U] = e]
    BY <1>1, <1>5 DEF Entries, NewConfigs
  <2>2. /\ e.table = call.to /\ e.keys = entry.keys /\ e.column = entry.column
        /\ e.filter = entry.filter
    BY <1>1 DEF Entries
  <2> HIDE DEF e, now
  <2>3. \A slot \in Settings : Setting(e, slot[1], slot[2]) =
           IF GivesTo(call, slot[1], U, slot[2]) THEN call.to ELSE Setting(entry, slot[1], slot[2])
    BY <1>1, <1>5, <2>1, <2>2, NothingAssumption DEF Settings, Setting, GivesTo
  <2> QED BY <1>3, <2>1, <2>3 DEF now
<1>6. CASE call.op = "has_key"
  <2> DEFINE e == [entry EXCEPT !.keys = call.to]
  <2>1. e \in Entries /\ now = [configs EXCEPT ![U] = e]
    BY <1>1, <1>6 DEF Entries, NewConfigs
  <2>2. /\ e.table = entry.table /\ e.keys = call.to /\ e.column = entry.column
        /\ e.filter = entry.filter
    BY <1>1 DEF Entries
  <2> HIDE DEF e, now
  <2>3. \A slot \in Settings : Setting(e, slot[1], slot[2]) =
           IF GivesTo(call, slot[1], U, slot[2]) THEN call.to ELSE Setting(entry, slot[1], slot[2])
    BY <1>1, <1>6, <2>1, <2>2, NothingAssumption DEF Settings, Setting, GivesTo
  <2> QED BY <1>3, <2>1, <2>3 DEF now
<1>7. CASE call.op = "has_query_filter"
  <2> DEFINE e == [entry EXCEPT !.filter = call.to]
  <2>1. e \in Entries /\ now = [configs EXCEPT ![U] = e]
    BY <1>1, <1>7 DEF Entries, NewConfigs
  <2>2. /\ e.table = entry.table /\ e.keys = entry.keys /\ e.column = entry.column
        /\ e.filter = call.to
    BY <1>1 DEF Entries
  <2> HIDE DEF e, now
  <2>3. \A slot \in Settings : Setting(e, slot[1], slot[2]) =
           IF GivesTo(call, slot[1], U, slot[2]) THEN call.to ELSE Setting(entry, slot[1], slot[2])
    BY <1>1, <1>7, <2>1, <2>2, NothingAssumption DEF Settings, Setting, GivesTo
  <2> QED BY <1>3, <2>1, <2>3 DEF now
<1>8. CASE call.op = "has_column_name"
  <2> DEFINE e == [entry EXCEPT !.column[call.field] = call.to]
  <2>1. e \in Entries /\ now = [configs EXCEPT ![U] = e]
    BY <1>1, <1>8 DEF Entries, NewConfigs
  <2>2. /\ e.table = entry.table /\ e.keys = entry.keys /\ e.filter = entry.filter
        /\ \A f \in Fields : e.column[f] = IF f = call.field THEN call.to ELSE entry.column[f]
    BY <1>1, <1>2 DEF Entries
  <2> HIDE DEF e, now
  <2>3. \A slot \in Settings : Setting(e, slot[1], slot[2]) =
           IF GivesTo(call, slot[1], U, slot[2]) THEN call.to ELSE Setting(entry, slot[1], slot[2])
    BY <1>1, <1>8, <2>1, <2>2, NothingAssumption DEF Settings, Setting, GivesTo
  <2> QED BY <1>3, <2>1, <2>3 DEF now
<1> QED BY <1>4, <1>5, <1>6, <1>7, <1>8 DEF Ops

\* The metas, and what they hold, come from the first n configurations of a
\* key and the calls in list.
Declared(b, base, k, n, list) ==
  /\ Typed(b.configs)
  /\ b.metas = base \cup Named(k, n, list)
  /\ \A T \in Types : \A slot \in Settings :
        Setting(b.configs[T], slot[1], slot[2]) = Given(k, n, list, slot[1], T, slot[2])

\* register_entity_meta() and entity::<T>() give a type an entry.
LEMMA RegisteredEntry ==
  ASSUME NEW b, Good(b), NEW T \in Types
  PROVE  Registered(b, T).configs = [b.configs EXCEPT ![T] = EntryOf(b.configs, T)]
<1> DEFINE now == [b.configs EXCEPT ![T] = EntryOf(b.configs, T)]
<1>1. CASE T \in b.metas
  <2>1. Registered(b, T) = [b EXCEPT !.configs = now] BY <1>1 DEF Registered
  <2>2. b = [metas |-> b.metas, configs |-> b.configs, built |-> b.built, filters |-> b.filters]
    BY DEF Good
  <2> QED BY <2>1, <2>2
<1>2. CASE T \notin b.metas BY <1>2 DEF Registered, Builder
<1> QED BY <1>1, <1>2

\* The entry says nothing that was not said before.
LEMMA RegisteredKeeps ==
  ASSUME NEW b, Good(b), Typed(b.configs), NEW T \in Types
  PROVE  /\ Typed(Registered(b, T).configs) /\ Registered(b, T).configs[T] # Nothing
         /\ \A U \in Types : \A slot \in Settings :
               Setting(Registered(b, T).configs[U], slot[1], slot[2])
                 = Setting(b.configs[U], slot[1], slot[2])
<1> DEFINE now == [b.configs EXCEPT ![T] = EntryOf(b.configs, T)]
<1>1. Registered(b, T).configs = now BY RegisteredEntry
<1>2. Typed(now) /\ now[T] = EntryOf(b.configs, T)
      /\ \A U \in Types : U # T => now[U] = b.configs[U]
  BY EntryKeeps DEF Typed
<1> HIDE DEF now
<1> QED BY <1>1, <1>2, EntryKeeps

\* A call of the Fluent API names its type and sets what it gives.
LEMMA WithGives ==
  ASSUME NEW b, Good(b), Typed(b.configs),
         NEW call \in AllCalls, call.op \in Ops, call.type \in Types,
         call.via = "entity" \/ b.configs[call.type] # Nothing
  PROVE  /\ Typed(With(b, call).configs)
         /\ With(b, call).metas = b.metas \cup {call.type}
         /\ \A T \in Types : \A slot \in Settings :
               Setting(With(b, call).configs[T], slot[1], slot[2]) =
                 IF GivesTo(call, slot[1], T, slot[2]) THEN call.to
                 ELSE Setting(b.configs[T], slot[1], slot[2])
<1> DEFINE e == Entered(b, call)
<1>1. /\ Typed(e.configs) /\ e.configs[call.type] # Nothing
      /\ e.metas = b.metas \cup {call.type}
      /\ \A T \in Types : \A slot \in Settings :
            Setting(e.configs[T], slot[1], slot[2]) = Setting(b.configs[T], slot[1], slot[2])
  <2>1. CASE call.via = "entity"
    <3>1. e = Registered(b, call.type) BY <2>1 DEF Entered
    <3> QED BY <3>1, RegisteredKeeps, RegisteredIsGood
  <2>2. CASE call.via # "entity"
    <3>1. e = Pushed(b, call.type) BY <2>2 DEF Entered
    <3>2. e.configs = b.configs /\ e.metas = b.metas \cup {call.type}
      BY <3>1 DEF Pushed, Builder
    <3> QED BY <2>2, <3>2
  <2> QED BY <2>1, <2>2
<1> HIDE DEF e
<1>2. With(b, call).metas = e.metas /\ With(b, call).configs = NewConfigs(e.configs, call)
  BY DEF With, Builder, NewConfigs, e
<1> QED BY <1>1, <1>2, NewConfigsGive

\* set::<T>() names a type and sets nothing.
LEMMA HoldingKeeps ==
  ASSUME NEW b, Good(b), Typed(b.configs), NEW T \in Types
  PROVE  /\ Typed(Holding(b, T).configs)
         /\ Holding(b, T).metas = b.metas \cup {T}
         /\ \A U \in Types : \A slot \in Settings :
               Setting(Holding(b, T).configs[U], slot[1], slot[2])
                 = Setting(b.configs[U], slot[1], slot[2])
<1>1. CASE T \in b.metas BY <1>1 DEF Holding
<1>2. CASE T \notin b.metas BY <1>2, RegisteredKeeps, RegisteredIsGood DEF Holding
<1> QED BY <1>1, <1>2

\* One step of a build.
LEMMA StepDeclares ==
  ASSUME NEW b, Good(b), NEW k, NEW n \in Nat, n + 1 \in DOMAIN Configurations,
         Declared(b, {}, k, n, <<>>)
  PROVE  Declared(ApplyFn(b, k, Configurations[n + 1]), {}, k, n + 1, <<>>)
<1> DEFINE step == Configurations[n + 1]
           d == ApplyFn(b, k, step)
<1>1. step \in AllCalls /\ step.op \in Ops /\ step.type \in Types
  BY ModelAssumption DEF AllCalls
<1>2. \A T, op, f : Given(k, n + 1, <<>>, op, T, f) =
        IF step.key = k /\ GivesTo(step, op, T, f) THEN step.to ELSE Given(k, n, <<>>, op, T, f)
  BY GivenStep
<1>3. Named(k, n + 1, <<>>) = Named(k, n, <<>>) \cup (IF step.key = k THEN {step.type} ELSE {})
  BY NamedMore
<1> HIDE DEF step
<1>4. CASE step.key = k
  <2> DEFINE e == Registered(b, step.type)
  <2>1. /\ Good(e) /\ e.metas = b.metas \cup {step.type}
        /\ Typed(e.configs) /\ e.configs[step.type] # Nothing
        /\ \A U \in Types : \A slot \in Settings :
              Setting(e.configs[U], slot[1], slot[2]) = Setting(b.configs[U], slot[1], slot[2])
    BY <1>1, RegisteredIsGood, RegisteredKeeps DEF Declared
  <2>2. d = With(e, step) BY <1>4 DEF ApplyFn
  <2> HIDE DEF d, e
  <2>3. /\ Typed(d.configs) /\ d.metas = b.metas \cup {step.type}
        /\ \A T \in Types : \A slot \in Settings :
              Setting(d.configs[T], slot[1], slot[2]) =
                IF GivesTo(step, slot[1], T, slot[2]) THEN step.to
                ELSE Setting(b.configs[T], slot[1], slot[2])
    BY <1>1, <2>1, <2>2, WithGives
  <2>4. \A T, op, f : Given(k, n + 1, <<>>, op, T, f) =
          IF GivesTo(step, op, T, f) THEN step.to ELSE Given(k, n, <<>>, op, T, f)
    BY <1>2, <1>4
  <2>5. Named(k, n + 1, <<>>) = Named(k, n, <<>>) \cup {step.type} BY <1>3, <1>4
  <2>6. Declared(d, {}, k, n + 1, <<>>) BY <2>3, <2>4, <2>5 DEF Declared
  <2> QED BY <2>6 DEF d, step
<1>5. CASE step.key # k
  <2>1. d = b BY <1>5 DEF ApplyFn
  <2> HIDE DEF d
  <2>2. \A T, op, f : Given(k, n + 1, <<>>, op, T, f) = Given(k, n, <<>>, op, T, f)
    BY <1>2, <1>5
  <2>3. Named(k, n + 1, <<>>) = Named(k, n, <<>>) BY <1>3, <1>5
  <2>4. Declared(d, {}, k, n + 1, <<>>) BY <2>1, <2>2, <2>3 DEF Declared
  <2> QED BY <2>4 DEF d, step
<1> QED BY <1>4, <1>5

Mine(k) == {T \in Types : KeyOf[T] = k}

\* The end of a build.
LEMMA DiscoveredDeclares ==
  ASSUME NEW b, Good(b), NEW k, NEW n, Declared(b, {}, k, n, <<>>)
  PROVE  Declared(Discovered(b, k), Mine(k), k, n, <<>>)
<1> DEFINE d == Discovered(b, k)
<1>1. /\ d.metas = b.metas \cup Mine(k)
      /\ d.configs = [T \in Types |-> IF T \in Mine(k) \ b.metas THEN EntryOf(b.configs, T)
                                      ELSE b.configs[T]]
  BY DEF Discovered, Mine
<1> HIDE DEF d
<1>2. /\ \A T \in Types : d.configs[T] = IF T \in Mine(k) \ b.metas THEN EntryOf(b.configs, T)
                                         ELSE b.configs[T]
      /\ d.configs = [T \in Types |-> d.configs[T]] /\ Typed(b.configs)
  BY <1>1 DEF Declared
<1>3. ASSUME NEW T \in Types
      PROVE  /\ d.configs[T] \in Entries \cup {Nothing}
             /\ \A slot \in Settings :
                   Setting(d.configs[T], slot[1], slot[2]) = Setting(b.configs[T], slot[1], slot[2])
  <2>1. /\ EntryOf(b.configs, T) \in Entries
        /\ \A slot \in Settings : Setting(EntryOf(b.configs, T), slot[1], slot[2])
                                    = Setting(b.configs[T], slot[1], slot[2])
    BY <1>2, EntryKeeps
  <2> QED BY <1>2, <2>1 DEF Typed
<1>4. Typed(d.configs) BY <1>2, <1>3 DEF Typed
<1>5. Declared(d, Mine(k), k, n, <<>>) BY <1>1, <1>3, <1>4 DEF Declared
<1> QED BY <1>5 DEF d

\* A call of the context on its own builder, and set::<T>().
LEMMA CallDeclares ==
  ASSUME NEW b, NEW d, NEW base, NEW k, NEW n, NEW S, NEW s \in Seq(S), NEW call \in S,
         Declared(b, base, k, n, s), Typed(d.configs), d.metas = b.metas \cup {call.type},
         \A T \in Types : \A slot \in Settings :
            Setting(d.configs[T], slot[1], slot[2]) =
              IF GivesTo(call, slot[1], T, slot[2]) THEN call.to
              ELSE Setting(b.configs[T], slot[1], slot[2])
  PROVE  Declared(d, base, k, n, Append(s, call))
<1>1. Named(k, n, Append(s, call)) = Named(k, n, s) \cup {call.type} BY NamedCall
<1>2. \A op, T, f : Given(k, n, Append(s, call), op, T, f) =
        IF GivesTo(call, op, T, f) THEN call.to ELSE Given(k, n, s, op, T, f)
  BY GivenCall
<1> QED BY <1>1, <1>2 DEF Declared

-----------------------------------------------------------------------------
(* The model of a context.                                                  *)

Stage(r) ==
  /\ asked[r] \in Seq(Asked)
  /\ at[r] \in {"none", "read", "write", "build", "open"}
  /\ at[r] \in {"none", "read", "write"} => builder[r] = NewBuilder
  /\ at[r] # "open" => asked[r] = <<>>
  /\ at[r] = "build" => writer = r /\ Declared(builder[r], {}, key[r], position, <<>>)
  /\ at[r] = "open" =>
        Declared(builder[r], Mine(key[r]), key[r], Len(Configurations), asked[r])

StageInv ==
  /\ BuilderInv /\ position <= Len(Configurations)
  /\ at = [r \in Requests |-> at[r]] /\ asked = [r \in Requests |-> asked[r]]
  /\ \A k \in DOMAIN cache : Declared(cache[k], Mine(k), k, Len(Configurations), <<>>)
  /\ \A r \in Requests : Stage(r)

\* A new builder declares nothing.
LEMMA NewDeclares ==
  ASSUME NEW k
  PROVE  Declared(NewBuilder, {}, k, 0, <<>>)
<1>1. NewBuilder.metas = {} /\ NewBuilder.configs = [T \in Types |-> Nothing] BY DEF NewBuilder
<1>2. Named(k, 0, <<>>) = {} BY NamedMore
<1>3. \A T, op, f : Given(k, 0, <<>>, op, T, f) = Nothing BY GivenNone
<1> QED BY <1>1, <1>2, <1>3 DEF Declared, Typed, Setting

LEMMA StageInit == Init => StageInv
<1> SUFFICES ASSUME Init PROVE StageInv OBVIOUS
<1>1. /\ at = [r \in Requests |-> at[r]] /\ asked = [r \in Requests |-> asked[r]]
      /\ \A r \in Requests : at[r] = "none" /\ asked[r] = <<>> /\ builder[r] = NewBuilder
      /\ position = 0 /\ DOMAIN cache = {}
  BY DEF Init, NoCache
<1>2. Len(Configurations) \in Nat BY ModelAssumption
<1>3. \A r \in Requests : Stage(r)
  <2> <<>> \in Seq(Asked) OBVIOUS
  <2> QED BY <1>1 DEF Stage
<1>4. position <= Len(Configurations) BY <1>1, <1>2
<1> QED BY <1>1, <1>3, <1>4, BuilderInit DEF StageInv

\* A step of r leaves the other requests alone.
LEMMA OneStage ==
  ASSUME StageInv, BuilderInv', NEW r \in Requests, Stage(r)',
         NEW a, at' = [at EXCEPT ![r] = a],
         NEW b, builder' = [builder EXCEPT ![r] = b],
         NEW s, asked' = [asked EXCEPT ![r] = s],
         key' = key, position' <= Len(Configurations),
         \A x \in Requests : x # r /\ at[x] = "build" => position' = position /\ writer' = writer,
         \A k \in DOMAIN cache' : Declared(cache'[k], Mine(k), k, Len(Configurations), <<>>)
  PROVE  StageInv'
<1>1. ASSUME NEW x \in Requests, x # r PROVE Stage(x)'
  <2>1. /\ at'[x] = at[x] /\ builder'[x] = builder[x] /\ asked'[x] = asked[x] /\ key'[x] = key[x]
    BY <1>1 DEF StageInv, BuilderInv
  <2>2. Stage(x) BY DEF StageInv
  <2>3. at'[x] = "build" => writer' = x /\ Declared(builder'[x], {}, key'[x], position', <<>>)
    BY <1>1, <2>1, <2>2 DEF Stage
  <2> QED BY <2>1, <2>2, <2>3 DEF Stage
<1>2. at' = [x \in Requests |-> at'[x]] /\ asked' = [x \in Requests |-> asked'[x]]
  BY DEF StageInv
<1> QED BY <1>1, <1>2 DEF StageInv

\* A request gets a context from what the cache holds.
LEMMA StageOpen ==
  ASSUME StageInv, BuilderInv', NEW r \in Requests, NEW found, Open(r, found),
         asked[r] = <<>>, Declared(found, Mine(key[r]), key[r], Len(Configurations), <<>>),
         position' = position,
         \A x \in Requests : x # r /\ at[x] = "build" => writer' = writer,
         \A k \in DOMAIN cache' : Declared(cache'[k], Mine(k), k, Len(Configurations), <<>>)
  PROVE  StageInv'
<1> DEFINE b == from_built(found)
<1>1. /\ at' = [at EXCEPT ![r] = "open"] /\ builder' = [builder EXCEPT ![r] = b]
      /\ asked' = asked /\ key' = key
  BY DEF Open, own
<1>2. b.metas = found.metas /\ b.configs = found.configs BY DEF from_built
<1> HIDE DEF b
<1>7. /\ at'[r] = "open" /\ asked'[r] = <<>> /\ key'[r] = key[r]
      /\ asked' = [asked EXCEPT ![r] = asked[r]]
  BY <1>1 DEF StageInv
<1>3. builder'[r] = b BY <1>1 DEF BuilderInv
<1>4. Declared(b, Mine(key[r]), key[r], Len(Configurations), <<>>) BY <1>2 DEF Declared
<1>5. Stage(r)' BY <1>3, <1>4, <1>7 DEF Stage
<1>6. position' <= Len(Configurations) BY DEF StageInv
<1>8. \A x \in Requests : x # r /\ at[x] = "build" => position' = position /\ writer' = writer
  OBVIOUS
<1>9. at' = [at EXCEPT ![r] = "open"] /\ builder' = [builder EXCEPT ![r] = b] /\ key' = key
  BY <1>1
<1> QED BY <1>5, <1>6, <1>7, <1>8, <1>9, OneStage

\* A request moves on to another lock, or leaves.
LEMMA StageMoves ==
  ASSUME StageInv, BuilderInv', NEW r \in Requests, cache' = cache, position' = position,
         \/ Drop(r) /\ \A x \in Requests : x # r /\ at[x] = "build" => writer' = writer
         \/ /\ \E place \in {"read", "write"} : GoTo(r, place)
            /\ at[r] \in {"none", "read"} /\ writer' = writer
  PROVE  StageInv'
<1>1. position' <= Len(Configurations)
      /\ \A k \in DOMAIN cache' : Declared(cache'[k], Mine(k), k, Len(Configurations), <<>>)
  BY DEF StageInv
<1>2. ASSUME Drop(r), \A x \in Requests : x # r /\ at[x] = "build" => writer' = writer
      PROVE  StageInv'
  <2>1. at'[r] = "none" /\ asked'[r] = <<>> /\ builder'[r] = NewBuilder
    BY <1>2 DEF Drop, StageInv, BuilderInv
  <2>2. Stage(r)' BY <2>1 DEF Stage
  <2> QED BY <1>1, <1>2, <2>2, OneStage DEF Drop
<1>3. ASSUME NEW place \in {"read", "write"}, GoTo(r, place), at[r] \in {"none", "read"},
             writer' = writer
      PROVE  StageInv'
  <2>1. /\ at' = [at EXCEPT ![r] = place] /\ UNCHANGED <<key, builder, asked>>
    BY <1>3 DEF GoTo, own
  <2>2. /\ asked[r] = <<>> /\ builder[r] = NewBuilder
        /\ asked' = [asked EXCEPT ![r] = asked[r]] /\ builder' = [builder EXCEPT ![r] = builder[r]]
        /\ at'[r] = place
    BY <1>3, <2>1 DEF StageInv, Stage, BuilderInv
  <2>3. Stage(r)' BY <2>1, <2>2 DEF Stage
  <2> QED BY <1>1, <1>3, <2>1, <2>2, <2>3, OneStage
<1> QED BY <1>2, <1>3

\* The write lock: the request builds, or finds that another has built.
LEMMA StageWrite ==
  ASSUME StageInv, BuilderInv', NEW r \in Requests, WriteCache(r)
  PROVE  StageInv'
<1> DEFINE now == IF poisoned THEN NoCache ELSE cache
<1>1. /\ cache' = now /\ at[r] = "write" /\ writer = Nothing
      /\ \A k \in DOMAIN now : Declared(now[k], Mine(k), k, Len(Configurations), <<>>)
  BY DEF StageInv, WriteCache, NoCache
<1>2. \A x \in Requests : at[x] # "build" BY <1>1, ModelAssumption DEF StageInv, Stage
<1>3. asked[r] = <<>> /\ builder[r] = NewBuilder BY <1>1 DEF StageInv, Stage
<1>4. CASE key[r] \in DOMAIN now
  <2>1. Open(r, now[key[r]]) /\ position' = position BY <1>4 DEF WriteCache
  <2> HIDE DEF now
  <2> QED BY <1>1, <1>2, <1>3, <1>4, <2>1, StageOpen
<1>5. CASE key[r] \notin DOMAIN now
  <2>1. /\ writer' = r /\ position' = 0 /\ at' = [at EXCEPT ![r] = "build"]
        /\ UNCHANGED <<key, builder, asked>>
    BY <1>5 DEF WriteCache, own
  <2>2. /\ at'[r] = "build" /\ asked'[r] = <<>> /\ builder'[r] = NewBuilder
        /\ asked' = [asked EXCEPT ![r] = asked[r]] /\ builder' = [builder EXCEPT ![r] = builder[r]]
    BY <1>3, <2>1 DEF StageInv, BuilderInv
  <2>3. Declared(NewBuilder, {}, key'[r], 0, <<>>) BY NewDeclares
  <2>4. Stage(r)' BY <2>1, <2>2, <2>3 DEF Stage
  <2>5. position' <= Len(Configurations) BY <2>1, ModelAssumption
  <2> HIDE DEF now
  <2> QED BY <1>1, <1>2, <2>1, <2>2, <2>4, <2>5, OneStage
<1> QED BY <1>4, <1>5

\* A registration is gone through.
LEMMA StageConfigured ==
  ASSUME StageInv, BuilderInv', NEW r \in Requests, Configured(r)
  PROVE  StageInv'
<1> DEFINE b == ApplyFn(builder[r], key[r], Configurations[position'])
<1>1. /\ position \in Nat /\ position' = position + 1 /\ position < Len(Configurations)
      /\ at[r] = "build" /\ at' = at /\ builder' = [builder EXCEPT ![r] = b]
      /\ UNCHANGED <<cache, writer, key, asked>> /\ Good(builder[r])
  BY DEF StageInv, BuilderInv, Configured, own
<1>2. /\ writer = r /\ asked[r] = <<>> /\ Declared(builder[r], {}, key[r], position, <<>>)
  BY <1>1 DEF StageInv, Stage
<1>3. position + 1 \in DOMAIN Configurations /\ position' <= Len(Configurations)
  BY <1>1, ModelAssumption
<1>4. Declared(b, {}, key[r], position', <<>>) BY <1>1, <1>2, <1>3, StepDeclares
<1> HIDE DEF b
<1>9. /\ at'[r] = "build" /\ asked'[r] = <<>> /\ key'[r] = key[r]
      /\ asked' = [asked EXCEPT ![r] = asked[r]] /\ at' = [at EXCEPT ![r] = at[r]]
  BY <1>1, <1>2 DEF StageInv
<1>5. builder'[r] = b BY <1>1 DEF BuilderInv
<1>6. Stage(r)' BY <1>1, <1>2, <1>4, <1>5, <1>9 DEF Stage
<1>7. \A x \in Requests : x # r => at[x] # "build" BY <1>2 DEF StageInv, Stage
<1>8. \A k \in DOMAIN cache' : Declared(cache'[k], Mine(k), k, Len(Configurations), <<>>)
  BY <1>1 DEF StageInv
<1>10. \A x \in Requests : x # r /\ at[x] = "build" => position' = position /\ writer' = writer
  BY <1>7
<1>11. builder' = [builder EXCEPT ![r] = b] /\ key' = key BY <1>1
<1> QED BY <1>3, <1>6, <1>8, <1>9, <1>10, <1>11, OneStage

\* What was built is in the cache, and the request has it.
LEMMA StageFinish ==
  ASSUME StageInv, BuilderInv', NEW r \in Requests, FinishBuild(r)
  PROVE  StageInv'
<1> DEFINE found == Discovered(builder[r], key[r])
           n == Len(Configurations)
<1>1. /\ at[r] = "build" /\ position = n /\ Open(r, found) /\ position' = position
      /\ cache' = [k \in DOMAIN cache \cup {key[r]} |-> IF k = key[r] THEN found ELSE cache[k]]
      /\ Good(builder[r])
  BY DEF FinishBuild, StageInv, BuilderInv
<1>2. /\ writer = r /\ asked[r] = <<>> /\ Declared(builder[r], {}, key[r], n, <<>>)
  BY <1>1 DEF StageInv, Stage
<1>3. Declared(found, Mine(key[r]), key[r], n, <<>>) BY <1>1, <1>2, DiscoveredDeclares
<1> HIDE DEF found
<1>4. \A x \in Requests : x # r => at[x] # "build" BY <1>2 DEF StageInv, Stage
<1>5. \A k \in DOMAIN cache' : Declared(cache'[k], Mine(k), k, n, <<>>)
  BY <1>1, <1>3 DEF StageInv
<1> QED BY <1>1, <1>2, <1>3, <1>4, <1>5, StageOpen

\* A call that a context makes on its own builder.
LEMMA StageAsk ==
  ASSUME StageInv, BuilderInv', NEW r \in Requests, NEW b, NEW call \in Asked, Ask(r, b, call),
         Declared(b, Mine(key[r]), key[r], Len(Configurations), Append(asked[r], call))
  PROVE  StageInv'
<1>1. /\ at[r] = "open" /\ builder' = [builder EXCEPT ![r] = b]
      /\ asked' = [asked EXCEPT ![r] = Append(asked[r], call)]
      /\ UNCHANGED <<cache, writer, position, at, key>>
  BY DEF Ask
<1>2. asked[r] \in Seq(Asked) BY DEF StageInv, Stage
<1>3. /\ at'[r] = "open" /\ builder'[r] = b /\ key'[r] = key[r]
      /\ asked'[r] = Append(asked[r], call) /\ at' = [at EXCEPT ![r] = at[r]]
  BY <1>1 DEF StageInv, BuilderInv
<1>4. Append(asked[r], call) \in Seq(Asked) BY <1>2
<1>5. Stage(r)' BY <1>3, <1>4 DEF Stage
<1>6. position' <= Len(Configurations)
      /\ \A k \in DOMAIN cache' : Declared(cache'[k], Mine(k), k, Len(Configurations), <<>>)
  BY <1>1 DEF StageInv
<1> QED BY <1>1, <1>3, <1>5, <1>6, OneStage

LEMMA StageConfigure ==
  ASSUME StageInv, BuilderInv', NEW r \in Requests, NEW call \in Calls, Configure(r, call),
         "apply_configuration of a new type" \notin Uses
  PROVE  StageInv'
<1> DEFINE b == builder[r]
           d == With(b, call)
           n == Len(Configurations)
<1>1. /\ at[r] = "open" /\ Ask(r, d, call) /\ Good(b)
      /\ call.via = "entity" \/ b.configs[call.type] # Nothing
  BY DEF Configure, Ask, Used, StageInv, BuilderInv
<1>2. call \in AllCalls /\ call \in Asked /\ call.op \in Ops /\ call.type \in Types
  BY ModelAssumption DEF AllCalls, Asked
<1>3. Declared(b, Mine(key[r]), key[r], n, asked[r]) /\ asked[r] \in Seq(Asked)
  BY <1>1 DEF StageInv, Stage
<1>6. Typed(b.configs) BY <1>3 DEF Declared
<1> HIDE DEF b
<1>4. /\ Typed(d.configs) /\ d.metas = b.metas \cup {call.type}
      /\ \A T \in Types : \A slot \in Settings :
            Setting(d.configs[T], slot[1], slot[2]) =
              IF GivesTo(call, slot[1], T, slot[2]) THEN call.to
              ELSE Setting(b.configs[T], slot[1], slot[2])
  <2>1. /\ Good(b) /\ Typed(b.configs) /\ call \in AllCalls /\ call.op \in Ops
        /\ call.type \in Types /\ (call.via = "entity" \/ b.configs[call.type] # Nothing)
    BY <1>1, <1>2, <1>6
  <2>2. Typed(d.configs) BY <2>1, WithGives
  <2>3. d.metas = b.metas \cup {call.type} BY <2>1, WithGives
  <2> QED BY <2>1, <2>2, <2>3, WithGives
<1> HIDE DEF d
<1>5. Declared(d, Mine(key[r]), key[r], n, Append(asked[r], call))
  BY <1>2, <1>3, <1>4, CallDeclares
<1> QED BY <1>1, <1>2, <1>5, StageAsk

LEMMA StageGetSet ==
  ASSUME StageInv, BuilderInv', NEW r \in Requests, NEW T \in Types, GetSet(r, T)
  PROVE  StageInv'
<1> DEFINE b == builder[r]
           h == Holding(b, T)
           d == Caching(h)
           call == [op |-> "set", type |-> T]
           n == Len(Configurations)
<1>1. at[r] = "open" /\ Ask(r, d, call) /\ Good(b)
  BY DEF GetSet, Ask, StageInv, BuilderInv
<1>2. call \in Asked /\ call.type = T /\ call.op = "set" BY DEF Asked
<1>3. Declared(b, Mine(key[r]), key[r], n, asked[r]) /\ asked[r] \in Seq(Asked)
  BY <1>1 DEF StageInv, Stage
<1>4. /\ Typed(h.configs) /\ h.metas = b.metas \cup {T} /\ Good(h)
      /\ \A U \in Types : \A slot \in Settings :
            Setting(h.configs[U], slot[1], slot[2]) = Setting(b.configs[U], slot[1], slot[2])
  BY <1>1, <1>3, HoldingKeeps, HoldingIsGood DEF Declared
<1> HIDE DEF h
<1>5. d.metas = h.metas /\ d.configs = h.configs BY <1>4, CachingIsGood
<1>6. \A U \in Types : \A slot \in Settings : ~GivesTo(call, slot[1], U, slot[2])
  BY <1>2 DEF Settings, GivesTo
<1> HIDE DEF d, call, b
<1>7. /\ Typed(d.configs) /\ d.metas = b.metas \cup {call.type}
      /\ \A U \in Types : \A slot \in Settings :
            Setting(d.configs[U], slot[1], slot[2]) =
              IF GivesTo(call, slot[1], U, slot[2]) THEN call.to
              ELSE Setting(b.configs[U], slot[1], slot[2])
  BY <1>2, <1>4, <1>5, <1>6
<1>8. Declared(d, Mine(key[r]), key[r], n, Append(asked[r], call))
  BY <1>2, <1>3, <1>7, CallDeclares
<1> QED BY <1>1, <1>2, <1>8, StageAsk

\* Statements and ensure_created() at most fill a cache.
LEMMA StageUses ==
  ASSUME StageInv, BuilderInv', NEW r \in Requests,
         \/ EnsureCreated(r)
         \/ \E T \in Types : Sending(r, T)
  PROVE  StageInv'
<1>1. /\ at[r] = "open" /\ UNCHANGED <<cache, writer, position, at, key, asked>>
      /\ builder' = builder \/ builder' = [builder EXCEPT ![r].built = BuildNow(builder[r])]
  BY SendingIs DEF EnsureCreated, Fills, Working
<1>2. PICK b : /\ builder' = [builder EXCEPT ![r] = b]
               /\ b.metas = builder[r].metas /\ b.configs = builder[r].configs
  <2>1. CASE builder' = builder
    <3> builder' = [builder EXCEPT ![r] = builder[r]] BY <2>1 DEF StageInv, BuilderInv
    <3> QED OBVIOUS
  <2>2. CASE builder' = [builder EXCEPT ![r].built = BuildNow(builder[r])]
    <3> DEFINE b == [builder[r] EXCEPT !.built = BuildNow(builder[r])]
    <3>1. builder' = [builder EXCEPT ![r] = b] BY <2>2
    <3>2. b.metas = builder[r].metas /\ b.configs = builder[r].configs
      BY CachingIsGood DEF StageInv, BuilderInv
    <3> HIDE DEF b
    <3> QED BY <3>1, <3>2
  <2> QED BY <1>1, <2>1, <2>2
<1>3. /\ at'[r] = "open" /\ builder'[r] = b /\ key'[r] = key[r] /\ asked'[r] = asked[r]
      /\ at' = [at EXCEPT ![r] = at[r]] /\ asked' = [asked EXCEPT ![r] = asked[r]]
  BY <1>1, <1>2 DEF StageInv, BuilderInv
<1>4. Declared(builder[r], Mine(key[r]), key[r], Len(Configurations), asked[r])
      /\ asked[r] \in Seq(Asked)
  BY <1>1 DEF StageInv, Stage
<1>5. Declared(b, Mine(key[r]), key[r], Len(Configurations), asked[r]) BY <1>2, <1>4 DEF Declared
<1>6. Stage(r)' BY <1>3, <1>4, <1>5 DEF Stage
<1>7. position' <= Len(Configurations)
      /\ \A k \in DOMAIN cache' : Declared(cache'[k], Mine(k), k, Len(Configurations), <<>>)
  BY <1>1 DEF StageInv
<1> QED BY <1>1, <1>2, <1>3, <1>6, <1>7, OneStage

LEMMA StageNext ==
  ASSUME "apply_configuration of a new type" \notin Uses, StageInv, [Next]_vars
  PROVE  StageInv'
<1>0. BuilderInv' BY BuilderNext DEF StageInv
<1>1. ASSUME NEW r \in Requests, Begin(r) PROVE StageInv'
  BY <1>0, <1>1, StageMoves DEF Begin
<1>2. ASSUME NEW r \in Requests, ReadCache(r) PROVE StageInv'
  <2>1. /\ at[r] = "read" /\ asked[r] = <<>> /\ UNCHANGED <<cache, writer, position>>
        /\ \A k \in DOMAIN cache : Declared(cache[k], Mine(k), k, Len(Configurations), <<>>)
    BY <1>2 DEF ReadCache, StageInv, Stage
  <2>2. CASE key[r] \in DOMAIN cache /\ Open(r, cache[key[r]])
    BY <1>0, <2>1, <2>2, StageOpen
  <2>3. CASE GoTo(r, "write") BY <1>0, <2>1, <2>3, StageMoves
  <2> QED BY <1>2, <2>2, <2>3 DEF ReadCache
<1>3. ASSUME NEW r \in Requests, Panic(r) PROVE StageInv'
  <2>1. \A x \in Requests : x # r => at[x] # "build" BY <1>3 DEF Panic, StageInv, Stage
  <2>2. Drop(r) /\ cache' = cache /\ position' = position BY <1>3 DEF Panic
  <2> QED BY <1>0, <2>1, <2>2, StageMoves
<1>4. ASSUME NEW r \in Requests, Close(r) PROVE StageInv'
  BY <1>0, <1>4, StageMoves DEF Close
<1>5. CASE UNCHANGED vars
  <2>1. \A r \in Requests : Stage(r)' BY <1>5 DEF vars, StageInv, Stage
  <2> QED BY <1>0, <1>5, <2>1 DEF vars, StageInv
<1>6. ASSUME NEW r \in Requests, \E call \in Calls : Configure(r, call) PROVE StageInv'
  BY <1>0, <1>6, StageConfigure
<1>7. ASSUME NEW r \in Requests, \E T \in Types : GetSet(r, T) PROVE StageInv'
  BY <1>0, <1>7, StageGetSet
<1>8. ASSUME NEW r \in Requests,
             \/ EnsureCreated(r)
             \/ \E T \in Types : Sending(r, T)
      PROVE  StageInv'
  BY <1>0, <1>8, StageUses
<1>9. ASSUME NEW r \in Requests, WriteCache(r) \/ Configured(r) \/ FinishBuild(r) PROVE StageInv'
  BY <1>0, <1>9, StageWrite, StageConfigured, StageFinish
<1> QED BY <1>1, <1>2, <1>3, <1>4, <1>5, <1>6, <1>7, <1>8, <1>9, NextIs

\* has_key() names fields of the type.
KeysAreFields == \A call \in AllCalls : call.op = "has_key" => call.to \subseteq Fields

\* The model of T holds what was given.
Fits(b, k, n, s, T) ==
  LET model == Build(b.metas, b.configs)
  IN  /\ model[T].table = Else(Given(k, n, s, "to_table", T, Nothing), Compiled[T].table)
      /\ model[T].keys = Else(Given(k, n, s, "has_key", T, Nothing), Compiled[T].keys)
      /\ get_query_filter(b.configs, T) = Given(k, n, s, "has_query_filter", T, Nothing)
      /\ \A f \in Fields : model[T].column[f] =
            Else(Given(k, n, s, "has_column_name", T, f), Compiled[T].column[f])

\* What is declared is what the model says.
LEMMA DeclaredModel ==
  ASSUME KeysAreFields, NEW b, NEW base \in SUBSET Types, NEW k, NEW n, NEW s,
         Declared(b, base, k, n, s), NEW T \in Types, T \in b.metas
  PROVE  Fits(b, k, n, s, T)
<1> DEFINE entry == b.configs[T]
           meta == apply_config_to_meta(T, entry)
<1>1. Build(b.metas, b.configs)[T] = meta BY DEF Build
<1>2. /\ Setting(entry, "to_table", Nothing) = Given(k, n, s, "to_table", T, Nothing)
      /\ Setting(entry, "has_key", Nothing) = Given(k, n, s, "has_key", T, Nothing)
      /\ Setting(entry, "has_query_filter", Nothing)
           = Given(k, n, s, "has_query_filter", T, Nothing)
      /\ \A f \in Fields :
            Setting(entry, "has_column_name", f) = Given(k, n, s, "has_column_name", T, f)
  <2>1. /\ <<"to_table", Nothing>> \in Settings /\ <<"has_key", Nothing>> \in Settings
        /\ <<"has_query_filter", Nothing>> \in Settings
        /\ \A f \in Fields : <<"has_column_name", f>> \in Settings
    BY DEF Settings
  <2>2. \A slot \in Settings : Setting(entry, slot[1], slot[2]) = Given(k, n, s, slot[1], T, slot[2])
    BY DEF Declared
  <2> HIDE DEF entry
  <2>3. \A f \in Fields : Setting(entry, "has_column_name", f) = Given(k, n, s, "has_column_name", T, f)
    <3> TAKE f \in Fields
    <3> <<"has_column_name", f>>[1] = "has_column_name" /\ <<"has_column_name", f>>[2] = f OBVIOUS
    <3> QED BY <2>1, <2>2
  <2>4. \A op \in {"to_table", "has_key", "has_query_filter"} :
          Setting(entry, op, Nothing) = Given(k, n, s, op, T, Nothing)
    <3> TAKE op \in {"to_table", "has_key", "has_query_filter"}
    <3> <<op, Nothing>> \in Settings /\ <<op, Nothing>>[1] = op /\ <<op, Nothing>>[2] = Nothing
      BY <2>1
    <3> QED BY <2>2
  <2> QED BY <2>3, <2>4
<1>3. entry \in Entries \cup {Nothing} BY DEF Declared, Typed
<1> HIDE DEF entry
<1>4. CASE entry = Nothing
  <2>1. meta = Compiled[T] /\ \A op, f : Setting(entry, op, f) = Nothing
    BY <1>4 DEF apply_config_to_meta, Setting
  <2>2. get_query_filter(b.configs, T) = Nothing BY <1>4 DEF get_query_filter, entry
  <2> QED BY <1>1, <1>2, <2>1, <2>2 DEF Else, Fits
<1>5. CASE entry # Nothing
  <2>1. /\ meta = [table |-> Else(entry.table, Compiled[T].table),
                   keys |-> IF entry.keys = Nothing THEN Compiled[T].keys ELSE Fields \cap entry.keys,
                   column |-> [f \in Fields |-> Else(entry.column[f], Compiled[T].column[f])]]
        /\ get_query_filter(b.configs, T) = entry.filter
    BY <1>5 DEF apply_config_to_meta, get_query_filter, entry
  <2>2. /\ meta.table = Else(entry.table, Compiled[T].table)
        /\ meta.keys = IF entry.keys = Nothing THEN Compiled[T].keys ELSE Fields \cap entry.keys
        /\ \A f \in Fields : meta.column[f] = Else(entry.column[f], Compiled[T].column[f])
    BY <2>1
  <2>3. entry.keys # Nothing => entry.keys \subseteq Fields
    BY <1>3, <1>5 DEF Entries, GivenTo, KeysAreFields
  <2>4. meta.keys = Else(entry.keys, Compiled[T].keys) BY <2>2, <2>3 DEF Else
  <2>5. /\ Setting(entry, "to_table", Nothing) = entry.table
        /\ Setting(entry, "has_key", Nothing) = entry.keys
        /\ Setting(entry, "has_query_filter", Nothing) = entry.filter
        /\ \A f \in Fields : Setting(entry, "has_column_name", f) = entry.column[f]
    BY <1>5 DEF Setting
  <2> HIDE DEF meta
  <2> QED BY <1>1, <1>2, <2>1, <2>2, <2>4, <2>5 DEF Fits
<1> QED BY <1>3, <1>4, <1>5

\* A context has the types of its key and those it has named itself, and each
\* setting of a type has the last value that a configuration of the key or a
\* call of this context gave it; nothing of another key or request shows, in
\* any number of requests that share the cache (get_or_build, ModelBuilder).
THEOREM ContextsHaveTheirModel ==
  "apply_configuration of a new type" \notin Uses /\ KeysAreFields
    => (Spec => []ModelIsDeclared)
<1> SUFFICES ASSUME "apply_configuration of a new type" \notin Uses, KeysAreFields
             PROVE  Spec => []ModelIsDeclared
  OBVIOUS
<1>1. StageInv /\ [Next]_vars => StageInv' BY StageNext
<1>2. StageInv => ModelIsDeclared
  <2> SUFFICES ASSUME StageInv, NEW r \in Requests, at[r] = "open"
               PROVE  /\ builder[r].metas = Mine(key[r])
                                              \cup Named(key[r], Len(Configurations), asked[r])
                      /\ \A T \in builder[r].metas :
                            Fits(builder[r], key[r], Len(Configurations), asked[r], T)
    BY DEF ModelIsDeclared, Mine, Fits
  <2>1. Declared(builder[r], Mine(key[r]), key[r], Len(Configurations), asked[r])
    BY DEF StageInv, Stage
  <2>2. Mine(key[r]) \in SUBSET Types /\ builder[r].metas \subseteq Types
    BY DEF Mine, StageInv, BuilderInv, Good, Shaped
  <2>3. builder[r].metas = Mine(key[r]) \cup Named(key[r], Len(Configurations), asked[r])
    BY <2>1 DEF Declared
  <2>4. ASSUME NEW T \in builder[r].metas
        PROVE  Fits(builder[r], key[r], Len(Configurations), asked[r], T)
    BY <2>1, <2>2, DeclaredModel
  <2> QED BY <2>3, <2>4
<1> QED BY StageInit, <1>1, <1>2, PTL DEF Spec

-----------------------------------------------------------------------------
(* The names in a statement.                                                *)

MetaOf(b, T) == apply_config_to_meta(T, b.configs[T])

\* What is created is what the builder has now, and so is what a set has copied.
Fit(r) ==
  /\ Typed(builder[r].configs)
  /\ at[r] # "open" => created[r] = Nothing
  /\ \A T \in Types : sets[r][T] # Nothing =>
        T \in builder[r].metas /\ (created[r] # Nothing => T \in DOMAIN created[r])
  /\ created[r] # Nothing =>
        \A T \in DOMAIN created[r] : T \in builder[r].metas /\ created[r][T] = MetaOf(builder[r], T)
  /\ \A T \in Types : Taken(r, T) => sets[r][T].table = MetaOf(builder[r], T).table
  /\ sent[r] # Nothing => created[r] # Nothing /\ FitsTable(sent[r], created[r][sent[r].type])

FitInv ==
  /\ ScopeInv
  /\ created = [r \in Requests |-> created[r]]
  /\ \A k \in DOMAIN cache : Typed(cache[k].configs)
  /\ \A r \in Requests : Fit(r)

\* No call makes an entry of anything but what was given.
LEMMA NewConfigsTyped ==
  ASSUME NEW configs, Typed(configs), NEW call \in AllCalls, call.op \in Ops, call.type \in Types
  PROVE  Typed(NewConfigs(configs, call))
<1>1. CASE configs[call.type] # Nothing BY <1>1, NewConfigsGive
<1>2. CASE configs[call.type] = Nothing
  <2> DEFINE entry == EntryOf(configs, call.type)
             T == call.type
  <2>1. entry \in Entries /\ call.to \in GivenTo(call.op) BY EntryKeeps DEF GivenTo
  <2> HIDE DEF entry
  <2>2. CASE call.op \in {"entity", "to_table", "has_key"}
    BY <1>2, <2>2 DEF NewConfigs
  <2>3. CASE call.op = "has_column_name"
    <3> DEFINE e == [entry EXCEPT !.column[call.field] = call.to]
    <3>1. e \in Entries BY <2>1, <2>3 DEF Entries
    <3>2. NewConfigs(configs, call) = [configs EXCEPT ![T] = e]
      BY <2>3 DEF NewConfigs, entry
    <3> HIDE DEF e
    <3> QED BY <3>1, <3>2 DEF Typed
  <2>4. CASE call.op = "has_query_filter"
    <3> DEFINE e == [entry EXCEPT !.filter = call.to]
    <3>1. e \in Entries BY <2>1, <2>4 DEF Entries
    <3>2. NewConfigs(configs, call) = [configs EXCEPT ![T] = e]
      BY <2>4 DEF NewConfigs, entry
    <3> HIDE DEF e
    <3> QED BY <3>1, <3>2 DEF Typed
  <2> QED BY <2>2, <2>3, <2>4 DEF Ops
<1> QED BY <1>1, <1>2

\* A filter changes no name.
LEMMA FilterNamesNothing ==
  ASSUME NEW configs, Typed(configs), NEW call \in AllCalls, call.op = "has_query_filter",
         call.type \in Types, NEW T \in Types
  PROVE  apply_config_to_meta(T, NewConfigs(configs, call)[T]) = apply_config_to_meta(T, configs[T])
<1> DEFINE entry == EntryOf(configs, call.type)
           e == [entry EXCEPT !.filter = call.to]
<1>1. /\ entry \in Entries /\ entry # Nothing /\ call.to \in GivenTo("has_query_filter")
      /\ NewConfigs(configs, call) = [configs EXCEPT ![call.type] = e]
  BY EntryKeeps DEF GivenTo, NewConfigs
<1>2. apply_config_to_meta(T, EntryOf(configs, T)) = apply_config_to_meta(T, configs[T])
  BY DefaultIsCompiled DEF EntryOf, Else, apply_config_to_meta
<1> HIDE DEF entry
<1>3. e \in Entries /\ e.table = entry.table /\ e.keys = entry.keys /\ e.column = entry.column
  BY <1>1 DEF Entries
<1>4. e # Nothing BY <1>3, NothingAssumption
<1> HIDE DEF e
<1>5. apply_config_to_meta(T, e) = apply_config_to_meta(T, entry)
  BY <1>1, <1>3, <1>4 DEF apply_config_to_meta
<1> QED BY <1>1, <1>2, <1>5 DEF Typed, entry

\* Registering a type changes no name.
LEMMA RegisteredNames ==
  ASSUME NEW b, Good(b), Typed(b.configs), NEW T \in Types, NEW U \in Types
  PROVE  MetaOf(Registered(b, T), U) = MetaOf(b, U)
<1> DEFINE now == [b.configs EXCEPT ![T] = EntryOf(b.configs, T)]
<1>1. Registered(b, T).configs = now BY RegisteredEntry
<1>2. b.configs = [V \in Types |-> b.configs[V]] BY DEF Good, Shaped
<1>3. /\ now = [V \in Types |-> now[V]]
      /\ apply_config_to_meta(U, now[U]) = apply_config_to_meta(U, b.configs[U])
      /\ get_query_filter(now, U) = get_query_filter(b.configs, U)
  BY <1>2, EntryChangesNothing
<1> HIDE DEF now
<1> QED BY <1>1, <1>3 DEF MetaOf

\* A call names its type, and only a filter leaves the names alone.
LEMMA WithNames ==
  ASSUME NEW b, Good(b), Typed(b.configs), NEW call \in AllCalls,
         call.op \in Ops, call.type \in Types
  PROVE  /\ Typed(With(b, call).configs) /\ b.metas \subseteq With(b, call).metas
         /\ call.op = "has_query_filter" =>
               \A T \in Types : MetaOf(With(b, call), T) = MetaOf(b, T)
<1> DEFINE e == Entered(b, call)
<1>1. /\ Typed(e.configs) /\ b.metas \subseteq e.metas
      /\ \A T \in Types : MetaOf(e, T) = MetaOf(b, T)
  <2>1. CASE call.via = "entity"
    <3>1. e = Registered(b, call.type) BY <2>1 DEF Entered
    <3> QED BY <3>1, RegisteredKeeps, RegisteredIsGood, RegisteredNames
  <2>2. CASE call.via # "entity"
    <3>1. e = Pushed(b, call.type) BY <2>2 DEF Entered
    <3>2. e.configs = b.configs /\ b.metas \subseteq e.metas BY <3>1 DEF Pushed, Builder
    <3> QED BY <3>2 DEF MetaOf
  <2> QED BY <2>1, <2>2
<1> HIDE DEF e
<1>2. With(b, call).metas = e.metas /\ With(b, call).configs = NewConfigs(e.configs, call)
  BY DEF With, Builder, NewConfigs, e
<1> QED BY <1>1, <1>2, NewConfigsTyped, FilterNamesNothing DEF MetaOf

\* So does set::<T>().
LEMMA HoldingNames ==
  ASSUME NEW b, Good(b), Typed(b.configs), NEW T \in Types
  PROVE  /\ Typed(Holding(b, T).configs) /\ Holding(b, T).metas = b.metas \cup {T}
         /\ \A U \in Types : MetaOf(Holding(b, T), U) = MetaOf(b, U)
<1>1. CASE T \in b.metas BY <1>1 DEF Holding
<1>2. CASE T \notin b.metas
  BY <1>2, HoldingKeeps, RegisteredNames DEF Holding
<1> QED BY <1>1, <1>2

LEMMA FitInit == Init => FitInv
<1> SUFFICES ASSUME Init PROVE FitInv OBVIOUS
<1>1. /\ created = [r \in Requests |-> created[r]] /\ DOMAIN cache = {}
      /\ \A r \in Requests : /\ builder[r] = NewBuilder /\ created[r] = Nothing /\ sent[r] = Nothing
                             /\ sets[r] = [T \in Types |-> Nothing]
  BY DEF Init, NoCache
<1>2. Typed(NewBuilder.configs) BY DEF NewBuilder, Typed
<1>3. \A r \in Requests : Fit(r) BY <1>1, <1>2 DEF Fit, Taken
<1> QED BY <1>1, <1>3, ScopeInit DEF FitInv

\* A step of r leaves the other requests alone.
LEMMA OneFit ==
  ASSUME FitInv, ScopeInv', NEW r \in Requests, Fit(r)',
         NEW a, at' = [at EXCEPT ![r] = a],
         NEW s, sets' = [sets EXCEPT ![r] = s],
         NEW c, asked' = [asked EXCEPT ![r] = c],
         NEW m, sent' = [sent EXCEPT ![r] = m],
         NEW b, builder' = [builder EXCEPT ![r] = b],
         NEW d, created' = [created EXCEPT ![r] = d],
         \A k \in DOMAIN cache' : Typed(cache'[k].configs)
  PROVE  FitInv'
<1>1. ASSUME NEW x \in Requests, x # r PROVE Fit(x)'
  <2>1. /\ at'[x] = at[x] /\ sets'[x] = sets[x] /\ asked'[x] = asked[x] /\ sent'[x] = sent[x]
        /\ builder'[x] = builder[x] /\ created'[x] = created[x]
    BY <1>1 DEF FitInv, ScopeInv, BuilderInv
  <2>2. Fit(x) /\ (\A T : Taken(x, T)' <=> Taken(x, T)) BY <2>1 DEF FitInv, Taken
  <2> QED BY <2>1, <2>2 DEF Fit, MetaOf
<1>2. created' = [x \in Requests |-> created'[x]] BY DEF FitInv
<1> QED BY <1>1, <1>2 DEF FitInv

\* A step of a request that has no context, or loses it.
LEMMA FitOutside ==
  ASSUME FitInv, ScopeInv', NEW r \in Requests,
         \/ Begin(r) \/ ReadCache(r) \/ WriteCache(r) \/ Configured(r)
         \/ Panic(r) \/ FinishBuild(r) \/ Close(r)
  PROVE  FitInv'
<1>1. ASSUME NEW a, at' = [at EXCEPT ![r] = a], at[r] # "open",
             UNCHANGED <<sets, created, asked, sent>>,
             NEW b, builder' = [builder EXCEPT ![r] = b], Typed(b.configs),
             \A k \in DOMAIN cache' : Typed(cache'[k].configs)
      PROVE  FitInv'
  <2>1. /\ builder'[r] = b /\ created'[r] = Nothing /\ sent'[r] = Nothing
        /\ \A T \in Types : sets'[r][T] = Nothing
    BY <1>1 DEF FitInv, Fit, ScopeInv, Scope, BuilderInv
  <2>2. Fit(r)' BY <1>1, <2>1 DEF Fit, Taken
  <2>3. /\ sets' = [sets EXCEPT ![r] = sets[r]] /\ asked' = [asked EXCEPT ![r] = asked[r]]
        /\ sent' = [sent EXCEPT ![r] = sent[r]] /\ created' = [created EXCEPT ![r] = created[r]]
    BY <1>1 DEF FitInv, ScopeInv
  <2> QED BY <1>1, <2>2, <2>3, OneFit
<1>2. ASSUME Drop(r), cache' = cache PROVE FitInv'
  <2>1. /\ created'[r] = Nothing /\ sent'[r] = Nothing /\ sets'[r] = [T \in Types |-> Nothing]
        /\ builder'[r] = NewBuilder
    BY <1>2 DEF Drop, FitInv, ScopeInv, BuilderInv
  <2>2. Typed(NewBuilder.configs) BY DEF NewBuilder, Typed
  <2>3. \A T \in Types : sets'[r][T] = Nothing BY <2>1
  <2>4. Fit(r)' BY <2>1, <2>2, <2>3 DEF Fit, Taken
  <2>5. \A k \in DOMAIN cache' : Typed(cache'[k].configs) BY <1>2 DEF FitInv
  <2> QED BY <1>2, <2>4, <2>5, OneFit DEF Drop
<1>3. /\ builder = [builder EXCEPT ![r] = builder[r]] /\ at = [at EXCEPT ![r] = at[r]]
      /\ Typed(builder[r].configs) /\ Good(builder[r])
      /\ \A k \in DOMAIN cache : Typed(cache[k].configs)
  BY DEF FitInv, Fit, ScopeInv, BuilderInv
<1>4. ASSUME NEW found, Open(r, found), Typed(found.configs), at[r] # "open",
             \A k \in DOMAIN cache' : Typed(cache'[k].configs)
      PROVE  FitInv'
  <2>1. Typed(from_built(found).configs) BY <1>4 DEF from_built
  <2> QED BY <1>1, <1>4, <2>1 DEF Open, own
<1>5. CASE Panic(r) \/ Close(r) BY <1>2, <1>5 DEF Panic, Close
<1>6. CASE Begin(r) BY <1>1, <1>3, <1>6 DEF Begin, GoTo, own
<1>7. CASE ReadCache(r)
  <2>1. CASE key[r] \in DOMAIN cache /\ Open(r, cache[key[r]])
    BY <1>3, <1>4, <1>7, <2>1 DEF ReadCache
  <2>2. CASE GoTo(r, "write") BY <1>1, <1>3, <1>7, <2>2 DEF ReadCache, GoTo, own
  <2> QED BY <1>7, <2>1, <2>2 DEF ReadCache
<1>8. CASE WriteCache(r)
  <2> DEFINE now == IF poisoned THEN NoCache ELSE cache
  <2>1. cache' = now /\ at[r] # "open" /\ \A k \in DOMAIN now : Typed(now[k].configs)
    BY <1>3, <1>8 DEF WriteCache, NoCache
  <2>2. CASE key[r] \in DOMAIN now
    <3>1. Open(r, now[key[r]]) BY <1>8, <2>2 DEF WriteCache
    <3> HIDE DEF now
    <3> QED BY <1>4, <2>1, <2>2, <3>1
  <2>3. CASE key[r] \notin DOMAIN now
    <3>1. at' = [at EXCEPT ![r] = "build"] /\ UNCHANGED <<builder, sets, created, asked, sent>>
      BY <1>8, <2>3 DEF WriteCache, own
    <3> HIDE DEF now
    <3> QED BY <1>1, <1>3, <2>1, <3>1
  <2> QED BY <2>2, <2>3
<1>9. CASE Configured(r)
  <2> DEFINE step == Configurations[position']
             e == Registered(builder[r], step.type)
             b == ApplyFn(builder[r], key[r], step)
  <2>1. /\ position \in Nat /\ position' = position + 1 /\ position < Len(Configurations)
        /\ at[r] # "open" /\ at' = at /\ UNCHANGED <<cache, sets, created, asked, sent>>
        /\ builder' = [builder EXCEPT ![r] = b]
    BY <1>9 DEF Configured, own, FitInv, ScopeInv, BuilderInv
  <2>2. step \in AllCalls /\ step.op \in Ops /\ step.type \in Types
    <3>1. position' \in DOMAIN Configurations BY <2>1, ModelAssumption
    <3> QED BY <3>1, ModelAssumption DEF AllCalls
  <2> HIDE DEF step
  <2>3. Typed(b.configs)
    <3>1. Good(e) /\ Typed(e.configs) BY <1>3, <2>2, RegisteredIsGood, RegisteredKeeps
    <3> HIDE DEF e
    <3>2. Typed(With(e, step).configs) BY <2>2, <3>1, WithNames
    <3> QED BY <1>3, <3>2 DEF ApplyFn, e
  <2> HIDE DEF b
  <2> QED BY <1>1, <1>3, <2>1, <2>3
<1>10. CASE FinishBuild(r)
  <2> DEFINE found == Discovered(builder[r], key[r])
  <2>1. /\ Open(r, found) /\ at[r] # "open"
        /\ cache' = [k \in DOMAIN cache \cup {key[r]} |-> IF k = key[r] THEN found ELSE cache[k]]
    BY <1>10 DEF FinishBuild
  <2>2. Typed(found.configs)
    <3> DEFINE configs == builder[r].configs
               mine == {T \in Types : KeyOf[T] = key[r]}
    <3>1. found.configs = [T \in Types |-> IF T \in mine \ builder[r].metas
                                           THEN EntryOf(configs, T) ELSE configs[T]]
      BY DEF Discovered
    <3>2. \A T \in Types : EntryOf(configs, T) \in Entries BY <1>3, EntryKeeps
    <3>3. \A T \in Types : configs[T] \in Entries \cup {Nothing} BY <1>3 DEF Typed
    <3> HIDE DEF configs, mine, found
    <3> QED BY <3>1, <3>2, <3>3 DEF Typed
  <2> HIDE DEF found
  <2>3. \A k \in DOMAIN cache' : Typed(cache'[k].configs) BY <1>3, <2>1, <2>2
  <2> QED BY <1>4, <2>1, <2>2, <2>3
<1> QED BY <1>5, <1>6, <1>7, <1>8, <1>9, <1>10

\* build() gives the names that the builder has now.
LEMMA BuildNames ==
  ASSUME NEW b, Good(b)
  PROVE  DOMAIN BuildNow(b) = b.metas /\ \A T \in b.metas : BuildNow(b)[T] = MetaOf(b, T)
<1>1. BuildNow(b) = Build(b.metas, b.configs) BY DEF BuildNow, Else, Good, Current
<1> QED BY <1>1 DEF Build, MetaOf

\* A call on the builder: a name changes only before the tables are made.
LEMMA FitConfigure ==
  ASSUME FitInv, ScopeInv', NEW r \in Requests, NEW call \in Calls, Configure(r, call),
         "rename after create" \notin Uses
  PROVE  FitInv'
<1> DEFINE b == builder[r]
           d == With(b, call)
<1>1. /\ at[r] = "open" /\ UNCHANGED <<at, sets, created, cache>>
      /\ asked' = [asked EXCEPT ![r] = Append(asked[r], call)]
      /\ sent' = [sent EXCEPT ![r] = Nothing] /\ builder' = [builder EXCEPT ![r] = d]
      /\ call.op = "has_query_filter" \/ created[r] = Nothing
  BY DEF Configure, Ask, Used
<1>2. /\ call \in AllCalls /\ call \in Asked /\ call.op \in Ops /\ call.op # "set"
      /\ call.type \in Types
  BY ModelAssumption DEF AllCalls, Asked, Ops
<1>3. Fit(r) /\ Good(b) /\ asked[r] \in Seq(Asked) BY DEF FitInv, ScopeInv, Scope, BuilderInv
<1>4. /\ Typed(d.configs) /\ b.metas \subseteq d.metas
      /\ call.op = "has_query_filter" => \A T \in Types : MetaOf(d, T) = MetaOf(b, T)
  BY <1>2, <1>3, WithNames DEF Fit
<1> HIDE DEF d
<1>5. /\ at'[r] = "open" /\ builder'[r] = d /\ sent'[r] = Nothing
      /\ asked'[r] = Append(asked[r], call)
      /\ at' = [at EXCEPT ![r] = at[r]] /\ sets' = [sets EXCEPT ![r] = sets[r]]
      /\ created' = [created EXCEPT ![r] = created[r]]
  BY <1>1 DEF FitInv, ScopeInv, BuilderInv
<1>6. \A T \in Types : ~Taken(r, T)' BY <1>2, <1>3, <1>5, NoneTaken
<1>7. b.metas \subseteq Types BY <1>3 DEF Good, Shaped
<1>8. created[r] # Nothing =>
        \A T \in DOMAIN created[r] : T \in d.metas /\ created[r][T] = MetaOf(d, T)
  BY <1>1, <1>3, <1>4, <1>7 DEF Fit
<1>9. Fit(r)' BY <1>1, <1>3, <1>4, <1>5, <1>6, <1>8 DEF Fit, MetaOf
<1>10. \A k \in DOMAIN cache' : Typed(cache'[k].configs) BY <1>1 DEF FitInv
<1> QED BY <1>1, <1>5, <1>9, <1>10, OneFit

\* set::<T>() copies the name of the table.
LEMMA FitGetSet ==
  ASSUME FitInv, ScopeInv', NEW r \in Requests, NEW T \in Types, GetSet(r, T)
  PROVE  FitInv'
<1> DEFINE b == builder[r]
           h == Holding(b, T)
           d == Caching(h)
           set == SetOf(h, T)
           call == [op |-> "set", type |-> T]
<1>1. /\ at[r] = "open" /\ UNCHANGED <<at, created, cache>>
      /\ created[r] # Nothing => T \in DOMAIN created[r]
      /\ sets' = [sets EXCEPT ![r][T] = set]
      /\ asked' = [asked EXCEPT ![r] = Append(asked[r], call)]
      /\ sent' = [sent EXCEPT ![r] = Nothing] /\ builder' = [builder EXCEPT ![r] = d]
  BY DEF GetSet, Ask
<1>2. /\ Fit(r) /\ Good(b) /\ asked[r] \in Seq(Asked) /\ call \in Asked
      /\ sets[r] = [U \in Types |-> sets[r][U]] /\ b.metas \subseteq Types
  BY DEF FitInv, ScopeInv, Scope, BuilderInv, Asked, Good, Shaped
<1>3. /\ Good(h) /\ Typed(h.configs) /\ h.metas = b.metas \cup {T}
      /\ \A U \in Types : MetaOf(h, U) = MetaOf(b, U)
  BY <1>2, HoldingNames, HoldingIsGood DEF Fit
<1>4. set.table = MetaOf(h, T).table
  <2>1. set.table = BuildNow(h)[T].table BY DEF SetOf
  <2> HIDE DEF h
  <2> QED BY <1>3, <2>1, BuildNames
<1> HIDE DEF h
<1>5. d.metas = h.metas /\ d.configs = h.configs BY <1>3, CachingIsGood
<1> HIDE DEF d, set
<1>6. \A U \in Types : MetaOf(d, U) = MetaOf(b, U) BY <1>3, <1>5 DEF MetaOf
<1>7. /\ at'[r] = "open" /\ builder'[r] = d /\ sent'[r] = Nothing /\ created'[r] = created[r]
      /\ asked'[r] = Append(asked[r], call)
      /\ sets'[r][T] = set /\ \A U \in Types : U # T => sets'[r][U] = sets[r][U]
      /\ at' = [at EXCEPT ![r] = at[r]] /\ sets' = [sets EXCEPT ![r] = [sets[r] EXCEPT ![T] = set]]
      /\ created' = [created EXCEPT ![r] = created[r]]
  BY <1>1, <1>2 DEF FitInv, ScopeInv, BuilderInv
<1>8. ASSUME NEW U \in Types, Taken(r, U)' PROVE sets'[r][U].table = MetaOf(d, U).table
  <2>1. CASE U = T BY <1>3, <1>4, <1>6, <1>7, <2>1
  <2>2. CASE U # T
    <3>1. Taken(r, U) BY <1>2, <1>7, <1>8, <2>2, TakenBefore
    <3> QED BY <1>2, <1>6, <1>7, <2>2, <3>1 DEF Fit
  <2> QED BY <2>1, <2>2
<1>9. \A U \in Types : sets'[r][U] # Nothing =>
        U \in d.metas /\ (created[r] # Nothing => U \in DOMAIN created[r])
  BY <1>1, <1>2, <1>3, <1>5, <1>7 DEF Fit
<1>10. created[r] # Nothing =>
         \A U \in DOMAIN created[r] : U \in d.metas /\ created[r][U] = MetaOf(d, U)
  BY <1>2, <1>3, <1>5, <1>6 DEF Fit
<1>11. Fit(r)' BY <1>1, <1>3, <1>5, <1>7, <1>8, <1>9, <1>10 DEF Fit, MetaOf
<1>12. \A k \in DOMAIN cache' : Typed(cache'[k].configs) BY <1>1 DEF FitInv
<1> QED BY <1>1, <1>7, <1>11, <1>12, OneFit

\* A builder that fills a cache.
LEMMA FitFills ==
  ASSUME FitInv, ScopeInv', NEW r \in Requests, at[r] = "open",
         UNCHANGED <<cache, at, sets, asked>>,
         builder' = builder \/ builder' = [builder EXCEPT ![r].built = BuildNow(builder[r])],
         NEW m, sent' = [sent EXCEPT ![r] = m],
         NEW d, created' = [created EXCEPT ![r] = d],
         \/ d = created[r] /\ (m # Nothing => d # Nothing /\ FitsTable(m, d[m.type]))
         \/ created[r] = Nothing /\ m = Nothing /\ d = BuildNow(builder[r])
  PROVE  FitInv'
<1>1. PICK b : /\ builder' = [builder EXCEPT ![r] = b]
               /\ b.metas = builder[r].metas /\ b.configs = builder[r].configs
  <2>1. CASE builder' = builder
    <3> builder' = [builder EXCEPT ![r] = builder[r]] BY <2>1 DEF FitInv, ScopeInv, BuilderInv
    <3> QED OBVIOUS
  <2>2. CASE builder' = [builder EXCEPT ![r].built = BuildNow(builder[r])]
    <3> DEFINE b == [builder[r] EXCEPT !.built = BuildNow(builder[r])]
    <3>1. builder' = [builder EXCEPT ![r] = b] BY <2>2
    <3>2. b.metas = builder[r].metas /\ b.configs = builder[r].configs
      BY CachingIsGood DEF FitInv, ScopeInv, BuilderInv
    <3> HIDE DEF b
    <3> QED BY <3>1, <3>2
  <2> QED BY <2>1, <2>2
<1>2. /\ builder'[r] = b /\ sent'[r] = m /\ created'[r] = d /\ at'[r] = "open"
      /\ at' = [at EXCEPT ![r] = at[r]] /\ sets' = [sets EXCEPT ![r] = sets[r]]
      /\ asked' = [asked EXCEPT ![r] = asked[r]]
  BY <1>1 DEF FitInv, ScopeInv, BuilderInv
<1>3. /\ Fit(r) /\ Good(builder[r]) /\ \A T \in Types : MetaOf(b, T) = MetaOf(builder[r], T)
      /\ builder[r].metas \subseteq Types
  BY <1>1 DEF FitInv, ScopeInv, BuilderInv, MetaOf, Good, Shaped
<1>4. \A T \in Types : Taken(r, T)' => Taken(r, T) BY <1>2 DEF Taken
<1>5. /\ Typed(b.configs)
      /\ \A T \in Types : Taken(r, T)' => sets'[r][T].table = MetaOf(b, T).table
  BY <1>1, <1>2, <1>3, <1>4 DEF Fit
<1>6. /\ \A T \in Types : sets'[r][T] # Nothing =>
            T \in b.metas /\ (d # Nothing => T \in DOMAIN d)
      /\ d # Nothing => \A T \in DOMAIN d : T \in b.metas /\ d[T] = MetaOf(b, T)
      /\ m # Nothing => d # Nothing /\ FitsTable(m, d[m.type])
  <2>1. CASE d = created[r] BY <1>1, <1>2, <1>3, <2>1 DEF Fit
  <2>2. CASE m = Nothing /\ d = BuildNow(builder[r])
    <3>1. DOMAIN d = builder[r].metas /\ \A T \in builder[r].metas : d[T] = MetaOf(builder[r], T)
      BY <1>3, <2>2, BuildNames
    <3> QED BY <1>1, <1>2, <1>3, <2>2, <3>1 DEF Fit
  <2> QED BY <2>1, <2>2
<1>7. Fit(r)' BY <1>2, <1>5, <1>6 DEF Fit, MetaOf
<1>8. \A k \in DOMAIN cache' : Typed(cache'[k].configs) BY DEF FitInv
<1> QED BY <1>1, <1>2, <1>7, <1>8, OneFit

FitUses == {"configure after set", "rename after create", "navigation to a renamed table",
            "query of a renamed column", "find by a new key", "save by a new key",
            "key in a column of another name"}

\* What is compared by names of fields is the key where they are its columns.
LEMMA FieldNamesMatch ==
  ASSUME NEW T \in Types, NEW made, made.keys = Compiled[T].keys,
         \A f \in Compiled[T].keys : made.column[f] = f
  PROVE  ByFieldName(T) = Pairs(made, made.keys)
BY DEF ByFieldName, Pairs

\* UPDATE and DELETE find the row of an entity by the key of its table, if that
\* is the compiled one.
LEMMA MatchedIsKey ==
  ASSUME NEW T \in Types, NEW made, made.keys = Compiled[T].keys, made.keys \subseteq Fields,
         PerRow(T, made) => \A f \in Compiled[T].keys : made.column[f] = f
  PROVE  /\ Pairs(made, made.keys) \subseteq Matched(T, made)
         /\ Matched(T, made) \subseteq Pairs(made, Fields)
         /\ \A pair \in Matched(T, made) : pair[2] # Nothing
<1>1. Nothing \notin Fields /\ Token[T] \subseteq Fields BY ModelAssumption
<1>2. \A pair \in Pairs(made, Fields) : pair[2] # Nothing BY <1>1 DEF Pairs
<1>3. CASE PerRow(T, made)
  <2>1. Matched(T, made) = Pairs(made, made.keys) \cup Pairs(made, Token[T])
    BY <1>3, FieldNamesMatch DEF Matched
  <2>2. Pairs(made, made.keys) \subseteq Pairs(made, Fields)
        /\ Pairs(made, Token[T]) \subseteq Pairs(made, Fields)
    BY <1>1 DEF Pairs
  <2> QED BY <1>2, <2>1, <2>2
<1>4. CASE ~PerRow(T, made)
  <2>1. Matched(T, made) = Pairs(made, made.keys) BY <1>4 DEF Matched, Pairs
  <2>2. Pairs(made, made.keys) \subseteq Pairs(made, Fields) BY DEF Pairs
  <2> QED BY <1>2, <2>1, <2>2
<1> QED BY <1>3, <1>4

\* A configuration leaves a key of fields.
LEMMA KeysOfFields ==
  ASSUME NEW b, NEW T \in Types
  PROVE  MetaOf(b, T).keys \subseteq Fields
<1>1. Compiled[T].keys \subseteq Fields BY ModelAssumption DEF Metas
<1> QED BY <1>1 DEF MetaOf, apply_config_to_meta

\* The names of a statement are those of the table it is for.
LEMMA FitStatement ==
  ASSUME FitInv, NEW r \in Requests, NEW T \in Types, FitUses \cap Uses = {}, Sending(r, T)
  PROVE  \E m : /\ sent' = [sent EXCEPT ![r] = m]
                /\ m.type = T /\ FitsTable(m, created[r][T])
<1> DEFINE b == builder[r]
           made == created[r][T]
           now == BuildNow(b)[T]
           Sent == \E m : sent' = [sent EXCEPT ![r] = m] /\ m.type = T /\ FitsTable(m, made)
<1>1. created[r] # Nothing BY SendingIs DEF Working
<1>2. Fit(r) /\ Good(b) BY DEF FitInv, ScopeInv, BuilderInv
<1>3. \A U \in Types : UsesSet(r, U) =>
        /\ U \in b.metas /\ U \in DOMAIN created[r] /\ created[r][U] = MetaOf(b, U)
        /\ sets[r][U].table = created[r][U].table /\ BuildNow(b)[U] = created[r][U]
  <2>1. \A U \in Types : UsesSet(r, U) => Taken(r, U) /\ sets[r][U] # Nothing
    BY DEF UsesSet, Taken, Used, FitUses
  <2> QED BY <1>1, <1>2, <2>1, BuildNames DEF Fit
<1>4. ASSUME NEW what, NEW name, NEW meta, NEW where, NEW filter,
             name = made.table, meta.column = made.column,
             what \in OneEntity => Pairs(made, made.keys) \subseteq where,
             where \subseteq Pairs(made, Fields),
             sent' = [sent EXCEPT ![r] = Statement(what, T, name, meta, where, filter)]
      PROVE  Sent
  <2> DEFINE m == Statement(what, T, name, meta, where, filter)
  <2>1. m.type = T /\ m.what = what /\ m.table = name /\ m.columns = Names(meta)
        /\ m.where = where
    BY DEF Statement
  <2>2. Names(meta) = Names(made) BY <1>4 DEF Names
  <2> HIDE DEF m
  <2>3. FitsTable(m, made) BY <1>4, <2>1, <2>2 DEF FitsTable
  <2>4. sent' = [sent EXCEPT ![r] = m] BY <1>4 DEF m
  <2> QED BY <2>1, <2>3, <2>4
<1> SUFFICES Sent OBVIOUS
<1> HIDE DEF Sent
<1>5. ASSUME NEW what, NEW where, Reading(r, T, what, where),
             what \in OneEntity => Pairs(made, made.keys) \subseteq where,
             where \subseteq Pairs(made, Fields)
      PROVE  Sent
  <2>1. Compiled[T].column = made.column /\ sets[r][T].table = made.table
    BY <1>3, <1>5 DEF Reading, Renamed, Used, FitUses
  <2>2. sent' = [sent EXCEPT ![r] = Statement(what, T, sets[r][T].table, Compiled[T], where,
                                              sets[r][T].filter)]
    BY <1>5 DEF Reading, Send
  <2> QED BY <1>4, <1>5, <2>1, <2>2
<1>6. ASSUME NEW what, NEW where, NEW filter, Writes(r, T, what, where, filter),
             what \in OneEntity => Pairs(made, made.keys) \subseteq where,
             where \subseteq Pairs(made, Fields)
      PROVE  Sent
  <2>1. now = made BY <1>3, <1>6 DEF Writes
  <2>2. sent' = [sent EXCEPT ![r] = Statement(what, T, now.table, now, where, filter)]
    BY <1>6 DEF Writes, Send
  <2> HIDE DEF now
  <2> QED BY <1>4, <1>6, <2>1, <2>2
<1>7. ASSUME NEW U \in Types, NEW what, NEW filter, Along(r, U, T, what, filter),
             what \notin OneEntity
      PROVE  Sent
  <2>1. Compiled[T].column = made.column /\ Compiled[T].table = made.table
    BY <1>7 DEF Along, Renamed, Used, FitUses
  <2>2. sent' = [sent EXCEPT ![r] = Statement(what, T, Compiled[T].table, Compiled[T], {}, filter)]
    BY <1>7 DEF Along, Send
  <2> QED BY <1>4, <1>7, <2>1, <2>2
<1>8. UsesSet(r, T) => made.keys \subseteq Fields /\ Pairs(made, made.keys) \subseteq Pairs(made, Fields)
  BY <1>3, KeysOfFields DEF Pairs
<1>9. ~KeyElsewhere(r, T) => \A f \in Compiled[T].keys : made.column[f] = f BY DEF KeyElsewhere
<1>10. CASE Query(r, T)
  <2>1. "query" \notin OneEntity BY DEF OneEntity
  <2> QED BY <1>5, <1>10, <2>1 DEF Query
<1>11. CASE Find(r, T)
  <2>1. made.keys = Compiled[T].keys BY <1>11 DEF Find, Rekeyed, Used, FitUses
  <2>2. ASSUME NEW where, Reading(r, T, "find", where), where = Pairs(made, made.keys) PROVE Sent
    <3>1. UsesSet(r, T) BY <2>2 DEF Reading
    <3> QED BY <1>5, <1>8, <2>2, <3>1
  <2>3. CASE Reading(r, T, "find", Pairs(Compiled[T], Compiled[T].keys))
    <3>1. Compiled[T].column = made.column BY <2>3 DEF Reading, Renamed, Used, FitUses
    <3>2. Pairs(Compiled[T], Compiled[T].keys) = Pairs(made, made.keys) BY <2>1, <3>1 DEF Pairs
    <3> QED BY <2>2, <2>3, <3>2
  <2>4. CASE Reading(r, T, "find", ByFieldName(T)) /\ ~KeyElsewhere(r, T)
    <3>1. ByFieldName(T) = Pairs(made, made.keys) BY <1>9, <2>1, <2>4, FieldNamesMatch
    <3> QED BY <2>2, <2>4, <3>1
  <2> QED BY <1>11, <2>3, <2>4 DEF Find, Used, FitUses
<1>12. CASE Insert(r, T)
  <2>1. "insert" \notin OneEntity BY DEF OneEntity
  <2> QED BY <1>6, <1>12, <2>1 DEF Insert
<1>13. CASE Upsert(r, T)
  <2>1. UsesSet(r, T) /\ Writes(r, T, "upsert", Pairs(now, now.keys), Nothing)
    BY <1>13 DEF Upsert, Writes
  <2>2. now = made BY <1>3, <2>1
  <2> HIDE DEF now
  <2> QED BY <1>6, <1>8, <2>1, <2>2
<1>14. ASSUME UsesSet(r, T), ByKey(r, T)
       PROVE  /\ now = made
              /\ Pairs(made, made.keys) \subseteq Matched(T, made)
              /\ Matched(T, made) \subseteq Pairs(made, Fields)
              /\ \A pair \in Matched(T, made) : pair[2] # Nothing
  <2>1. now = made BY <1>3, <1>14
  <2>2. made.keys = Compiled[T].keys /\ (PerRow(T, made) => ~KeyElsewhere(r, T))
    BY <1>14, <2>1 DEF ByKey, Rekeyed, Used, FitUses
  <2> HIDE DEF now
  <2> QED BY <1>8, <1>9, <1>14, <2>1, <2>2, MatchedIsKey
<1>15. CASE Update(r, T)
  <2>1. /\ Writes(r, T, "update", Matched(T, now), sets[r][T].filter)
        /\ UsesSet(r, T) /\ ByKey(r, T)
    BY <1>15 DEF Update, Writes
  <2> HIDE DEF now
  <2> QED BY <1>6, <1>14, <2>1
<1>16. CASE Delete(r, T)
  <2> DEFINE where == {pair \in Matched(T, now) : pair[2] # Nothing}
  <2>1. /\ Writes(r, T, "delete", where, sets[r][T].filter)
        /\ UsesSet(r, T) /\ ByKey(r, T)
    BY <1>16 DEF Delete, Writes
  <2> HIDE DEF now
  <2>2. where = Matched(T, made) BY <1>14, <2>1
  <2> HIDE DEF where
  <2> QED BY <1>6, <1>14, <2>1, <2>2
<1>17. CASE SelfReference(r, T)
  <2>1. PICK f \in now.keys, g \in Compiled[T].keys :
               Writes(r, T, "link", {<<now.column[f], g>>}, Nothing)
    BY <1>17 DEF SelfReference
  <2>2. T \in Trees /\ UsesSet(r, T) /\ made.keys = Compiled[T].keys
    BY <1>17 DEF SelfReference, Rekeyed, Used, FitUses
  <2>3. now = made BY <1>3, <2>2
  <2>4. PICK h : Compiled[T].keys = {h} BY <2>2, ModelAssumption
  <2> HIDE DEF now
  <2>5. {<<now.column[f], g>>} = Pairs(made, made.keys) BY <2>1, <2>2, <2>3, <2>4 DEF Pairs
  <2> QED BY <1>6, <1>8, <2>1, <2>2, <2>5
<1>18. ASSUME NEW U \in Types, Include(r, U, T) \/ Cascade(r, U, T) PROVE Sent
  <2>1. "include" \notin OneEntity /\ "cascade" \notin OneEntity BY DEF OneEntity
  <2>2. CASE Include(r, U, T) BY <1>7, <2>1, <2>2 DEF Include
  <2>3. CASE Cascade(r, U, T) BY <1>7, <2>1, <2>3 DEF Cascade
  <2> QED BY <1>18, <2>2, <2>3
<1> QED BY <1>10, <1>11, <1>12, <1>13, <1>15, <1>16, <1>17, <1>18 DEF Sending

LEMMA FitSend ==
  ASSUME FitInv, ScopeInv', NEW r \in Requests, NEW T \in Types, FitUses \cap Uses = {},
         Sending(r, T)
  PROVE  FitInv'
<1>1. /\ at[r] = "open" /\ created[r] # Nothing /\ UNCHANGED <<cache, at, sets, asked, created>>
      /\ Fills(r)
  BY SendingIs DEF Working
<1>2. PICK m : sent' = [sent EXCEPT ![r] = m] /\ m.type = T /\ FitsTable(m, created[r][T])
  BY FitStatement
<1>3. created' = [created EXCEPT ![r] = created[r]] BY <1>1 DEF FitInv
<1> QED BY <1>1, <1>2, <1>3, FitFills DEF Fills

LEMMA FitCreate ==
  ASSUME FitInv, ScopeInv', NEW r \in Requests, EnsureCreated(r)
  PROVE  FitInv'
<1>1. /\ at[r] = "open" /\ created[r] = Nothing /\ UNCHANGED <<cache, at, sets, asked, sent>>
      /\ created' = [created EXCEPT ![r] = BuildNow(builder[r])]
      /\ builder' = [builder EXCEPT ![r].built = BuildNow(builder[r])]
  BY DEF EnsureCreated
<1>2. sent[r] = Nothing /\ sent' = [sent EXCEPT ![r] = sent[r]]
  BY <1>1 DEF FitInv, Fit, ScopeInv
<1> QED BY <1>1, <1>2, FitFills

\* Where sets are taken after the last call on the builder, tables are made
\* after the last renaming, and what the macro has compiled in was neither
\* renamed nor given another key, every statement names the table and columns
\* that ensure_created() gave its type, and one that looks for an entity compares
\* the whole key, each column with the field that is stored there: saves too,
\* row by row or in a batch (executor_dml.rs), in any number of requests.
THEOREM StatementsFit ==
  FitUses \cap Uses = {} => (Spec => []StatementsFitTheTables)
<1> SUFFICES ASSUME FitUses \cap Uses = {} PROVE Spec => []StatementsFitTheTables OBVIOUS
<1>1. FitInv /\ [Next]_vars => FitInv'
  <2> SUFFICES ASSUME FitInv, [Next]_vars PROVE FitInv' OBVIOUS
  <2>1. "configure after set" \notin Uses /\ "rename after create" \notin Uses BY DEF FitUses
  <2>2. ScopeInv' BY <2>1, ScopeNext DEF FitInv
  <2>3. CASE Next
    <3>1. ASSUME NEW r \in Requests, NEW call \in Calls, Configure(r, call) PROVE FitInv'
      BY <2>1, <2>2, <3>1, FitConfigure
    <3>2. ASSUME NEW r \in Requests, NEW T \in Types,
                 Sending(r, T)
          PROVE  FitInv'
      BY <2>2, <3>2, FitSend
    <3> QED BY <2>2, <2>3, <3>1, <3>2, FitOutside, FitGetSet, FitCreate, NextIs
  <2>4. CASE UNCHANGED vars
    <3>1. \A r \in Requests : Fit(r)' BY <2>4 DEF vars, FitInv, Fit, Taken, MetaOf
    <3> QED BY <2>2, <2>4, <3>1 DEF vars, FitInv
  <2> QED BY <2>3, <2>4
<1>2. FitInv => StatementsFitTheTables BY DEF FitInv, Fit, StatementsFitTheTables
<1> QED BY FitInit, <1>1, <1>2, PTL DEF Spec
=============================================================================
