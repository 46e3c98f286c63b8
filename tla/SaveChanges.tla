---------------------------- MODULE SaveChanges ----------------------------
(***************************************************************************)
(* One DbContext as a unit of work: the DbSets and the ChangeTracker, the  *)
(* calls that fill them, and save_changes, which turns them into           *)
(* statements in one transaction (db_context/context.rs, set_ops.rs,       *)
(* save_pipeline.rs, save_phases.rs, change_executor/*.rs, cascade.rs).    *)
(*                                                                         *)
(* A DbSet<T> is the set of entry ids whose entity has type T; ids grow,   *)
(* so their order is the order of the Vec.  An index into a DbSet that a   *)
(* save keeps (FixupLink, processed) is the id itself: no entry is removed *)
(* while a save uses indices.  Each type has one auto-increment key, and a *)
(* HasMany navigation <<parent, child>> is stored in column "fk" of the    *)
(* child.  The context is behind &mut self, so its calls do not overlap;   *)
(* what overlaps with a save are failures, at any statement of it, and     *)
(* between calls the writes of other connections.                          *)
(***************************************************************************)
EXTENDS ChangeTracker, Naturals, Integers, Sequences, FiniteSets

CONSTANTS
  Types,         \* registered entity types
  Cols,          \* [Types -> sets of column names], keys excluded
  Values,        \* values of a data column
  HasMany,       \* pairs <<parent, child>> of Types
  Policies,      \* delete behaviours and databases to choose from
  UnsetKey,      \* an unset foreign key: 0, or Null when the field is an Option
  InsertOrder,   \* DependencyGraph::topological_sort
  Seeds,         \* the rows the database starts with
  UpsertKeys,    \* keys a caller may upsert
  Calls,         \* the calls the caller makes
  Faults,        \* what may fail while saving
  AfterFailure,  \* caller after a failed save: "anything", "retry", "clear"
  AfterSave,     \* caller after a save: "anything", "clear"
  MaxEntries,    \* bound: entry ids
  MaxCalls,      \* bound: calls of the context
  MaxFaults,     \* bound: failures
  MaxOther       \* bound: writes of other connections

NoKey == 0       \* an auto-increment key that is not assigned yet
Null  == -1

AllCalls == {"add", "attach", "include", "update", "upsert", "edit", "remove",
             "remove_added", "remove_all", "load_all", "detect", "clear",
             "retain", "reject", "detach"}
AllFaults == {"on_saving", "begin", "statement", "commit", "on_saved"}

ASSUME ShapeAssumption ==
  /\ Types # {}
  /\ HasMany \subseteq Types \X Types
  /\ InsertOrder \in Seq(Types)
  /\ {InsertOrder[n] : n \in DOMAIN InsertOrder} = Types
  /\ Len(InsertOrder) = Cardinality(Types)
  /\ \A nav \in HasMany : "fk" \in Cols[nav[2]]
  /\ \A c \in Types : \A p, q \in Types :
        <<p, c>> \in HasMany /\ <<q, c>> \in HasMany => p = q
  /\ \A p \in Types : \A c, d \in Types :
        <<p, c>> \in HasMany /\ <<p, d>> \in HasMany => c = d
ASSUME RowsAssumption ==
  /\ Seeds = [t \in Types |-> Seeds[t]]
  /\ \A t \in Types : /\ IsFiniteSet(DOMAIN Seeds[t]) /\ DOMAIN Seeds[t] \subseteq Nat \ {NoKey}
                       /\ \A k \in DOMAIN Seeds[t] :
                            Seeds[t][k] = [c \in Cols[t] |-> Seeds[t][k][c]]
  /\ \A nav \in HasMany : \A k \in DOMAIN Seeds[nav[2]] :
        Seeds[nav[2]][k].fk \in {Null} \cup DOMAIN Seeds[nav[1]]
  /\ IsFiniteSet(UpsertKeys) /\ UpsertKeys \subseteq Nat \ {NoKey}
ASSUME CallerAssumption ==
  /\ Calls \subseteq AllCalls /\ Faults \subseteq AllFaults
  /\ Policies \subseteq [onDelete : {"Cascade", "SetNull", "Restrict"}, enforced : BOOLEAN]
  /\ AfterFailure \in {"anything", "retry", "clear"}
  /\ AfterSave \in {"anything", "clear"}
  /\ UnsetKey \in {NoKey, Null}

VARIABLES
  tracker,     \* ChangeTracker::entries
  entity,      \* the entities in the DbSets, by entry id
  nextId,      \* ChangeTracker::next_id
  db,          \* committed rows: [type -> [key -> columns]]
  work,        \* rows as the save's transaction sees them
  pc,          \* where save_changes is; "idle" outside it
  todo,        \* types the current phase has still to visit
  links,       \* fixup_links: [parent, child] entry ids
  directives,  \* CascadeDeleteDirectives
  processed,   \* Deleted entries whose dependents were drained
  result,      \* what the last call was: "none", "ok", "failed" (a save's)
  before,      \* the committed rows when the save began
  faulted,     \* a failure was injected into this save
  calls, faults, others,  \* counters of the bounds
  policy       \* chosen at the start

dbvars == <<db, before>>
savevars == <<work, pc, todo, links, directives, processed, faulted>>
vars == <<tracker, entity, nextId, db, work, pc, todo, links, directives,
          processed, result, before, faulted, calls, faults, others, policy>>

\* resolve_delete_behavior of every HasMany navigation, and whether the tables
\* have the foreign keys as constraints.
OnDelete == policy.onDelete
ForeignKeys == policy.enforced

(***************************************************************************)
(* The DbSets and the tables.                                              *)
(***************************************************************************)
In(t) == {i \in DOMAIN entity : entity[i].type = t}

StateOf(i) == IF i \in DOMAIN tracker THEN tracker[i].state ELSE "none"

IsUpsert(i) == i \in DOMAIN tracker /\ tracker[i].upsert

ToInsert(t) == {i \in In(t) : StateOf(i) = "Added" /\ ~IsUpsert(i)}
ToUpsert(t) == {i \in In(t) : StateOf(i) = "Added" /\ IsUpsert(i)}
ToUpdate(t) == {i \in In(t) : StateOf(i) = "Modified"}
ToDelete(t) == {i \in In(t) : StateOf(i) = "Deleted"}

Pending == {i \in DOMAIN entity : StateOf(i) \in PendingStates}

Snapshots(ids) == [i \in ids |-> entity[i].cols]

\* What a column may hold: a foreign key is Null, unset (0) or a key of the
\* parent table.
ParentKeys(t) == UNION {DOMAIN db[p] : p \in {q \in Types : <<q, t>> \in HasMany}}
ColValues(t, c) == IF c = "fk" THEN {Null} \cup ParentKeys(t) ELSE Values
Columns(t) == {f \in [Cols[t] -> Values \cup {Null} \cup ParentKeys(t)] :
                  \A c \in Cols[t] : f[c] \in ColValues(t, c)}

ChildType(t) == CHOOSE c \in Types : <<t, c>> \in HasMany
HasChildren(t) == \E c \in Types : <<t, c>> \in HasMany

\* A child held in a HasMany field: an object that no DbSet tracks yet.
NewChild(t) == {[pk |-> NoKey, cols |-> [c \in Cols[ChildType(t)] |->
                                           IF c = "fk" THEN UnsetKey ELSE v]] : v \in Values}
RowsUnder(t, k) ==
    LET c == ChildType(t) IN
    {[pk |-> j, cols |-> db[c][j]] : j \in {n \in DOMAIN db[c] : db[c][n].fk = k}}

\* Keys the context already holds an object for.  There is no identity map;
\* the modelled caller does not track one row twice.
Held(t) ==
    {entity[i].pk : i \in In(t)} \cup
    UNION {{kid.pk : kid \in entity[i].kids} :
              i \in {j \in DOMAIN entity : <<entity[j].type, t>> \in HasMany}}
Untracked(t) == DOMAIN db[t] \ Held(t)

(***************************************************************************)
(* Calls of the context between saves.                                     *)
(***************************************************************************)
Allowed == /\ pc = "idle"
           /\ calls < MaxCalls
           /\ result = "failed" => AfterFailure = "anything"
           /\ result = "ok" => AfterSave = "anything"

Call(name) == /\ name \in Calls
              /\ Allowed
              /\ calls' = calls + 1
              /\ result' = "none"
              /\ UNCHANGED <<dbvars, savevars, faults, others, policy>>

Push(t, pk, cols, kids, state, original, upsert) ==
    /\ nextId < MaxEntries
    /\ nextId' = nextId + 1
    /\ tracker' = Track(tracker, nextId, t, state, original, upsert)
    /\ entity' = Put(entity, nextId, [type |-> t, pk |-> pk, cols |-> cols, kids |-> kids])

Add(t) ==
    /\ Call("add")
    /\ \E cols \in Columns(t) :
       \E kids \in IF HasChildren(t) THEN {{}} \cup {{kid} : kid \in NewChild(t)} ELSE {{}} :
          Push(t, NoKey, cols, kids, "Added", NoSnapshot, FALSE)

\* A principal whose HasMany holds an existing, untracked row.
AddOver(t) ==
    /\ Call("include")
    /\ HasChildren(t)
    /\ \E cols \in Columns(t), k \in Untracked(ChildType(t)) :
          Push(t, NoKey, cols, {[pk |-> k, cols |-> db[ChildType(t)][k]]},
               "Added", NoSnapshot, FALSE)

Attach(t) ==
    /\ Call("attach")
    /\ \E k \in Untracked(t) :
          Push(t, k, db[t][k], {}, "Unchanged", db[t][k], FALSE)

\* query().include(...) fills the HasMany field before attach.
AttachIncluded(t) ==
    /\ Call("include")
    /\ HasChildren(t)
    /\ \E k \in Untracked(t) :
          /\ {kid.pk : kid \in RowsUnder(t, k)} \subseteq Untracked(ChildType(t))
          /\ Push(t, k, db[t][k], RowsUnder(t, k), "Unchanged", db[t][k], FALSE)

Update(t) ==
    /\ Call("update")
    /\ \E k \in Untracked(t), cols \in Columns(t) :
          Push(t, k, cols, {}, "Modified", NoSnapshot, FALSE)

Upsert(t) ==
    /\ Call("upsert")
    /\ \E k \in UpsertKeys \ Held(t), cols \in Columns(t) :
          Push(t, k, cols, {}, "Added", NoSnapshot, TRUE)

\* A write through tracked_entries_mut().
Edit(i) ==
    /\ Call("edit")
    /\ \E c \in Cols[entity[i].type] : \E v \in ColValues(entity[i].type, c) :
          /\ entity[i].cols[c] # v
          /\ entity' = [entity EXCEPT ![i].cols[c] = v]
    /\ UNCHANGED <<tracker, nextId>>

\* Removing what was never saved is a call of its own, for the runs to name.
MayRemove(i) == StateOf(i) = "Added" => "remove_added" \in Calls

RemoveAt(i) ==
    /\ Call("remove")
    /\ MayRemove(i)
    /\ tracker' = SetState(tracker, {i}, "Deleted")
    /\ UNCHANGED <<entity, nextId>>

RemoveAll(t) ==
    /\ Call("remove_all")
    /\ In(t) # {}
    /\ \A i \in In(t) : MayRemove(i)
    /\ tracker' = SetState(tracker, In(t), "Deleted")
    /\ UNCHANGED <<entity, nextId>>

\* The rows replace the set's entries and its part of the tracker.
LoadAll(t) ==
    LET keys  == DOMAIN db[t]
        id(k) == nextId + Cardinality({j \in keys : j < k})
        new   == {id(k) : k \in keys}
        key(i) == CHOOSE k \in keys : id(k) = i
    IN
    /\ Call("load_all")
    /\ nextId + Cardinality(keys) <= MaxEntries
    /\ nextId' = nextId + Cardinality(keys)
    /\ LET others_ == Drop(entity, In(t))
           kept    == ClearByType(tracker, t)
       IN
       /\ entity' = [i \in DOMAIN others_ \cup new |->
                        IF i \in new
                        THEN [type |-> t, pk |-> key(i), cols |-> db[t][key(i)], kids |-> {}]
                        ELSE others_[i]]
       /\ tracker' = [i \in DOMAIN kept \cup new |->
                        IF i \in new
                        THEN [type |-> t, state |-> "Unchanged", original |-> db[t][key(i)],
                              mods |-> {}, upsert |-> FALSE]
                        ELSE kept[i]]

\* DbContext::detect_changes, called by the user.
DetectNow ==
    /\ Call("detect")
    /\ tracker' = DetectChanges(tracker, Snapshots(DOMAIN entity))
    /\ UNCHANGED <<entity, nextId>>

\* DbSet::retain, and clear_entries as the case that drops all: the entities
\* go, their entries stay in the tracker.
Retain(t) ==
    /\ Call("retain")
    /\ \E gone \in SUBSET In(t) \ {{}} : entity' = Drop(entity, gone)
    /\ UNCHANGED <<tracker, nextId>>

\* change_tracker_mut().reject_all_changes() and detach(): the tracker alone.
RejectAll ==
    /\ Call("reject")
    /\ tracker' = RejectAllChanges(tracker)
    /\ UNCHANGED <<entity, nextId>>

DetachEntry(i) ==
    /\ Call("detach")
    /\ i \in DOMAIN tracker
    /\ tracker' = Detach(tracker, i)
    /\ UNCHANGED <<entity, nextId>>

\* clear_tracking, or a new context: the one call that is always allowed.
ClearTracking ==
    /\ "clear" \in Calls
    /\ pc = "idle" /\ calls < MaxCalls
    /\ DOMAIN entity \cup DOMAIN tracker # {}
    /\ calls' = calls + 1
    /\ result' = "none"
    /\ tracker' = EmptyTracker
    /\ entity' = <<>>
    /\ UNCHANGED <<nextId, dbvars, savevars, faults, others, policy>>

(***************************************************************************)
(* save_changes.                                                           *)
(***************************************************************************)
NoRows == <<>>

SaveIdle == /\ work' = NoRows
            /\ pc' = "idle"
            /\ todo' = <<>>
            /\ links' = {} /\ directives' = {} /\ processed' = {}

Fault(kind) == /\ kind \in Faults
               /\ faults < MaxFaults
               /\ faults' = faults + 1
               /\ faulted' = TRUE

NoFault == UNCHANGED <<faulted, faults>>

\* fail_save: the transaction is rolled back; the tracker, the entities with
\* the keys they were given, and the drained children stay as they are.  A
\* COMMIT that fails was not applied.
FailSave == /\ SaveIdle
            /\ result' = "failed"
            /\ UNCHANGED <<tracker, entity, nextId, db, before, calls, others, policy>>

\* Changes are detected first; a save with nothing pending opens no
\* transaction.  on_saving and on_saved run either way.
SaveBegin ==
    /\ pc = "idle"
    /\ calls < MaxCalls
    /\ result = "failed" => AfterFailure # "clear"
    /\ result = "ok" => AfterSave # "clear"
    /\ calls' = calls + 1
    /\ LET detected == DetectChanges(tracker, Snapshots(DOMAIN entity))
           pending  == \E i \in DOMAIN entity :
                          i \in DOMAIN detected /\ detected[i].state \in PendingStates
       IN
       /\ tracker' = detected
       /\ \/ /\ pending
             /\ work' = db
             /\ pc' = "drain_adds"
             /\ result' = "none"
             /\ faulted' = FALSE
             /\ UNCHANGED <<todo, links, directives, processed, faults>>
          \/ /\ ~pending
             /\ SaveIdle
             /\ result' = "ok"
             /\ faulted' = FALSE
             /\ UNCHANGED faults
          \/ \* an interceptor refuses, or no transaction can be opened
             /\ \/ Fault("on_saving")
                \/ pending /\ Fault("begin")
                \/ ~pending /\ Fault("on_saved")
             /\ SaveIdle
             /\ result' = "failed"
    /\ before' = db
    /\ UNCHANGED <<entity, nextId, db, others, policy>>

\* drain_cascade_adds: the children held by Added principals are tracked;
\* those that have a key already as Unchanged, with their present columns as
\* the original.  Every child type has a DbSet.
HoldsChildren(i) == StateOf(i) = "Added" /\ ~IsUpsert(i) /\ entity[i].kids # {}

DrainAdds ==
    /\ pc = "drain_adds"
    /\ \E i \in DOMAIN entity : \E kid \in entity[i].kids :
          LET t == ChildType(entity[i].type) IN
          /\ HoldsChildren(i)
          /\ \A h \in DOMAIN entity : HoldsChildren(h) => i <= h
          /\ nextId' = nextId + 1
          /\ tracker' = IF kid.pk > 0
                        THEN Track(tracker, nextId, t, "Unchanged", kid.cols, FALSE)
                        ELSE Track(tracker, nextId, t, "Added", NoSnapshot, FALSE)
          /\ entity' = Put([entity EXCEPT ![i].kids = @ \ {kid}], nextId,
                           [type |-> t, pk |-> kid.pk, cols |-> kid.cols, kids |-> {}])
          /\ links' = links \cup {[parent |-> i, child |-> nextId]}
    /\ UNCHANGED <<dbvars, work, pc, todo, directives, processed, result, faulted,
                   calls, faults, others, policy>>

DrainAddsDone ==
    /\ pc = "drain_adds"
    /\ ~\E i \in DOMAIN entity : HoldsChildren(i)
    /\ pc' = "drain_deletes"
    /\ UNCHANGED <<tracker, entity, nextId, dbvars, work, todo, links, directives,
                   processed, result, faulted, calls, faults, others, policy>>

\* drain_cascade_deletes: a Deleted principal yields its loaded children, as
\* Deleted entries, and a directive for the rows that refer to its key.
ToDrain == {i \in DOMAIN entity : StateOf(i) = "Deleted" /\ i \notin processed}

DirectiveOf(i) ==
    IF HasChildren(entity[i].type) /\ entity[i].pk > 0 /\ OnDelete \in {"Cascade", "SetNull"}
    THEN {[type |-> ChildType(entity[i].type), key |-> entity[i].pk, action |-> OnDelete]}
    ELSE {}

\* Mutant: the rows of children that were not loaded are forgotten.
DrainDeletes_LoadedOnly ==
    /\ pc = "drain_deletes"
    /\ \E i \in ToDrain :
       /\ entity[i].kids = {}
       /\ processed' = processed \cup {i}
       /\ UNCHANGED <<directives, tracker, entity, nextId>>
    /\ UNCHANGED <<dbvars, work, pc, todo, links, result, faulted, calls, faults, others, policy>>

DrainDeletes ==
    /\ pc = "drain_deletes"
    /\ \E i \in ToDrain :
       /\ \A h \in ToDrain : i <= h
       /\ IF OnDelete = "Cascade" /\ entity[i].kids # {}
          THEN \E kid \in entity[i].kids :
                  /\ LET t == ChildType(entity[i].type) IN
                     IF kid.pk = NoKey
                     THEN /\ entity' = [entity EXCEPT ![i].kids = @ \ {kid}]
                          /\ UNCHANGED <<tracker, nextId>>
                     ELSE /\ nextId' = nextId + 1
                          /\ tracker' = Track(tracker, nextId, t, "Deleted", kid.cols, FALSE)
                          /\ entity' = Put([entity EXCEPT ![i].kids = @ \ {kid}], nextId,
                                 [type |-> t, pk |-> kid.pk, cols |-> kid.cols, kids |-> {}])
                  /\ UNCHANGED <<directives, processed>>
          ELSE /\ processed' = processed \cup {i}
               /\ directives' = directives \cup DirectiveOf(i)
               /\ UNCHANGED <<tracker, entity, nextId>>
    /\ UNCHANGED <<dbvars, work, pc, todo, links, result, faulted, calls, faults, others, policy>>

DrainDeletesDone ==
    /\ pc = "drain_deletes"
    /\ ToDrain = {}
    /\ pc' = "insert"
    /\ todo' = InsertOrder
    /\ UNCHANGED <<tracker, entity, nextId, dbvars, work, links, directives, processed,
                   result, faulted, calls, faults, others, policy>>

(***************************************************************************)
(* The statement phases.  Each visits the types in order; a step is one    *)
(* type, with the statement it sends.                                      *)
(***************************************************************************)
Reversed(s) == [n \in DOMAIN s |-> s[Len(s) + 1 - n]]

\* On to the next type, or to the next phase with the types `order`.
Onward(phase, order) ==
    IF Len(todo) > 1
    THEN todo' = Tail(todo) /\ UNCHANGED pc
    ELSE todo' = order /\ pc' = phase

\* A statement that fails, whether the database or the network refuses it.  The
\* UPDATE that follows the INSERT of a type that refers to itself fails with keys
\* and foreign keys set, like the statements and the COMMIT after it.
StatementFails(phase, sent) ==
    /\ pc = phase
    /\ sent
    /\ Fault("statement")
    /\ FailSave

\* A foreign key the database would refuse, when it looks.
Dangling(rows, t, cols) ==
    /\ ForeignKeys
    /\ \E p \in Types : <<p, t>> \in HasMany /\ cols.fk \notin {Null} \cup DOMAIN rows[p]

Refused(rows, t, ids) == \E i \in ids : Dangling(rows, t, entity[i].cols)

\* SQLite assigns one more than the largest key in the table; a rolled-back
\* insertion gives its keys back.
NextKey(rows) == 1 + (CHOOSE m \in DOMAIN rows \cup {0} : \A k \in DOMAIN rows : k <= m)

Rank(i, ids) == Cardinality({j \in ids : j < i})

Linked(t) == {l \in links : entity[l.parent].type = t}

\* The entities after an INSERT of `ids`: generated keys are filled in, then
\* the children linked to a principal of type t get its key.
Backfilled(t, ids) ==
    [i \in DOMAIN entity |->
        IF i \in ids THEN [entity[i] EXCEPT !.pk = NextKey(work[t]) + Rank(i, ids)]
                     ELSE entity[i]]

\* Mutant: the key the children get is the one the principal had before.
FixedUp_Early(t, ents) ==
    [i \in DOMAIN ents |->
        IF \E l \in Linked(t) : l.child = i
        THEN [ents[i] EXCEPT !.cols.fk =
                 entity[(CHOOSE l \in Linked(t) : l.child = i).parent].pk]
        ELSE ents[i]]

FixedUp(t, ents) ==
    [i \in DOMAIN ents |->
        IF \E l \in Linked(t) : l.child = i
        THEN [ents[i] EXCEPT !.cols.fk =
                 ents[(CHOOSE l \in Linked(t) : l.child = i).parent].pk]
        ELSE ents[i]]

\* Rows of t once the INSERT, and for a type that refers to itself the
\* UPDATE of the new foreign keys, have run.
Inserted(t, ids, ents, fixed) ==
    LET keys == {ents[i].pk : i \in ids}
        own  == {l.child : l \in {k \in Linked(t) : entity[k.child].type = t}}
    IN [k \in DOMAIN work[t] \cup keys |->
          IF \E i \in own : fixed[i].pk = k
          THEN IF k \in keys
               THEN fixed[CHOOSE i \in ids : ents[i].pk = k].cols
               ELSE [work[t][k] EXCEPT !.fk = fixed[CHOOSE i \in own : fixed[i].pk = k].cols.fk]
          ELSE IF k \in keys THEN ents[CHOOSE i \in ids : ents[i].pk = k].cols
               ELSE work[t][k]]

InsertAdded ==
    /\ pc = "insert"
    /\ LET t     == Head(todo)
           ids   == ToInsert(t)
           ents  == Backfilled(t, ids)
           fixed == FixedUp(t, ents)
           rows  == [work EXCEPT ![t] = Inserted(t, ids, ents, fixed)]
       IN /\ ~Refused(rows, t, ids)
          /\ work' = rows
          /\ entity' = fixed
    /\ Onward("upsert", InsertOrder)
    /\ NoFault
    /\ UNCHANGED <<tracker, nextId, dbvars, links, directives, processed, result,
                   calls, others, policy>>

\* Mutant: a row that exists is left as it is (ON CONFLICT DO NOTHING).
UpsertAdded_InsertOnly ==
    /\ pc = "upsert"
    /\ LET t   == Head(todo)
           ids == ToUpsert(t)
       IN /\ ~Refused(work, t, ids)
          /\ work' = [work EXCEPT ![t] =
                [k \in DOMAIN @ \cup {entity[i].pk : i \in ids} |->
                    IF k \in DOMAIN @ THEN @[k]
                    ELSE entity[CHOOSE i \in ids : entity[i].pk = k].cols]]
    /\ Onward("update", InsertOrder)
    /\ NoFault
    /\ UNCHANGED <<tracker, entity, nextId, dbvars, links, directives, processed,
                   result, calls, others, policy>>

UpsertAdded ==
    /\ pc = "upsert"
    /\ LET t   == Head(todo)
           ids == ToUpsert(t)
       IN /\ ~Refused(work, t, ids)
          /\ work' = [work EXCEPT ![t] =
                [k \in DOMAIN @ \cup {entity[i].pk : i \in ids} |->
                    IF \E i \in ids : entity[i].pk = k
                    THEN entity[CHOOSE i \in ids : entity[i].pk = k].cols
                    ELSE @[k]]]
    /\ Onward("update", InsertOrder)
    /\ NoFault
    /\ UNCHANGED <<tracker, entity, nextId, dbvars, links, directives, processed,
                   result, calls, others, policy>>

\* Mutant: the property lists of the batch are intersected, not united.
SetColumns_Common(t, ids) ==
    LET common == {c \in Cols[t] : \A i \in ids : c \in tracker[i].mods}
    IN IF \A i \in ids : tracker[i].mods = {} THEN Cols[t] ELSE common

\* execute_updates: one UPDATE for all Modified entries of a type.  It sets
\* the union of their property lists, every column when all lists are empty.
SetColumns(t, ids) ==
    LET union == UNION {tracker[i].mods : i \in ids}
    IN IF union = {} THEN Cols[t] ELSE union

Updated(t, ids) ==
    [k \in DOMAIN work[t] |->
        IF \E i \in ids : entity[i].pk = k
        THEN LET i == CHOOSE j \in ids : entity[j].pk = k
             IN [c \in Cols[t] |-> IF c \in SetColumns(t, ids) THEN entity[i].cols[c]
                                                               ELSE work[t][k][c]]
        ELSE work[t][k]]

\* Rows a statement keyed by the primary keys of ids reaches.
Reached(t, ids) == {entity[i].pk : i \in ids} \cap DOMAIN work[t]

UpdateModified ==
    /\ pc = "update"
    /\ LET t    == Head(todo)
           ids  == ToUpdate(t)
           rows == [work EXCEPT ![t] = Updated(t, ids)]
       IN /\ ids # {} => Reached(t, ids) # {}
          /\ \A k \in Reached(t, ids) : ~Dangling(rows, t, rows[t][k])
          /\ work' = rows
    /\ Onward("set_null", Reversed(InsertOrder))
    /\ NoFault
    /\ UNCHANGED <<tracker, entity, nextId, dbvars, links, directives, processed,
                   result, calls, others, policy>>

\* Rows of every table after the directives with `action` ran.
Directed(rows, action) ==
    [t \in Types |->
        LET hit == {k \in DOMAIN rows[t] : \E d \in directives :
                       d.action = action /\ d.type = t /\ rows[t][k].fk = d.key}
        IN IF action = "Cascade" THEN Drop(rows[t], hit)
           ELSE [k \in DOMAIN rows[t] |->
                    IF k \in hit THEN [rows[t][k] EXCEPT !.fk = Null] ELSE rows[t][k]]]

SetNullDirectives ==
    /\ pc = "set_null"
    /\ work' = Directed(work, "SetNull")
    /\ pc' = "delete"
    /\ NoFault
    /\ UNCHANGED <<tracker, entity, nextId, dbvars, todo, links, directives, processed,
                   result, calls, others, policy>>

\* What the database does to the dependents of the deleted rows: the foreign
\* keys of the generated schema carry the navigation's ON DELETE action.
Dependents(rows, t, keys) ==
    {k \in DOMAIN rows[ChildType(t)] : rows[ChildType(t)][k].fk \in keys}

AfterDelete(t, keys) ==
    LET rest == [work EXCEPT ![t] = Drop(@, keys)] IN
    IF ~(ForeignKeys /\ HasChildren(t)) THEN rest
    ELSE LET c == ChildType(t) hit == Dependents(rest, t, keys) IN
         CASE OnDelete = "Cascade" -> [rest EXCEPT ![c] = Drop(@, hit)]
           [] OnDelete = "SetNull" ->
                [rest EXCEPT ![c] = [k \in DOMAIN @ |->
                     IF k \in hit THEN [@[k] EXCEPT !.fk = Null] ELSE @[k]]]
           [] OTHER -> rest

Restricted(t, keys) ==
    /\ ForeignKeys /\ OnDelete = "Restrict" /\ HasChildren(t)
    /\ Dependents([work EXCEPT ![t] = Drop(@, keys)], t, keys) # {}

DeleteDeleted ==
    /\ pc = "delete"
    /\ LET t    == Head(todo)
           ids  == ToDelete(t)
           keys == Reached(t, ids)
       IN /\ ids # {} => keys # {}
          /\ ~Restricted(t, keys)
          /\ work' = AfterDelete(t, keys)
    /\ Onward("prune", <<>>)
    /\ NoFault
    /\ UNCHANGED <<tracker, entity, nextId, dbvars, links, directives, processed,
                   result, calls, others, policy>>

CascadeDirectives ==
    /\ pc = "prune"
    /\ work' = Directed(work, "Cascade")
    /\ pc' = "commit"
    /\ NoFault
    /\ UNCHANGED <<tracker, entity, nextId, dbvars, todo, links, directives, processed,
                   result, calls, others, policy>>

\* The statement of a phase is refused by the database, or reaches no row.
StatementRefused ==
    /\ \/ /\ pc = "insert"
          /\ LET t == Head(todo) ids == ToInsert(t) ents == Backfilled(t, ids)
                 rows == [work EXCEPT ![t] = Inserted(t, ids, ents, FixedUp(t, ents))]
             IN Refused(rows, t, ids)
       \/ /\ pc = "upsert"
          /\ Refused(work, Head(todo), ToUpsert(Head(todo)))
       \/ /\ pc = "update"
          /\ LET t == Head(todo) ids == ToUpdate(t)
                 rows == [work EXCEPT ![t] = Updated(t, ids)]
             IN \/ ids # {} /\ Reached(t, ids) = {}
                \/ \E k \in Reached(t, ids) : Dangling(rows, t, rows[t][k])
       \/ /\ pc = "delete"
          /\ LET t == Head(todo) ids == ToDelete(t) keys == Reached(t, ids)
             IN (ids # {} /\ keys = {}) \/ Restricted(t, keys)
    /\ NoFault
    /\ FailSave

SaveFails ==
    \/ StatementFails("insert", todo # <<>> /\ ToInsert(Head(todo)) # {})
    \/ StatementFails("upsert", todo # <<>> /\ ToUpsert(Head(todo)) # {})
    \/ StatementFails("update", todo # <<>> /\ ToUpdate(Head(todo)) # {})
    \/ StatementFails("set_null", \E d \in directives : d.action = "SetNull")
    \/ StatementFails("delete", todo # <<>> /\ ToDelete(Head(todo)) # {})
    \/ StatementFails("prune", \E d \in directives : d.action = "Cascade")
    \/ pc = "commit" /\ Fault("commit") /\ FailSave

Commit ==
    /\ pc = "commit"
    /\ db' = work
    /\ pc' = "accept"
    /\ todo' = InsertOrder
    /\ NoFault
    /\ UNCHANGED <<tracker, entity, nextId, work, links, directives, processed, result,
                   before, calls, others, policy>>

(***************************************************************************)
(* After the commit: accept_all_changes is called once per DbSet, in the   *)
(* order of a HashMap, each time with the snapshots of that set and the    *)
(* tracker of the whole context.                                           *)
(***************************************************************************)
\* Mutant: a deleted entity stays in its DbSet.
AcceptSet_KeepsEntities(t) ==
    /\ tracker' = AcceptAllChanges(tracker, Snapshots(In(t) \ ToDelete(t)))
    /\ UNCHANGED entity

AcceptSet(t) ==
    LET gone == ToDelete(t) IN
    /\ entity' = Drop(entity, gone)
    /\ tracker' = AcceptAllChanges(tracker, Snapshots(In(t) \ gone))

SaveReturns ==
    /\ work' = NoRows /\ pc' = "idle" /\ todo' = <<>>
    /\ links' = {} /\ directives' = {} /\ processed' = {}
    /\ \/ result' = "ok" /\ NoFault
       \/ result' = "failed" /\ Fault("on_saved")

\* Mutant: an error of on_saved returns before the changes are accepted.
Accept_AfterOnSaved ==
    /\ pc = "accept"
    /\ \/ SaveReturns /\ result' = "failed" /\ UNCHANGED <<tracker, entity>>
       \/ \E n \in DOMAIN todo :
            Len(todo) = 1 /\ AcceptSet(todo[n]) /\ SaveReturns /\ result' = "ok"
    /\ UNCHANGED <<nextId, db, before, calls, others, policy>>

Accept ==
    /\ pc = "accept"
    /\ \E n \in DOMAIN todo :
          /\ AcceptSet(todo[n])
          /\ IF Len(todo) = 1
             THEN SaveReturns
             ELSE /\ todo' = [m \in 1..(Len(todo) - 1) |->
                                 IF m < n THEN todo[m] ELSE todo[m + 1]]
                  /\ result' = result
                  /\ NoFault
                  /\ UNCHANGED <<work, pc, links, directives, processed>>
    /\ UNCHANGED <<nextId, db, before, calls, others, policy>>

(***************************************************************************)
(* Writes of other connections, between the calls of this one.             *)
(***************************************************************************)
OtherWrites ==
    /\ pc = "idle"
    /\ others < MaxOther
    /\ others' = others + 1
    /\ \E t \in Types : \E k \in DOMAIN db[t] :
          \/ db' = [db EXCEPT ![t] = Drop(@, {k})]
          \/ \E c \in Cols[t] \ {"fk"} : \E v \in Values :
                db[t][k][c] # v /\ db' = [db EXCEPT ![t][k][c] = v]
    /\ result' = "none"
    /\ UNCHANGED <<tracker, entity, nextId, work, pc, todo, links, directives, processed,
                   before, faulted, calls, faults, policy>>

Init ==
    /\ tracker = EmptyTracker /\ entity = <<>> /\ nextId = 0
    /\ db = Seeds /\ before = Seeds
    /\ work = NoRows /\ pc = "idle" /\ todo = <<>>
    /\ links = {} /\ directives = {} /\ processed = {}
    /\ result = "none" /\ faulted = FALSE
    /\ calls = 0 /\ faults = 0 /\ others = 0
    /\ policy \in Policies

CallStep ==
    \/ \E t \in Types : Add(t) \/ AddOver(t) \/ Attach(t) \/ AttachIncluded(t)
                        \/ Update(t) \/ Upsert(t) \/ RemoveAll(t) \/ LoadAll(t)
                        \/ Retain(t)
    \/ \E i \in DOMAIN entity : Edit(i) \/ RemoveAt(i) \/ DetachEntry(i)
    \/ RejectAll \/ DetectNow \/ ClearTracking

SaveStep ==
    \/ SaveBegin
    \/ DrainAdds \/ DrainAddsDone \/ DrainDeletes \/ DrainDeletesDone
    \/ InsertAdded \/ UpsertAdded \/ UpdateModified
    \/ SetNullDirectives \/ DeleteDeleted \/ CascadeDirectives
    \/ StatementRefused \/ SaveFails
    \/ Commit \/ Accept

Next == CallStep \/ SaveStep \/ OtherWrites

Spec == Init /\ [][Next]_vars

(***************************************************************************)
(* Properties.                                                             *)
(***************************************************************************)
\* Between calls the DbSets and the tracker hold the same entries: what is in
\* a set can be saved, and what is tracked belongs to a set.
\* accept_all_changes must remove a deleted entry from both.
SetsMatchTracker == pc = "idle" => DOMAIN entity = DOMAIN tracker

\* After save_changes returned Ok, every entity in a DbSet has the columns of
\* its row: whatever the calls before did, nothing was left out and nothing
\* is pretended to exist.
SavedMeansStored ==
    result = "ok" => \A i \in DOMAIN entity :
        LET e == entity[i] IN e.pk \in DOMAIN db[e.type] /\ db[e.type][e.pk] = e.cols

\* What a commit makes durable is the unit of work and nothing else: pending
\* entities have their rows, deleted ones have none, and every other row is
\* as it was.  It spans all phases of a save.  Another connection may have
\* deleted the row of an entity, or a key may have gone to a second one since:
\* then the rows of no pending entity are still as they were, and none is new.
Written(t) == {entity[i].pk : i \in ToInsert(t) \cup ToUpsert(t) \cup ToUpdate(t)}
Erased(t) == {entity[i].pk : i \in ToDelete(t)}
ExactCommit ==
    pc = "commit" /\ pc' = "accept" =>
        \A t \in Types :
          /\ others = 0 =>
                /\ DOMAIN db'[t] = (DOMAIN db[t] \cup Written(t)) \ Erased(t)
                /\ \A i \in In(t) \cap Pending : StateOf(i) # "Deleted" =>
                      entity[i].pk \in DOMAIN db'[t] /\ db'[t][entity[i].pk] = entity[i].cols
          /\ \A k \in DOMAIN db[t] \ (Written(t) \cup Erased(t)) :
                k \in DOMAIN db'[t] /\ db'[t][k] = db[t][k]
          /\ DOMAIN db'[t] \subseteq DOMAIN db[t] \cup Written(t)
CommitIsExact == [][ExactCommit]_vars

\* A save that returned an error left the committed rows as they were: what the
\* documentation says, and an error of on_saved, which runs after the commit,
\* contradicts.
ErrMeansUnchanged == result = "failed" => db = before

\* A save that has committed is over, whatever it returned: when on_saved fails
\* after the commit, the sets and the tracker leave nothing to write for the save
\* that the caller then repeats, neither an entry nor a difference to detect.
CommittedIsAccepted ==
    result = "failed" /\ db # before =>
        \A i \in DOMAIN entity :
            StateOf(i) = "Unchanged" /\ tracker[i].original = entity[i].cols

\* A save fails only when a statement, the transaction or an interceptor
\* failed: the order of the phases never makes the database refuse a
\* statement and every statement reaches its rows.
FailuresHaveACause == result = "failed" => faulted

\* Every committed child row refers to a committed principal, although the
\* database does not look: insertion order, key fix-up and the cascades of
\* the save keep the references.
ReferencesHold ==
    \A nav \in HasMany : \A k \in DOMAIN db[nav[2]] :
        db[nav[2]][k].fk \in {Null} \cup DOMAIN db[nav[1]]

\* A column the caller did not change is not written: an UPDATE leaves the
\* other columns of the row as the database has them.
OnlyDirtyColumns ==
    [][pc = "update" /\ result' # "failed" =>
        \A i \in ToUpdate(Head(todo)) :
            LET t == Head(todo) k == entity[i].pk IN
            k \in DOMAIN work[t] /\ tracker[i].mods # {} =>
               \A c \in Cols[t] \ tracker[i].mods : work'[t][k][c] = work[t][k][c]]_vars

=============================================================================
