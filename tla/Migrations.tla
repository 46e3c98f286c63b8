----------------------------- MODULE Migrations -----------------------------
(***************************************************************************)
(* Migrations are generated from successive models, stored on disk,        *)
(* applied and reverted (crates/core/src/migration/engine_ops.rs,          *)
(* history.rs, snapshot_io.rs, crates/cli/src/main.rs).                    *)
(*                                                                         *)
(* The nth migration leads from the (n-1)th model to the nth and has the   *)
(* number n for its id.  Ids are sorted by Rank: a name sorts as it is     *)
(* spelt, not by when it was created.  Every statement of a migration is a *)
(* command of its own on a connection from the pool, so two appliers (two  *)
(* instances of the program, or of the command line tool) interleave at    *)
(* every statement and a failure leaves what was executed before it.       *)
(***************************************************************************)
EXTENDS SchemaDiff

CONSTANTS
  Histories,   \* the sequences of models a project may go through
  Rank,        \* position of the nth migration's id in alphabetical order
  Generator,   \* "library", "stored" or "cli": who calls generate, with which snapshots
  Appliers,
  Settings,    \* ways to deploy: appliers at work, what they call, what may fail
  MaxFaults,   \* bound: failures
  MaxCalls     \* bound: calls of the appliers

AllOps == {"apply", "revert_last", "revert_to"}

ASSUME MigrationAssumption ==
  /\ \A h \in Histories : \A m, n \in 1..Len(h) : m # n => Rank[m] # Rank[n]
  /\ Generator \in {"library", "stored", "cli"}
  /\ Settings \subseteq [appliers : SUBSET Appliers, ops : SUBSET AllOps,
                        faults : SUBSET {"apply", "revert"}]

VARIABLES
  models,    \* the models of this project
  setting,   \* how it is deployed
  store,     \* the migrations generated so far: [up, down] each
  schema,    \* database: tables, keys, indexes
  history,   \* database: ids recorded
  op,        \* what each applier is doing; "none" when it is not
  todo,      \* ids it has still to apply or revert
  stmts,     \* statements left of the first of them
  goal,      \* the ids that are to be recorded when it is done
  outcome,   \* its last call and what it returned: "ok" or "err"
  calls, faults   \* counters of the bounds

db == <<schema, history>>
applier == <<op, todo, stmts, goal, outcome>>
vars == <<models, setting, store, db, applier, calls, faults>>

NoOutcome == <<"none", "none">>

Local == 1..Len(store)

Sorted(ids) == SetToSortSeq(ids, LAMBDA m, n : Rank[m] < Rank[n])

(***************************************************************************)
(* Generating.                                                             *)
(***************************************************************************)
\* Parsing a stored snapshot loses max_length.
Parsed(model) ==
    [t \in DOMAIN model |-> [c \in DOMAIN model[t] |->
        [model[t][c] EXCEPT !.kind[1] = IF @ = "varchar" THEN "text" ELSE @]]]

\* snapshot_to_metas knows no navigations, so create_snapshot finds no key.
WithoutKeys(model) ==
    [t \in DOMAIN model |-> [c \in DOMAIN model[t] |->
        [model[t][c] EXCEPT !.ref = NoTable, !.del = "none"]]]

Previous(n) == IF Generator = "library" THEN models[n - 1] ELSE Parsed(models[n - 1])

Current(n) == IF Generator = "cli" THEN WithoutKeys(Parsed(models[n])) ELSE models[n]

Changes(n) ==
    IF n = 1 THEN {InitialCreate(Current(1))} ELSE Diff(Previous(n), Current(n))

\* cmd_add, or generate and MigrationStore::save.
Generate ==
    /\ \A a \in Appliers : op[a] = "none"
    /\ Len(store) < Len(models)
    /\ LET n == Len(store) + 1 IN
       \E changes \in Changes(n) :
          store' = Append(store, [up |-> UpScript(n, changes), down |-> DownScript(n, changes)])
    /\ outcome' = [a \in Appliers |-> NoOutcome]
    /\ UNCHANGED <<models, setting, db, op, todo, stmts, goal, calls, faults>>

(***************************************************************************)
(* Applying and reverting.                                                 *)
(***************************************************************************)
Begins(a, name, ids, target) ==
    /\ a \in setting.appliers /\ name \in setting.ops
    /\ op[a] = "none" /\ calls < MaxCalls
    /\ calls' = calls + 1
    /\ op' = [op EXCEPT ![a] = name]
    /\ todo' = [todo EXCEPT ![a] = ids]
    /\ goal' = [goal EXCEPT ![a] = target]
    /\ outcome' = [x \in Appliers |-> NoOutcome]
    /\ UNCHANGED <<models, setting, store, db, stmts, faults>>

\* load_all and apply_pending: what is not recorded yet, in order.
ApplyPending(a) ==
    /\ Local # {}
    /\ Begins(a, "apply", Sorted(Local \ ToSet(history)), Local)

\* get_applied_migrations sorts by id.
RevertLast(a) ==
    /\ history # <<>>
    /\ LET last == Sorted(ToSet(history))[Len(history)]
       IN Begins(a, "revert_last", <<last>>, ToSet(history) \ {last})

RevertToTarget(a) ==
    \E target \in ToSet(history) \cup {0} :
       LET later == {id \in ToSet(history) : target # 0 => Rank[id] > Rank[target]}
       IN Begins(a, "revert_to", Reverse(Sorted(later)), ToSet(history) \ later)

Ends(a, how) ==
    /\ op' = [op EXCEPT ![a] = "none"]
    /\ todo' = [todo EXCEPT ![a] = <<>>]
    /\ stmts' = [stmts EXCEPT ![a] = <<>>]
    /\ goal' = [goal EXCEPT ![a] = IF how = "ok" THEN @ ELSE {}]
    /\ outcome' = [outcome EXCEPT ![a] = <<op[a], how>>]

\* apply and revert: is_applied decides, from the history as it is now.
Script(a) ==
    LET id == Head(todo[a]) IN
    IF op[a] = "apply" THEN IF id \in ToSet(history) THEN <<>> ELSE store[id].up
    ELSE store[id].down

TakeNext(a) ==
    /\ op[a] # "none" /\ stmts[a] = <<>> /\ todo[a] # <<>>
    /\ IF op[a] # "apply" /\ Head(todo[a]) \notin ToSet(history)
       THEN Ends(a, "err")
       ELSE /\ stmts' = [stmts EXCEPT ![a] = Script(a)]
            /\ todo' = [todo EXCEPT ![a] = Tail(@)]
            /\ UNCHANGED <<op, goal, outcome>>
    /\ UNCHANGED <<models, setting, store, db, calls, faults>>

Execute(a) ==
    /\ op[a] # "none" /\ stmts[a] # <<>>
    /\ LET st == Head(stmts[a]) IN
       IF Accepts(schema, history, st)
       THEN /\ schema' = Executed(schema, st)
            /\ history' = Recorded(history, st)
            /\ stmts' = [stmts EXCEPT ![a] = Tail(@)]
            /\ UNCHANGED <<op, todo, goal, outcome>>
       ELSE Ends(a, "err") /\ UNCHANGED db
    /\ UNCHANGED <<models, setting, store, calls, faults>>

\* The connection or the program is gone; the statement may have been
\* executed.
Breaks(a) ==
    /\ op[a] # "none"
    /\ (IF op[a] = "apply" THEN "apply" ELSE "revert") \in setting.faults
    /\ faults < MaxFaults
    /\ faults' = faults + 1
    /\ \/ UNCHANGED db
       \/ /\ stmts[a] # <<>>
          /\ Accepts(schema, history, Head(stmts[a]))
          /\ schema' = Executed(schema, Head(stmts[a]))
          /\ history' = Recorded(history, Head(stmts[a]))
    /\ Ends(a, "err")
    /\ UNCHANGED <<models, setting, store, calls>>

Returns(a) ==
    /\ op[a] # "none" /\ stmts[a] = <<>> /\ todo[a] = <<>>
    /\ Ends(a, "ok")
    /\ UNCHANGED <<models, setting, store, db, calls, faults>>

Init ==
    /\ models \in Histories /\ setting \in Settings
    /\ store = <<>>
    /\ schema = EmptySchema /\ history = <<>>
    /\ op = [a \in Appliers |-> "none"] /\ todo = [a \in Appliers |-> <<>>]
    /\ stmts = [a \in Appliers |-> <<>>] /\ goal = [a \in Appliers |-> {}]
    /\ outcome = [a \in Appliers |-> NoOutcome]
    /\ calls = 0 /\ faults = 0

ApplierStep(a) ==
    \/ ApplyPending(a) \/ RevertLast(a) \/ RevertToTarget(a)
    \/ TakeNext(a) \/ Execute(a) \/ Breaks(a) \/ Returns(a)

Next == Generate \/ \E a \in Appliers : ApplierStep(a)

Spec == Init /\ [][Next]_vars

(***************************************************************************)
(* Properties.                                                             *)
(***************************************************************************)
Quiescent == \A a \in Appliers : op[a] = "none"

\* What the migrations add, their Down scripts take away again.
OnlyAdds ==
    \A id \in Local : \A n \in DOMAIN store[id].up :
        store[id].up[n].do \notin {"drop_table", "drop_column", "drop_key"}

Reverts == {"revert_last", "revert_to"}

\* When apply_pending has returned Ok and nobody is at work, the database has
\* the schema of the newest model and records every migration: whatever
\* failed before, whatever was reverted and whoever else applied at the same
\* time, a script that is resumed or repeated never ends in another schema.
AppliedMeansModel ==
    Quiescent => \A a \in Appliers :
        outcome[a] = <<"apply", "ok">> =>
            /\ schema = SchemaOf(models[Len(store)])
            /\ ToSet(history) = Local

\* When a revert has returned Ok and nothing ever failed, the database is at
\* the model of the target, unless a migration dropped something.
RevertedMeansTarget ==
    Quiescent /\ faults = 0 /\ OnlyAdds => \A a \in Appliers :
        outcome[a] \in Reverts \X {"ok"} =>
            LET n == Cardinality(goal[a]) IN
            /\ goal[a] = 1..n /\ ToSet(history) = goal[a]
            /\ schema = IF n = 0 THEN EmptySchema ELSE SchemaOf(models[n])

\* Unless the database broke before or another applier is at work, it accepts
\* every statement of a migration that is applied, and of one that is reverted
\* unless a migration dropped something.
ScriptsAreAccepted ==
    Quiescent /\ faults = 0 /\ Cardinality(setting.appliers) = 1 => \A a \in Appliers :
        /\ outcome[a] # <<"apply", "err">>
        /\ OnlyAdds => outcome[a] \notin Reverts \X {"err"}

\* Reverting the last migration reverts the one recorded last.
RevertsMostRecent ==
    [][\A a \in Appliers : op[a] = "none" /\ op'[a] = "revert_last" =>
          todo'[a] = <<history[Len(history)]>>]_vars
=============================================================================
