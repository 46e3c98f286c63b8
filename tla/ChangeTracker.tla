--------------------------- MODULE ChangeTracker ---------------------------
(***************************************************************************)
(* The value a ChangeTracker holds and what its methods make of it         *)
(* (crates/core/src/tracking.rs).  A tracker is a function from entry ids  *)
(* to entries; `original` is a snapshot (a function from column names to   *)
(* values) or NoSnapshot, and `mods` is modified_properties as a set.      *)
(* Snapshots leave out the primary key, which no caller edits.             *)
(***************************************************************************)

EntityState == {"Added", "Unchanged", "Modified", "Deleted"}

PendingStates == {"Added", "Modified", "Deleted"}

NoSnapshot == <<>>

EmptyTracker == <<>>

\* f with f[k] = v, whether or not k was in its domain.
Put(f, k, v) == [x \in DOMAIN f \cup {k} |-> IF x = k THEN v ELSE f[x]]

\* f without the points of S.
Drop(f, S) == [x \in DOMAIN f \ S |-> f[x]]

Track(tracker, id, type, state, original, upsert) ==
    Put(tracker, id, [type |-> type, state |-> state, original |-> original,
                      mods |-> {}, upsert |-> upsert])

Differing(current, original) ==
    {c \in DOMAIN current : c \notin DOMAIN original \/ original[c] # current[c]}

\* Only Unchanged entries with an original are compared: an entry that is
\* already Modified keeps the property list it has.
DetectChanges(tracker, snapshots) ==
    [i \in DOMAIN tracker |->
        LET e == tracker[i] IN
        IF e.state = "Unchanged" /\ e.original # NoSnapshot /\ i \in DOMAIN snapshots
        THEN LET changed == Differing(snapshots[i], e.original) IN
             [e EXCEPT !.state = IF changed = {} THEN @ ELSE "Modified",
                       !.mods = changed]
        ELSE e]

SetState(tracker, ids, state) ==
    [i \in DOMAIN tracker |->
        IF i \in ids THEN [tracker[i] EXCEPT !.state = state] ELSE tracker[i]]

\* Mutant: the original is not refreshed.
AcceptAllChanges_StaleOriginal(tracker, snapshots) ==
    [i \in {j \in DOMAIN tracker : tracker[j].state # "Deleted"} |->
        [tracker[i] EXCEPT !.state = "Unchanged", !.mods = {}]]

\* The whole tracker is accepted, whatever set the snapshots come from: an
\* entry without a snapshot becomes Unchanged with the original it had.
AcceptAllChanges(tracker, snapshots) ==
    [i \in {j \in DOMAIN tracker : tracker[j].state # "Deleted"} |->
        LET e == tracker[i] IN
        IF e.state \in {"Added", "Modified"}
        THEN [e EXCEPT !.state = "Unchanged", !.mods = {},
                       !.original = IF i \in DOMAIN snapshots THEN snapshots[i] ELSE @]
        ELSE e]

\* The entities are not touched: an edit stays in memory, and an Added entity
\* loses its entry and stays in its DbSet.
RejectAllChanges(tracker) ==
    [i \in {j \in DOMAIN tracker : tracker[j].state # "Added"} |->
        IF tracker[i].state \in {"Modified", "Deleted"}
        THEN [tracker[i] EXCEPT !.state = "Unchanged", !.mods = {}]
        ELSE tracker[i]]

Detach(tracker, id) == Drop(tracker, {id})

ClearByType(tracker, type) ==
    Drop(tracker, {i \in DOMAIN tracker : tracker[i].type = type})

=============================================================================
