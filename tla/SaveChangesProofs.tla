------------------------- MODULE SaveChangesProofs -------------------------
(***************************************************************************)
(* Theorems about SaveChanges, for any entity model, rows, bounds and      *)
(* failures: the DbSet of a context with one type agrees with the tracker. *)
(*                                                                         *)
(* Then why save_changes keeps the references of the database, and why the *)
(* database has no reason to refuse one of its statements: insertion in    *)
(* the order of the dependency graph, key fix-up, and the cascades, for    *)
(* any entity model of principals and dependents, any calls and failures.  *)
(***************************************************************************)
EXTENDS SaveChanges, FiniteSetTheorems, NaturalLemmas, TLAPS

(***************************************************************************)
(* The DbSet and the tracker.                                              *)
(***************************************************************************)
EntityOk(e) ==
    /\ e = [type |-> e.type, pk |-> e.pk, cols |-> e.cols, kids |-> e.kids]
    /\ e.type \in Types
    /\ e.kids # {} => HasChildren(e.type)

EntryOk(e) ==
    /\ e = [type |-> e.type, state |-> e.state, original |-> e.original,
            mods |-> e.mods, upsert |-> e.upsert]
    /\ e.type \in Types

EntitiesOk(ents) == \A i \in DOMAIN ents : EntityOk(ents[i])
EntriesOk(entries) == \A i \in DOMAIN entries : EntryOk(entries[i])

\* The ids agree at every moment, and what is needed to see that accepting
\* keeps them so: entries and entities are of registered types, and the one
\* visit of the acceptance is the one to the only set.
SetInv ==
    /\ DOMAIN entity = DOMAIN tracker
    /\ EntitiesOk(entity) /\ EntriesOk(tracker)
    /\ pc = "accept" => todo = InsertOrder

LEMMA TrackIsOk ==
    ASSUME NEW entries, EntriesOk(entries), NEW id, NEW t \in Types, NEW state,
           NEW original, NEW upsert
    PROVE  /\ DOMAIN Track(entries, id, t, state, original, upsert) = DOMAIN entries \cup {id}
           /\ EntriesOk(Track(entries, id, t, state, original, upsert))
BY DEF Track, Put, EntriesOk, EntryOk

LEMMA PutIsOk ==
    ASSUME NEW ents, EntitiesOk(ents), NEW id, NEW e, EntityOk(e)
    PROVE  DOMAIN Put(ents, id, e) = DOMAIN ents \cup {id} /\ EntitiesOk(Put(ents, id, e))
BY DEF Put, EntitiesOk

LEMMA DropIsOk ==
    ASSUME NEW ents, NEW S, NEW now, now = Drop(ents, S)
    PROVE  /\ DOMAIN now = DOMAIN ents \ S
           /\ EntitiesOk(ents) => EntitiesOk(now)
           /\ EntriesOk(ents) => EntriesOk(now)
BY DEF Drop, EntitiesOk, EntriesOk

LEMMA DetectIsOk ==
    ASSUME NEW entries, EntriesOk(entries), NEW snapshots,
           NEW now, now = DetectChanges(entries, snapshots)
    PROVE  DOMAIN now = DOMAIN entries /\ EntriesOk(now)
<1>1. DOMAIN now = DOMAIN entries
  BY DEF DetectChanges
<1>2. ASSUME NEW i \in DOMAIN entries PROVE EntryOk(now[i])
  <2>1. EntryOk(entries[i]) BY DEF EntriesOk
  <2>2. now[i] = entries[i] \/ \E s, m : now[i] = [entries[i] EXCEPT !.state = s, !.mods = m]
    BY DEF DetectChanges
  <2> QED BY <2>1, <2>2 DEF EntryOk
<1> QED BY <1>1, <1>2 DEF EntriesOk

LEMMA SetStateIsOk ==
    ASSUME NEW entries, EntriesOk(entries), NEW ids, NEW state,
           NEW now, now = SetState(entries, ids, state)
    PROVE  DOMAIN now = DOMAIN entries /\ EntriesOk(now)
<1>1. DOMAIN now = DOMAIN entries
  BY DEF SetState
<1>2. ASSUME NEW i \in DOMAIN entries PROVE EntryOk(now[i])
  <2>1. EntryOk(entries[i]) BY DEF EntriesOk
  <2>2. now[i] = entries[i] \/ now[i] = [entries[i] EXCEPT !.state = state]
    BY DEF SetState
  <2> QED BY <2>1, <2>2 DEF EntryOk
<1> QED BY <1>1, <1>2 DEF EntriesOk

LEMMA AcceptIsOk ==
    ASSUME NEW entries, EntriesOk(entries), NEW snapshots,
           NEW now, now = AcceptAllChanges(entries, snapshots)
    PROVE  /\ DOMAIN now = {i \in DOMAIN entries : entries[i].state # "Deleted"}
           /\ EntriesOk(now)
<1>1. DOMAIN now = {i \in DOMAIN entries : entries[i].state # "Deleted"}
  BY DEF AcceptAllChanges
<1>2. ASSUME NEW i \in DOMAIN now PROVE EntryOk(now[i])
  <2>1. i \in DOMAIN entries /\ EntryOk(entries[i]) BY <1>1 DEF EntriesOk
  <2> DEFINE o == IF i \in DOMAIN snapshots THEN snapshots[i] ELSE entries[i].original
  <2>2. \/ now[i] = entries[i]
        \/ now[i] = [entries[i] EXCEPT !.state = "Unchanged", !.mods = {}, !.original = o]
    BY <1>1 DEF AcceptAllChanges
  <2> HIDE DEF o
  <2>3. CASE now[i] = entries[i]
    BY <2>1, <2>3
  <2>4. CASE now[i] = [entries[i] EXCEPT !.state = "Unchanged", !.mods = {}, !.original = o]
    <3> DEFINE e == entries[i]
    <3>1. now[i] = [type |-> e.type, state |-> "Unchanged", original |-> o, mods |-> {},
                    upsert |-> e.upsert]
      BY <2>1, <2>4 DEF EntryOk
    <3> QED BY <2>1, <3>1 DEF EntryOk
  <2> QED BY <2>2, <2>3, <2>4
<1> QED BY <1>1, <1>2 DEF EntriesOk

LEMMA ChildTypeIsType ==
    ASSUME NEW t, HasChildren(t)
    PROVE  ChildType(t) \in Types
BY DEF HasChildren, ChildType

\* Key fix-up changes keys and columns only.
LEMMA FixedUpIsOk ==
    ASSUME EntitiesOk(entity), NEW t, NEW ids
    PROVE  LET fixed == FixedUp(t, Backfilled(t, ids)) IN
           DOMAIN fixed = DOMAIN entity /\ EntitiesOk(fixed)
<1> DEFINE ents == Backfilled(t, ids)
           fixed == FixedUp(t, ents)
<1>1. DOMAIN ents = DOMAIN entity
  BY DEF Backfilled
<1>2. ASSUME NEW i \in DOMAIN entity PROVE EntityOk(ents[i])
  <2>1. EntityOk(entity[i]) BY DEF EntitiesOk
  <2>2. ents[i] = entity[i] \/ \E k : ents[i] = [entity[i] EXCEPT !.pk = k]
    BY DEF Backfilled
  <2> QED BY <2>1, <2>2 DEF EntityOk
<1> HIDE DEF ents
<1>3. DOMAIN fixed = DOMAIN ents
  BY DEF FixedUp
<1>4. ASSUME NEW i \in DOMAIN ents PROVE EntityOk(fixed[i])
  <2>1. EntityOk(ents[i]) BY <1>1, <1>2
  <2>2. fixed[i] = ents[i] \/ \E c : fixed[i] = [ents[i] EXCEPT !.cols = c]
    BY DEF FixedUp
  <2> QED BY <2>1, <2>2 DEF EntityOk
<1> QED BY <1>1, <1>3, <1>4 DEF EntitiesOk, ents

LEMMA PushKeepsSets ==
    ASSUME SetInv, NEW t \in Types, NEW pk, NEW cols, NEW kids, NEW state,
           NEW original, NEW upsert, kids # {} => HasChildren(t),
           Push(t, pk, cols, kids, state, original, upsert), pc' = pc, pc # "accept"
    PROVE  SetInv'
<1> DEFINE e == [type |-> t, pk |-> pk, cols |-> cols, kids |-> kids]
<1>1. EntityOk(e)
  BY DEF EntityOk
<1> HIDE DEF e
<1>2. entity' = Put(entity, nextId, e)
  BY DEF Push, e
<1>3. DOMAIN entity' = DOMAIN entity \cup {nextId} /\ EntitiesOk(entity')
  BY <1>1, <1>2, PutIsOk DEF SetInv
<1>4. DOMAIN tracker' = DOMAIN tracker \cup {nextId} /\ EntriesOk(tracker')
  <2>1. EntriesOk(tracker) /\ tracker' = Track(tracker, nextId, t, state, original, upsert)
    BY DEF SetInv, Push
  <2> DEFINE now == Track(tracker, nextId, t, state, original, upsert)
  <2>2. DOMAIN now = DOMAIN tracker \cup {nextId} /\ EntriesOk(now)
    BY <2>1, TrackIsOk
  <2> QED BY <2>1, <2>2
<1> QED BY <1>3, <1>4 DEF SetInv

\* The calls that push one entity.
LEMMA PushingCalls ==
    ASSUME SetInv, NEW t \in Types,
           Add(t) \/ AddOver(t) \/ Attach(t) \/ AttachIncluded(t) \/ Update(t) \/ Upsert(t)
    PROVE  SetInv'
<1>1. pc' = pc /\ pc # "accept"
  BY DEF Add, AddOver, Attach, AttachIncluded, Update, Upsert, Call, Allowed, savevars
<1>2. CASE Add(t)
  <2>1. PICK cols \in Columns(t),
             kids \in IF HasChildren(t) THEN {{}} \cup {{kid} : kid \in NewChild(t)} ELSE {{}} :
             Push(t, NoKey, cols, kids, "Added", NoSnapshot, FALSE)
    BY <1>2 DEF Add
  <2>2. kids # {} => HasChildren(t)
    BY <2>1
  <2> QED BY <1>1, <2>1, <2>2, PushKeepsSets
<1>3. CASE AddOver(t)
  <2>1. HasChildren(t) /\ \E cols, kids : Push(t, NoKey, cols, kids, "Added", NoSnapshot, FALSE)
    BY <1>3 DEF AddOver
  <2> QED BY <1>1, <2>1, PushKeepsSets
<1>4. CASE AttachIncluded(t)
  <2>1. HasChildren(t)
    BY <1>4 DEF AttachIncluded
  <2>2. \E pk, cols, kids, original : Push(t, pk, cols, kids, "Unchanged", original, FALSE)
    BY <1>4 DEF AttachIncluded
  <2> QED BY <1>1, <2>1, <2>2, PushKeepsSets
<1>5. CASE Attach(t) \/ Update(t) \/ Upsert(t)
  <2>1. \E pk, cols, state, original, upsert : Push(t, pk, cols, {}, state, original, upsert)
    <3>1. CASE Attach(t) BY <3>1 DEF Attach
    <3>2. CASE Update(t) BY <3>2 DEF Update
    <3>3. CASE Upsert(t) BY <3>3 DEF Upsert
    <3> QED BY <1>5, <3>1, <3>2, <3>3
  <2> QED BY <1>1, <2>1, PushKeepsSets
<1> QED BY <1>2, <1>3, <1>4, <1>5

\* Calls that change one side alone.
SplitCalls == {"retain", "reject", "detach"}

OneType == \E t : Types = {t}

LEMMA SetsOfCalls ==
    ASSUME SetInv, CallStep, OneType, Calls \cap SplitCalls = {}
    PROVE  SetInv'
<1>1. ASSUME NEW t \in Types,
             Add(t) \/ AddOver(t) \/ Attach(t) \/ AttachIncluded(t) \/ Update(t) \/ Upsert(t)
      PROVE  SetInv'
  BY <1>1, PushingCalls
<1>2. ASSUME NEW t \in Types, RemoveAll(t)
      PROVE  SetInv'
  <2>1. DOMAIN tracker' = DOMAIN tracker /\ EntriesOk(tracker')
    BY <1>2, SetStateIsOk DEF RemoveAll, SetInv
  <2> QED BY <1>2, <2>1 DEF RemoveAll, Call, Allowed, savevars, SetInv
<1>3. ASSUME NEW t \in Types, LoadAll(t)
      PROVE  SetInv'
  <2> DEFINE keys  == DOMAIN db[t]
             id(k) == nextId + Cardinality({j \in keys : j < k})
             new   == {id(k) : k \in keys}
             key(i) == CHOOSE k \in keys : id(k) = i
             rest  == Drop(entity, In(t))
             kept  == ClearByType(tracker, t)
  <2>1. entity' = [i \in DOMAIN rest \cup new |->
                      IF i \in new
                      THEN [type |-> t, pk |-> key(i), cols |-> db[t][key(i)], kids |-> {}]
                      ELSE rest[i]]
    BY <1>3 DEF LoadAll
  <2>2. tracker' = [i \in DOMAIN kept \cup new |->
                      IF i \in new
                      THEN [type |-> t, state |-> "Unchanged", original |-> db[t][key(i)],
                            mods |-> {}, upsert |-> FALSE]
                      ELSE kept[i]]
    BY <1>3 DEF LoadAll
  <2>3. In(t) = DOMAIN entity
    BY DEF In, SetInv, EntitiesOk, EntityOk, OneType
  <2>4. DOMAIN rest = {}
    BY <2>3 DEF Drop
  <2>5. DOMAIN kept = {}
    BY DEF Drop, ClearByType, SetInv, EntriesOk, EntryOk, OneType
  <2> HIDE DEF new, key, rest, kept
  <2>6. DOMAIN entity' = new /\ DOMAIN tracker' = new
    BY <2>1, <2>2, <2>4, <2>5
  <2>7. EntitiesOk(entity') /\ EntriesOk(tracker')
    BY <2>1, <2>2, <2>4, <2>5 DEF EntitiesOk, EntityOk, EntriesOk, EntryOk
  <2> QED BY <1>3, <2>6, <2>7 DEF LoadAll, Call, Allowed, savevars, SetInv
<1>4. ASSUME NEW i \in DOMAIN entity, Edit(i)
      PROVE  SetInv'
  <2>1. PICK c, v : entity' = [entity EXCEPT ![i].cols[c] = v]
    BY <1>4 DEF Edit
  <2>2. DOMAIN entity' = DOMAIN entity
    BY <2>1
  <2>3. ASSUME NEW j \in DOMAIN entity PROVE EntityOk(entity'[j])
    <3>1. EntityOk(entity[j]) BY DEF SetInv, EntitiesOk
    <3> DEFINE cs == [entity[j].cols EXCEPT ![c] = v]
    <3>2. entity'[j] = entity[j] \/ entity'[j] = [entity[j] EXCEPT !.cols = cs]
      BY <2>1
    <3> HIDE DEF cs
    <3> QED BY <3>1, <3>2 DEF EntityOk
  <2> QED BY <1>4, <2>2, <2>3 DEF Edit, Call, Allowed, savevars, SetInv, EntitiesOk
<1>5. ASSUME NEW i, RemoveAt(i)
      PROVE  SetInv'
  <2>1. DOMAIN tracker' = DOMAIN tracker /\ EntriesOk(tracker')
    BY <1>5, SetStateIsOk DEF RemoveAt, SetInv
  <2> QED BY <1>5, <2>1 DEF RemoveAt, Call, Allowed, savevars, SetInv
<1>6. CASE DetectNow
  <2>1. DOMAIN tracker' = DOMAIN tracker /\ EntriesOk(tracker')
    BY <1>6, DetectIsOk DEF DetectNow, SetInv
  <2> QED BY <1>6, <2>1 DEF DetectNow, Call, Allowed, savevars, SetInv
<1>7. CASE ClearTracking
  BY <1>7 DEF ClearTracking, EmptyTracker, savevars, SetInv, EntitiesOk, EntriesOk
<1>8. ~RejectAll /\ (\A t : ~Retain(t)) /\ (\A i : ~DetachEntry(i))
  BY DEF RejectAll, Retain, DetachEntry, Call, SplitCalls
<1> QED BY <1>1, <1>2, <1>3, <1>4, <1>5, <1>6, <1>7, <1>8 DEF CallStep

\* Statements leave the ids and the types alone.
LEMMA SetsOfStatements ==
    ASSUME SetInv, pc # "accept", pc' # "accept", UNCHANGED <<entity, tracker>>
    PROVE  SetInv'
BY DEF SetInv

\* What is drained from a principal, and what is left of it.
LEMMA KidIsOk ==
    ASSUME SetInv, NEW i \in DOMAIN entity, NEW kid \in entity[i].kids
    PROVE  LET t == ChildType(entity[i].type)
               left == [entity EXCEPT ![i].kids = @ \ {kid}] IN
           /\ t \in Types
           /\ EntityOk([type |-> t, pk |-> kid.pk, cols |-> kid.cols, kids |-> {}])
           /\ DOMAIN left = DOMAIN entity /\ EntitiesOk(left)
<1> DEFINE left == [entity EXCEPT ![i].kids = @ \ {kid}]
<1>1. EntityOk(entity[i])
  BY DEF SetInv, EntitiesOk
<1>2. ChildType(entity[i].type) \in Types
  BY <1>1, ChildTypeIsType DEF EntityOk
<1>3. ASSUME NEW j \in DOMAIN entity PROVE EntityOk(left[j])
  <2>1. EntityOk(entity[j]) BY DEF SetInv, EntitiesOk
  <2> DEFINE rest == entity[j].kids \ {kid}
  <2>2. left[j] = entity[j] \/ (j = i /\ left[j] = [entity[j] EXCEPT !.kids = rest])
    OBVIOUS
  <2>3. rest # {} => HasChildren(entity[j].type)
    BY <2>1 DEF EntityOk
  <2> HIDE DEF rest
  <2> QED BY <2>1, <2>2, <2>3 DEF EntityOk
<1> QED BY <1>2, <1>3 DEF EntityOk, EntitiesOk

\* The child kid of entry i is tracked; the child of a Deleted principal is
\* tracked or, when it was never saved, forgotten.
Adopted(i, kid) ==
    LET t == ChildType(entity[i].type) IN
    /\ \/ tracker' = Track(tracker, nextId, t, "Unchanged", kid.cols, FALSE)
       \/ tracker' = Track(tracker, nextId, t, "Added", NoSnapshot, FALSE)
    /\ entity' = Put([entity EXCEPT ![i].kids = @ \ {kid}], nextId,
                     [type |-> t, pk |-> kid.pk, cols |-> kid.cols, kids |-> {}])

Drained(i, kid) ==
    LET t == ChildType(entity[i].type)
        left == [entity EXCEPT ![i].kids = @ \ {kid}] IN
    \/ entity' = left /\ tracker' = tracker
    \/ /\ tracker' = Track(tracker, nextId, t, "Deleted", kid.cols, FALSE)
       /\ entity' = Put(left, nextId,
                        [type |-> t, pk |-> kid.pk, cols |-> kid.cols, kids |-> {}])

LEMMA OneSet ==
    ASSUME OneType
    PROVE  Len(InsertOrder) = 1
<1>1. PICK t : Types = {t} BY DEF OneType
<1>2. Cardinality(Types) = 1 BY <1>1, FS_Singleton
<1> QED BY <1>2, ShapeAssumption

LEMMA SetsOfSaves ==
    ASSUME SetInv, SaveStep, OneType
    PROVE  SetInv'
<1>1. CASE SaveBegin
  <2>1. DOMAIN tracker' = DOMAIN tracker /\ EntriesOk(tracker')
    BY <1>1, DetectIsOk DEF SaveBegin, SetInv
  <2>2. pc' # "accept" /\ entity' = entity
    BY <1>1 DEF SaveBegin, SaveIdle
  <2> QED BY <2>1, <2>2 DEF SetInv
<1>2. CASE DrainAdds
  <2>1. PICK i \in DOMAIN entity : \E kid \in entity[i].kids : Adopted(i, kid)
    BY <1>2 DEF DrainAdds, Adopted
  <2>0. PICK kid \in entity[i].kids : Adopted(i, kid)
    BY <2>1
  <2> DEFINE t == ChildType(entity[i].type)
             left == [entity EXCEPT ![i].kids = @ \ {kid}]
             e == [type |-> t, pk |-> kid.pk, cols |-> kid.cols, kids |-> {}]
  <2>2. entity' = Put(left, nextId, e)
    BY <2>0 DEF Adopted
  <2>3. \/ tracker' = Track(tracker, nextId, t, "Unchanged", kid.cols, FALSE)
        \/ tracker' = Track(tracker, nextId, t, "Added", NoSnapshot, FALSE)
    BY <2>0 DEF Adopted
  <2> HIDE DEF t, left, e
  <2>4. /\ t \in Types
        /\ EntityOk(e)
        /\ DOMAIN left = DOMAIN entity /\ EntitiesOk(left)
    BY KidIsOk DEF t, left, e
  <2>5. DOMAIN entity' = DOMAIN entity \cup {nextId} /\ EntitiesOk(entity')
    <3>1. DOMAIN Put(left, nextId, e) = DOMAIN left \cup {nextId}
      BY <2>4, PutIsOk
    <3>2. EntitiesOk(Put(left, nextId, e))
      BY <2>4, PutIsOk
    <3> QED BY <2>2, <2>4, <3>1, <3>2
  <2>6. DOMAIN tracker' = DOMAIN tracker \cup {nextId} /\ EntriesOk(tracker')
    <3> EntriesOk(tracker)
      BY DEF SetInv
    <3>1. CASE tracker' = Track(tracker, nextId, t, "Unchanged", kid.cols, FALSE)
      <4> DEFINE now == Track(tracker, nextId, t, "Unchanged", kid.cols, FALSE)
      <4>1. DOMAIN now = DOMAIN tracker \cup {nextId} /\ EntriesOk(now)
        BY <2>4, TrackIsOk
      <4> QED BY <3>1, <4>1
    <3>2. CASE tracker' = Track(tracker, nextId, t, "Added", NoSnapshot, FALSE)
      <4> DEFINE now == Track(tracker, nextId, t, "Added", NoSnapshot, FALSE)
      <4>1. DOMAIN now = DOMAIN tracker \cup {nextId} /\ EntriesOk(now)
        BY <2>4, TrackIsOk
      <4> QED BY <3>2, <4>1
    <3> QED BY <2>3, <3>1, <3>2
  <2> QED BY <1>2, <2>5, <2>6 DEF DrainAdds, SetInv
<1>3. CASE DrainDeletes
  <2>1. CASE UNCHANGED <<tracker, entity>>
    BY <1>3, <2>1 DEF DrainDeletes, SetInv
  <2>2. CASE ~UNCHANGED <<tracker, entity>>
    <3>0. PICK i \in ToDrain : \E kid \in entity[i].kids : Drained(i, kid)
      BY <1>3, <2>2 DEF DrainDeletes, Drained
    <3>1. PICK kid \in entity[i].kids : Drained(i, kid)
      BY <3>0
    <3> DEFINE t == ChildType(entity[i].type)
               left == [entity EXCEPT ![i].kids = @ \ {kid}]
               e == [type |-> t, pk |-> kid.pk, cols |-> kid.cols, kids |-> {}]
    <3>2. \/ entity' = left /\ tracker' = tracker
          \/ /\ tracker' = Track(tracker, nextId, t, "Deleted", kid.cols, FALSE)
             /\ entity' = Put(left, nextId, e)
      BY <3>1 DEF Drained
    <3> HIDE DEF t, left, e
    <3>3. /\ t \in Types
          /\ EntityOk(e)
          /\ DOMAIN left = DOMAIN entity /\ EntitiesOk(left)
      BY KidIsOk DEF t, left, e, ToDrain
    <3>4. pc' # "accept"
      BY <1>3 DEF DrainDeletes
    <3>5. CASE entity' = left /\ tracker' = tracker
      BY <3>3, <3>4, <3>5 DEF SetInv
    <3>6. CASE /\ tracker' = Track(tracker, nextId, t, "Deleted", kid.cols, FALSE)
               /\ entity' = Put(left, nextId, e)
      <4>1. DOMAIN entity' = DOMAIN entity \cup {nextId} /\ EntitiesOk(entity')
        <5>1. DOMAIN Put(left, nextId, e) = DOMAIN left \cup {nextId}
          BY <3>3, PutIsOk
        <5>2. EntitiesOk(Put(left, nextId, e))
          BY <3>3, PutIsOk
        <5> QED BY <3>3, <3>6, <5>1, <5>2
      <4>2. DOMAIN tracker' = DOMAIN tracker \cup {nextId} /\ EntriesOk(tracker')
        <5> EntriesOk(tracker)
          BY DEF SetInv
        <5> DEFINE now == Track(tracker, nextId, t, "Deleted", kid.cols, FALSE)
        <5>1. DOMAIN now = DOMAIN tracker \cup {nextId} /\ EntriesOk(now)
          BY <3>3, TrackIsOk
        <5> QED BY <3>6, <5>1
      <4> QED BY <3>4, <4>1, <4>2 DEF SetInv
    <3> QED BY <3>2, <3>5, <3>6
  <2> QED BY <2>1, <2>2
<1>4. CASE DrainAddsDone \/ DrainDeletesDone
  BY <1>4, SetsOfStatements DEF DrainAddsDone, DrainDeletesDone
<1>5. CASE InsertAdded
  <2>1. PICK t, ids : entity' = FixedUp(t, Backfilled(t, ids))
    BY <1>5 DEF InsertAdded
  <2>2. DOMAIN entity' = DOMAIN entity /\ EntitiesOk(entity')
    BY <2>1, FixedUpIsOk DEF SetInv
  <2>3. pc' # "accept" /\ tracker' = tracker
    BY <1>5 DEF InsertAdded, Onward
  <2> QED BY <2>2, <2>3 DEF SetInv
<1>6. CASE UpsertAdded \/ UpdateModified \/ DeleteDeleted
  BY <1>6, SetsOfStatements DEF UpsertAdded, UpdateModified, DeleteDeleted, Onward
<1>7. CASE SetNullDirectives \/ CascadeDirectives
  BY <1>7, SetsOfStatements DEF SetNullDirectives, CascadeDirectives
<1>8. CASE StatementRefused \/ SaveFails
  <2>1. FailSave
    BY <1>8 DEF StatementRefused, SaveFails, StatementFails
  <2> QED BY <2>1 DEF FailSave, SaveIdle, SetInv
<1>9. CASE Commit
  BY <1>9 DEF Commit, SetInv
<1>10. CASE Accept
  <2>1. PICK n \in DOMAIN InsertOrder : AcceptSet(InsertOrder[n])
    BY <1>10 DEF Accept, SetInv
  <2>2. InsertOrder[n] \in Types
    BY ShapeAssumption
  <2> DEFINE t == InsertOrder[n]
  <2>3. In(t) = DOMAIN entity
    BY <2>2 DEF In, SetInv, EntitiesOk, EntityOk, OneType
  <2>4. ToDelete(t) = {i \in DOMAIN tracker : tracker[i].state = "Deleted"}
    BY <2>3 DEF ToDelete, StateOf, SetInv
  <2>5. DOMAIN entity' = DOMAIN entity \ ToDelete(t) /\ EntitiesOk(entity')
    BY <2>1, DropIsOk DEF AcceptSet, SetInv
  <2>6. /\ DOMAIN tracker' = {i \in DOMAIN tracker : tracker[i].state # "Deleted"}
        /\ EntriesOk(tracker')
    BY <2>1, AcceptIsOk DEF AcceptSet, SetInv
  <2>7. DOMAIN entity' = DOMAIN tracker'
    BY <2>4, <2>5, <2>6 DEF SetInv
  <2>8. Len(todo) = 1
    BY <1>10, OneSet DEF Accept, SetInv
  <2>9. pc' = "idle"
    BY <1>10, <2>8 DEF Accept, SaveReturns
  <2> QED BY <2>5, <2>6, <2>7, <2>9 DEF SetInv
<1> QED BY <1>1, <1>2, <1>3, <1>4, <1>5, <1>6, <1>7, <1>8, <1>9, <1>10 DEF SaveStep

\* In a context with one DbSet the set and the tracker hold the same entries
\* between calls, whatever fails and however often a save is repeated, as
\* long as the caller drops entities and entries only through the context
\* (set_ops.rs:179-202, tracking.rs:183-198).
THEOREM SetsStayMatched ==
    OneType /\ Calls \cap SplitCalls = {} => (Spec => []SetsMatchTracker)
<1> SUFFICES ASSUME OneType, Calls \cap SplitCalls = {}
             PROVE  Spec => []SetsMatchTracker
    OBVIOUS
<1>1. Init => SetInv
  BY DEF Init, EmptyTracker, SetInv, EntitiesOk, EntriesOk
<1>2. SetInv /\ [Next]_vars => SetInv'
  <2> SUFFICES ASSUME SetInv, [Next]_vars
               PROVE  SetInv'
    OBVIOUS
  <2>1. CASE CallStep
    BY <2>1, SetsOfCalls
  <2>2. CASE SaveStep
    BY <2>2, SetsOfSaves
  <2>3. CASE OtherWrites
    BY <2>3 DEF OtherWrites, SetInv
  <2>4. CASE UNCHANGED vars
    BY <2>4 DEF vars, SetInv
  <2> QED BY <2>1, <2>2, <2>3, <2>4 DEF Next
<1>3. SetInv => SetsMatchTracker
  BY DEF SetInv, SetsMatchTracker
<1> QED BY <1>1, <1>2, <1>3, PTL DEF Spec

(***************************************************************************)
(* References: the conditions and the invariant.                           *)
(***************************************************************************)
\* One unit of work for each context, nobody else writes, dependents have no
\* dependents of their own, principals come first in the order, and only a
\* database that looks restricts deletions.
Apart == \A nav, other \in HasMany : nav[2] # other[1]

RefSafe ==
    /\ MaxOther = 0 /\ AfterFailure = "clear" /\ AfterSave = "clear"
    /\ Apart
    /\ \A m, n \in DOMAIN InsertOrder : <<InsertOrder[m], InsertOrder[n]>> \in HasMany => m < n
    /\ \A p \in Policies : p.onDelete = "Restrict" => p.enforced

Drains == {"drain_adds", "drain_deletes"}
Writes == {"insert", "upsert", "update", "set_null"}
Saving == Drains \cup Writes \cup {"delete", "prune", "commit"}

\* Neither a save nor its end has decided about the entities yet.
Open == result = "none" /\ pc # "accept"

KeysOk(keys) == IsFiniteSet(keys) /\ keys \subseteq Nat \ {NoKey}

TableOk(t, rows) == KeysOk(DOMAIN rows) /\ \A k \in DOMAIN rows : DOMAIN rows[k] = Cols[t]

RowsOk(rows) ==
    /\ rows = [t \in Types |-> rows[t]]
    /\ \A t \in Types : TableOk(t, rows[t])

\* The foreign key among cols of a row of t names a row, or none.
Refers(t, cols, rows) ==
    \A p \in Types : <<p, t>> \in HasMany => cols.fk \in {Null} \cup DOMAIN rows[p]

RowsRefer(rows) == \A t \in Types : \A k \in DOMAIN rows[t] : Refers(t, rows[t][k], rows)

KidGood(t, kid, rows) ==
    /\ DOMAIN kid.cols = Cols[t]
    /\ kid.pk = NoKey \/ (kid.pk \in DOMAIN rows[t] /\ Refers(t, kid.cols, rows))

EntityGood(e, rows) ==
    /\ e = [type |-> e.type, pk |-> e.pk, cols |-> e.cols, kids |-> e.kids]
    /\ e.type \in Types /\ DOMAIN e.cols = Cols[e.type]
    /\ \A kid \in e.kids : HasChildren(e.type) /\ KidGood(ChildType(e.type), kid, rows)

IsChild(i) == \E l \in links : l.child = i

\* An entity refers to a row that was there, or is linked to one to come.
EntitiesRefer ==
    Open => \A i \in DOMAIN entity :
        /\ EntityGood(entity[i], db)
        /\ IsChild(i) \/ Refers(entity[i].type, entity[i].cols, db)

ParentType(l) == entity[l.parent].type

LinksJoin ==
    Open => \A l \in links :
        /\ l.parent \in DOMAIN entity /\ l.child \in DOMAIN entity
        /\ <<ParentType(l), entity[l.child].type>> \in HasMany
        /\ l.parent \in ToInsert(ParentType(l))

\* After the insertion of its principal a child has the key.
IsSet(l) == entity[l.child].cols.fk \in DOMAIN work[ParentType(l)]
LinksAreSet ==
    /\ pc = "insert" =>
          \A l \in links : (\A n \in DOMAIN todo : todo[n] # ParentType(l)) => IsSet(l)
    /\ pc \in {"upsert", "update"} => \A l \in links : IsSet(l)

\* Principals before dependents, and the other way round.
EachOnce(s) == s # <<>> /\ s \in Seq(Types) /\ \A m, n \in DOMAIN s : s[m] = s[n] => m = n
Falls(s) == EachOnce(s) /\ \A m, n \in DOMAIN s : <<s[m], s[n]>> \in HasMany => m < n
Rises(s) == EachOnce(s) /\ \A m, n \in DOMAIN s : <<s[m], s[n]>> \in HasMany => n < m

InOrder ==
    /\ pc \in {"insert", "upsert", "update"} => Falls(todo)
    /\ pc \in {"set_null", "delete"} => Rises(todo)

\* For every deleted principal there is a directive.
DirectiveOk(d) ==
    d.action = OnDelete /\ d.key # Null /\ \E p \in Types : <<p, d.type>> \in HasMany
DirectivesAreMade ==
    /\ \A d \in directives : DirectiveOk(d)
    /\ pc = "drain_adds" => processed = {}
    /\ pc \in Drains => processed \subseteq DOMAIN entity
    /\ pc \in Saving => \A i \in DOMAIN entity : StateOf(i) = "Deleted" =>
          \/ pc \in Drains /\ i \notin processed
          \/ DirectiveOf(i) \subseteq directives

\* While rows are deleted, a row may be left that the last phase removes.
Directs(t, key) == \E d \in directives : d.type = t /\ d.key = key
Loose ==
    \A t \in Types : \A k \in DOMAIN work[t] : \A p \in Types : <<p, t>> \in HasMany =>
        /\ \/ work[t][k].fk \in {Null} \cup DOMAIN work[p]
           \/ OnDelete = "Cascade" /\ Directs(t, work[t][k].fk)
        /\ OnDelete = "SetNull" => ~Directs(t, work[t][k].fk)

TablesRefer ==
    /\ RowsOk(db) /\ RowsRefer(db)
    /\ pc \in Saving => RowsOk(work)
    /\ pc \in Drains \cup Writes \cup {"commit"} => RowsRefer(work)
    /\ pc \in {"delete", "prune"} => Loose

\* No row goes before its type's turn in the deletion.
RowsStay ==
    /\ pc \in Drains \cup Writes => \A t \in Types : DOMAIN db[t] \subseteq DOMAIN work[t]
    /\ pc = "delete" => \A n \in DOMAIN todo : DOMAIN db[todo[n]] \subseteq DOMAIN work[todo[n]]

HasRow(i) ==
    i \in DOMAIN tracker /\ tracker[i].state # "Added" => entity[i].pk \in DOMAIN db[entity[i].type]
EntitiesAreStored ==
    Open /\ "remove_added" \notin Calls =>
        \A i \in DOMAIN entity : HasRow(i)

\* What an upsert finds its row by is a key.
Keyed(i) ==
    i \in DOMAIN tracker /\ tracker[i].state = "Added" /\ tracker[i].upsert =>
        entity[i].pk \in Nat \ {NoKey}
UpsertsAreKeyed == Open => EntriesOk(tracker) /\ \A i \in DOMAIN entity : Keyed(i)

Frame ==
    /\ pc \in Saving \cup {"idle", "accept"}
    /\ result \in {"none", "ok", "failed"} /\ (pc # "idle" => result = "none")
    /\ policy \in Policies /\ others \in Nat
    /\ nextId \in Nat /\ \A i \in DOMAIN entity : i \in Nat /\ i < nextId
    /\ pc = "idle" => links = {} /\ directives = {} /\ processed = {}

RefInv == /\ Frame /\ EntitiesRefer /\ LinksJoin /\ LinksAreSet /\ InOrder
          /\ DirectivesAreMade /\ TablesRefer /\ RowsStay /\ EntitiesAreStored
          /\ UpsertsAreKeyed

(***************************************************************************)
(* Keys and rows.                                                          *)
(***************************************************************************)
LEMMA NextKeyIsKey ==
    ASSUME NEW rows, KeysOk(DOMAIN rows)
    PROVE  NextKey(rows) \in Nat \ {NoKey}
<1> DEFINE keys == DOMAIN rows \cup {0}
<1>1. IsFiniteSet(keys) /\ keys \in SUBSET Nat /\ keys # {}
  BY FS_AddElement DEF KeysOk
<1>2. \E m \in keys : \A k \in keys : k <= m
  <2> HIDE DEF keys
  <2> QED BY <1>1, GreatestOfFinite
<1>3. \E m \in keys : \A k \in DOMAIN rows : k <= m BY <1>2
<1>4. (CHOOSE m \in keys : \A k \in DOMAIN rows : k <= m) \in Nat BY <1>1, <1>3
<1> QED BY <1>4 DEF NextKey, NoKey

LEMMA ValuesFinite ==
    ASSUME NEW S, IsFiniteSet(S), NEW f, S \subseteq DOMAIN f
    PROVE  IsFiniteSet({f[x] : x \in S})
<1> DEFINE T == {f[x] : x \in S}
           g == [x \in S |-> f[x]]
<1>1. g \in Surjection(S, T) BY DEF Surjection
<1> QED BY <1>1, FS_Surjection

LEMMA IdsFinite ==
    ASSUME nextId \in Nat, \A i \in DOMAIN entity : i \in Nat /\ i < nextId
    PROVE  \A ids \in SUBSET DOMAIN entity : IsFiniteSet(ids)
<1>1. IsFiniteSet(0..(nextId - 1)) BY FS_Interval
<1>2. DOMAIN entity \subseteq 0..(nextId - 1) OBVIOUS
<1> QED BY <1>1, <1>2, FS_Subset

LEMMA RankIsNat ==
    ASSUME nextId \in Nat, \A j \in DOMAIN entity : j \in Nat /\ j < nextId,
           NEW ids \in SUBSET DOMAIN entity, NEW i \in ids
    PROVE  Rank(i, ids) \in Nat
<1> DEFINE S == {j \in ids : j < i}
<1>1. IsFiniteSet(S) BY IdsFinite
<1> QED BY <1>1, FS_CardinalityType DEF Rank

(***************************************************************************)
(* Calls.                                                                  *)
(***************************************************************************)
\* Between calls of an open unit of work.
Settled ==
    /\ nextId \in Nat /\ EntriesOk(tracker)
    /\ \A i \in DOMAIN entity :
          /\ i \in Nat /\ i < nextId /\ Keyed(i)
          /\ EntityGood(entity[i], db)
          /\ Refers(entity[i].type, entity[i].cols, db)
          /\ "remove_added" \notin Calls => HasRow(i)

LEMMA IdleIsSettled ==
    ASSUME RefInv, pc = "idle", result = "none"
    PROVE  Settled
BY DEF RefInv, Frame, EntitiesRefer, EntitiesAreStored, UpsertsAreKeyed, Open, IsChild, Settled

LEMMA SettledIsKept ==
    ASSUME RefInv, pc = "idle", pc' = "idle", result' = "none", Settled',
           UNCHANGED <<db, links, directives, processed, policy, others>>
    PROVE  RefInv'
<1>1. Frame' BY DEF RefInv, Frame, Settled
<1>2. EntitiesRefer' /\ EntitiesAreStored' /\ UpsertsAreKeyed'
  BY DEF EntitiesRefer, EntitiesAreStored, UpsertsAreKeyed, Settled
<1>3. LinksJoin' /\ LinksAreSet' /\ InOrder'
  BY DEF RefInv, Frame, LinksJoin, LinksAreSet, InOrder
<1>4. DirectivesAreMade' /\ RowsStay'
  BY DEF RefInv, Frame, DirectivesAreMade, RowsStay, Saving, Drains, Writes
<1>5. TablesRefer'
  BY DEF RefInv, TablesRefer, Saving, Drains, Writes, RowsRefer, Refers, RowsOk
<1> QED BY <1>1, <1>2, <1>3, <1>4, <1>5 DEF RefInv

LEMMA OneParent ==
    ASSUME NEW t \in Types, NEW p \in Types, <<p, t>> \in HasMany
    PROVE  "fk" \in Cols[t] /\ ParentKeys(t) = DOMAIN db[p]
<1>1. \A q \in Types : <<q, t>> \in HasMany => q = p BY ShapeAssumption
<1>2. {q \in Types : <<q, t>> \in HasMany} = {p} BY <1>1
<1>3. "fk" \in Cols[t] BY ShapeAssumption
<1> QED BY <1>2, <1>3 DEF ParentKeys

LEMMA ColumnsRefer ==
    ASSUME NEW t \in Types, NEW cols \in Columns(t)
    PROVE  DOMAIN cols = Cols[t] /\ Refers(t, cols, db)
BY OneParent DEF Columns, ColValues, Refers

LEMMA EditRefers ==
    ASSUME NEW t \in Types, NEW cols, DOMAIN cols = Cols[t], Refers(t, cols, db),
           NEW c \in Cols[t], NEW v \in ColValues(t, c)
    PROVE  LET new == [cols EXCEPT ![c] = v] IN DOMAIN new = Cols[t] /\ Refers(t, new, db)
BY OneParent DEF ColValues, Refers

LEMMA ChildOf ==
    ASSUME NEW p \in Types, NEW c \in Types, <<p, c>> \in HasMany
    PROVE  HasChildren(p) /\ ChildType(p) = c
<1>1. \A d \in Types : <<p, d>> \in HasMany <=> d = c BY ShapeAssumption
<1> QED BY <1>1 DEF HasChildren, ChildType

LEMMA ChildTypeIs ==
    ASSUME NEW p \in Types, HasChildren(p)
    PROVE  ChildType(p) \in Types /\ <<p, ChildType(p)>> \in HasMany
BY DEF HasChildren, ChildType

LEMMA NewChildIsGood ==
    ASSUME NEW t \in Types, HasChildren(t), NEW kid \in NewChild(t)
    PROVE  KidGood(ChildType(t), kid, db)
BY DEF NewChild, KidGood

LEMMA RowIsGood ==
    ASSUME NEW t \in Types, HasChildren(t), RowsOk(db), RowsRefer(db),
           NEW j \in DOMAIN db[ChildType(t)]
    PROVE  KidGood(ChildType(t), [pk |-> j, cols |-> db[ChildType(t)][j]], db)
BY ChildTypeIs DEF KidGood, RowsOk, TableOk, RowsRefer

MayPush(t, pk, cols, kids, state, upsert) ==
    /\ DOMAIN cols = Cols[t] /\ Refers(t, cols, db)
    /\ \A kid \in kids : HasChildren(t) /\ KidGood(ChildType(t), kid, db)
    /\ state = "Added" \/ pk \in DOMAIN db[t]
    /\ upsert => pk \in Nat \ {NoKey}

LEMMA PushSettles ==
    ASSUME Settled, NEW t \in Types, NEW pk, NEW cols, NEW kids, NEW state, NEW original,
           NEW upsert, Push(t, pk, cols, kids, state, original, upsert), db' = db,
           MayPush(t, pk, cols, kids, state, upsert)
    PROVE  Settled'
<1> DEFINE e == [type |-> t, pk |-> pk, cols |-> cols, kids |-> kids]
<1>1. EntityGood(e, db) /\ e.type = t /\ e.cols = cols /\ e.pk = pk BY DEF EntityGood, MayPush
<1> HIDE DEF e
<1>2. /\ DOMAIN entity' = DOMAIN entity \cup {nextId} /\ entity'[nextId] = e
      /\ \A i \in DOMAIN entity : i # nextId => entity'[i] = entity[i]
  BY DEF Push, Put, e
<1>3. \A i \in DOMAIN entity : i # nextId BY DEF Settled
<1>4. \A i \in DOMAIN entity : /\ i \in DOMAIN tracker' <=> i \in DOMAIN tracker
                               /\ i \in DOMAIN tracker => tracker'[i] = tracker[i]
  BY <1>3 DEF Push, Track, Put
<1>6. nextId' = nextId + 1 /\ nextId \in Nat BY DEF Push, Settled
<1>7. /\ nextId \in DOMAIN tracker' /\ tracker'[nextId].state = state
      /\ tracker'[nextId].upsert = upsert
  BY DEF Push, Track, Put
<1>9. EntriesOk(tracker') BY TrackIsOk DEF Push, Settled
<1>8. ASSUME NEW i \in DOMAIN entity'
      PROVE  /\ i \in Nat /\ i < nextId' /\ Keyed(i)'
             /\ EntityGood(entity'[i], db) /\ Refers(entity'[i].type, entity'[i].cols, db)
             /\ "remove_added" \notin Calls => HasRow(i)'
  <2>1. CASE i = nextId BY <2>1, <1>1, <1>2, <1>6, <1>7 DEF HasRow, Keyed, MayPush
  <2>2. CASE i \in DOMAIN entity /\ i # nextId
    BY <2>2, <1>2, <1>4, <1>6 DEF Settled, HasRow, Keyed
  <2> QED BY <2>1, <2>2, <1>2
<1> QED BY <1>6, <1>8, <1>9 DEF Settled

LEMMA PushesSettle ==
    ASSUME Settled, RowsOk(db), RowsRefer(db), db' = db, NEW t \in Types,
           Add(t) \/ AddOver(t) \/ Attach(t) \/ AttachIncluded(t) \/ Update(t) \/ Upsert(t)
    PROVE  Settled'
<1>1. ASSUME NEW k \in DOMAIN db[t]
      PROVE  DOMAIN db[t][k] = Cols[t] /\ Refers(t, db[t][k], db)
  BY DEF RowsOk, TableOk, RowsRefer
<1>2. CASE Add(t)
  <2>1. PICK cols \in Columns(t),
             kids \in IF HasChildren(t) THEN {{}} \cup {{kid} : kid \in NewChild(t)} ELSE {{}} :
             Push(t, NoKey, cols, kids, "Added", NoSnapshot, FALSE)
    BY <1>2 DEF Add
  <2>2. \A kid \in kids : HasChildren(t) /\ KidGood(ChildType(t), kid, db)
    BY <2>1, NewChildIsGood
  <2>3. MayPush(t, NoKey, cols, kids, "Added", FALSE) BY <2>2, ColumnsRefer DEF MayPush
  <2> QED BY <2>1, <2>3, PushSettles
<1>3. CASE AddOver(t)
  <2>1. PICK cols \in Columns(t), k \in Untracked(ChildType(t)) :
             Push(t, NoKey, cols, {[pk |-> k, cols |-> db[ChildType(t)][k]]},
                  "Added", NoSnapshot, FALSE)
    BY <1>3 DEF AddOver
  <2>2. KidGood(ChildType(t), [pk |-> k, cols |-> db[ChildType(t)][k]], db) /\ HasChildren(t)
    BY <1>3, RowIsGood DEF Untracked, AddOver
  <2>3. MayPush(t, NoKey, cols, {[pk |-> k, cols |-> db[ChildType(t)][k]]}, "Added", FALSE)
    BY <2>2, ColumnsRefer DEF MayPush
  <2> QED BY <2>1, <2>3, PushSettles
<1>4. CASE Attach(t)
  <2>1. PICK k \in Untracked(t) : Push(t, k, db[t][k], {}, "Unchanged", db[t][k], FALSE)
    BY <1>4 DEF Attach
  <2>2. k \in DOMAIN db[t] /\ DOMAIN db[t][k] = Cols[t] /\ Refers(t, db[t][k], db)
    BY <1>1 DEF Untracked
  <2>3. MayPush(t, k, db[t][k], {}, "Unchanged", FALSE) BY <2>2 DEF MayPush
  <2> QED BY <2>1, <2>3, PushSettles
<1>5. CASE AttachIncluded(t)
  <2>1. PICK k \in Untracked(t) :
             Push(t, k, db[t][k], RowsUnder(t, k), "Unchanged", db[t][k], FALSE)
    BY <1>5 DEF AttachIncluded
  <2>2. HasChildren(t) BY <1>5 DEF AttachIncluded
  <2>3. \A kid \in RowsUnder(t, k) : KidGood(ChildType(t), kid, db)
    BY <2>2, RowIsGood DEF RowsUnder
  <2>4. k \in DOMAIN db[t] BY DEF Untracked
  <2>5. MayPush(t, k, db[t][k], RowsUnder(t, k), "Unchanged", FALSE)
    BY <1>1, <2>2, <2>3, <2>4 DEF MayPush
  <2> QED BY <2>1, <2>5, PushSettles
<1>6. CASE Update(t)
  <2>1. PICK k \in Untracked(t), cols \in Columns(t) :
             Push(t, k, cols, {}, "Modified", NoSnapshot, FALSE)
    BY <1>6 DEF Update
  <2>2. k \in DOMAIN db[t] BY DEF Untracked
  <2>3. MayPush(t, k, cols, {}, "Modified", FALSE) BY <2>2, ColumnsRefer DEF MayPush
  <2> QED BY <2>1, <2>3, PushSettles
<1>7. CASE Upsert(t)
  <2>1. PICK k \in UpsertKeys \ Held(t), cols \in Columns(t) :
             Push(t, k, cols, {}, "Added", NoSnapshot, TRUE)
    BY <1>7 DEF Upsert
  <2>2. k \in Nat \ {NoKey} BY RowsAssumption
  <2>3. MayPush(t, k, cols, {}, "Added", TRUE) BY <2>2, ColumnsRefer DEF MayPush
  <2> QED BY <2>1, <2>3, PushSettles
<1> QED BY <1>2, <1>3, <1>4, <1>5, <1>6, <1>7

\* The entities stay, and no state becomes one that needs a row.
LEMMA StatesSettle ==
    ASSUME Settled, UNCHANGED <<entity, nextId, db>>, EntriesOk(tracker'),
           \A i \in DOMAIN entity : i \in DOMAIN tracker' /\ tracker'[i].state = "Added" =>
               i \in DOMAIN tracker /\ tracker'[i] = tracker[i],
           \A i \in DOMAIN entity : i \in DOMAIN tracker' /\ tracker'[i].state # "Added" =>
               \/ i \in DOMAIN tracker /\ tracker[i].state # "Added"
               \/ "remove_added" \in Calls
    PROVE  Settled'
BY DEF Settled, HasRow, Keyed

LEMMA RemovesSettle ==
    ASSUME Settled, UNCHANGED <<entity, nextId, db>>, NEW ids,
           \A i \in ids : MayRemove(i), tracker' = SetState(tracker, ids, "Deleted")
    PROVE  Settled'
<1>1. ASSUME NEW i \in DOMAIN entity, i \in DOMAIN tracker', tracker'[i].state # "Added"
      PROVE  (i \in DOMAIN tracker /\ tracker[i].state # "Added") \/ "remove_added" \in Calls
  <2>1. i \in DOMAIN tracker BY <1>1 DEF SetState
  <2>2. CASE i \in ids
    <3>1. MayRemove(i) BY <2>2
    <3> QED BY <2>1, <3>1 DEF MayRemove, StateOf
  <2>3. CASE i \notin ids
    BY <1>1, <2>1, <2>3 DEF SetState
  <2> QED BY <2>2, <2>3
<1>2. EntriesOk(tracker) BY DEF Settled
<1>3. EntriesOk(tracker') BY <1>2, SetStateIsOk
<1>4. ASSUME NEW i \in DOMAIN tracker', tracker'[i].state = "Added"
      PROVE  i \in DOMAIN tracker /\ tracker'[i] = tracker[i]
  BY <1>2, <1>4 DEF SetState, EntriesOk, EntryOk
<1> QED BY <1>1, <1>3, <1>4, StatesSettle

LEMMA DetectKeepsAdded ==
    ASSUME NEW entries, EntriesOk(entries), NEW snapshots,
           NEW now, now = DetectChanges(entries, snapshots), NEW i \in DOMAIN entries,
           now[i].state = "Added"
    PROVE  now[i] = entries[i]
<1>1. EntryOk(entries[i]) BY DEF EntriesOk
<1>2. now[i] = entries[i] \/ (entries[i].state = "Unchanged" /\ \E s \in {"Unchanged", "Modified"} : \E m :
                                now[i] = [entries[i] EXCEPT !.state = s, !.mods = m])
  BY DEF DetectChanges
<1> QED BY <1>1, <1>2 DEF EntryOk

LEMMA RejectIsOk ==
    ASSUME NEW entries, EntriesOk(entries)
    PROVE  EntriesOk(RejectAllChanges(entries))
<1> DEFINE now == RejectAllChanges(entries)
<1>1. ASSUME NEW i \in DOMAIN now PROVE EntryOk(now[i])
  <2>1. i \in DOMAIN entries /\ EntryOk(entries[i]) BY DEF RejectAllChanges, EntriesOk
  <2>2. now[i] = entries[i] \/ now[i] = [entries[i] EXCEPT !.state = "Unchanged", !.mods = {}]
    BY DEF RejectAllChanges
  <2> HIDE DEF now
  <2> QED BY <2>1, <2>2 DEF EntryOk
<1> QED BY <1>1 DEF EntriesOk

LEMMA LoadSettles ==
    ASSUME Settled, RowsOk(db), RowsRefer(db), db' = db, NEW t \in Types, LoadAll(t)
    PROVE  Settled'
<1> DEFINE keys  == DOMAIN db[t]
           below(k) == {j \in keys : j < k}
           id(k) == nextId + Cardinality(below(k))
           new   == {id(k) : k \in keys}
           key(i) == CHOOSE k \in keys : id(k) = i
           rest  == Drop(entity, In(t))
           kept  == ClearByType(tracker, t)
<1>1. entity' = [i \in DOMAIN rest \cup new |->
                    IF i \in new
                    THEN [type |-> t, pk |-> key(i), cols |-> db[t][key(i)], kids |-> {}]
                    ELSE rest[i]]
  BY DEF LoadAll
<1>2. tracker' = [i \in DOMAIN kept \cup new |->
                    IF i \in new
                    THEN [type |-> t, state |-> "Unchanged", original |-> db[t][key(i)],
                          mods |-> {}, upsert |-> FALSE]
                    ELSE kept[i]]
  BY DEF LoadAll
<1>3. nextId' = nextId + Cardinality(keys) BY DEF LoadAll
<1>4. IsFiniteSet(keys) /\ keys \subseteq Nat BY DEF RowsOk, TableOk, KeysOk
<1>5. Cardinality(keys) \in Nat BY <1>4, FS_CardinalityType
<1>6. ASSUME NEW k \in keys PROVE id(k) \in Nat /\ id(k) < nextId'
  <2>1. below(k) \subseteq keys /\ k \notin below(k) BY <1>4
  <2>2. IsFiniteSet(below(k)) /\ Cardinality(below(k)) <= Cardinality(keys)
        /\ Cardinality(below(k)) # Cardinality(keys)
    <3> HIDE DEF below, keys
    <3> QED BY <1>4, <2>1, FS_Subset
  <2>3. Cardinality(below(k)) \in Nat BY <2>2, FS_CardinalityType
  <2> QED BY <1>3, <1>5, <2>2, <2>3 DEF Settled
<1>7. ASSUME NEW i \in new PROVE key(i) \in keys
  OBVIOUS
<1> HIDE DEF id, key, below
<1>8. \A i \in DOMAIN rest : i \in DOMAIN entity /\ rest[i] = entity[i] BY DEF Drop
<1>9. \A i \in DOMAIN kept : i \in DOMAIN tracker /\ kept[i] = tracker[i] BY DEF ClearByType, Drop
<1> HIDE DEF rest, kept
<1>10. nextId' \in Nat /\ nextId <= nextId' BY <1>3, <1>5 DEF Settled
<1>11. ASSUME NEW i \in DOMAIN entity'
       PROVE  /\ i \in Nat /\ i < nextId'
              /\ EntityGood(entity'[i], db) /\ Refers(entity'[i].type, entity'[i].cols, db)
              /\ ("remove_added" \notin Calls => HasRow(i)') /\ Keyed(i)'
  <2>1. CASE i \in new
    <3>1. i \in Nat /\ i < nextId' BY <2>1, <1>6
    <3>2. key(i) \in DOMAIN db[t] BY <2>1, <1>7
    <3>3. DOMAIN db[t][key(i)] = Cols[t] /\ Refers(t, db[t][key(i)], db)
      BY <3>2 DEF RowsOk, TableOk, RowsRefer
    <3>4. entity'[i] = [type |-> t, pk |-> key(i), cols |-> db[t][key(i)], kids |-> {}]
      BY <2>1, <1>1
    <3>5. i \in DOMAIN tracker' /\ tracker'[i].state = "Unchanged" BY <2>1, <1>2
    <3> QED BY <3>1, <3>2, <3>3, <3>4, <3>5 DEF EntityGood, HasRow, Keyed
  <2>2. CASE i \notin new
    <3>1. i \in DOMAIN rest BY <2>2, <1>1
    <3>2. entity'[i] = entity[i] /\ i \in DOMAIN entity BY <2>2, <3>1, <1>1, <1>8
    <3>3. i \in DOMAIN tracker' => i \in DOMAIN tracker /\ tracker'[i] = tracker[i]
      BY <2>2, <1>2, <1>9
    <3>4. i \in Nat /\ i < nextId' BY <3>2, <1>10 DEF Settled
    <3> QED BY <3>2, <3>3, <3>4 DEF Settled, HasRow, Keyed
  <2> QED BY <2>1, <2>2
<1>12. EntriesOk(tracker')
  <2>1. ASSUME NEW i \in DOMAIN tracker' PROVE EntryOk(tracker'[i])
    <3>1. CASE i \in new BY <3>1, <1>2 DEF EntryOk
    <3>2. CASE i \notin new BY <3>2, <1>2, <1>9 DEF Settled, EntriesOk
    <3> QED BY <3>1, <3>2
  <2> QED BY <2>1 DEF EntriesOk
<1> QED BY <1>10, <1>11, <1>12 DEF Settled

LEMMA EditSettles ==
    ASSUME Settled, db' = db, NEW i \in DOMAIN entity, Edit(i)
    PROVE  Settled'
<1>0. PICK c \in Cols[entity[i].type] : \E v \in ColValues(entity[i].type, c) :
           entity' = [entity EXCEPT ![i].cols[c] = v]
  BY DEF Edit
<1>1. PICK v \in ColValues(entity[i].type, c) : entity' = [entity EXCEPT ![i].cols[c] = v]
  BY <1>0
<1>2. nextId' = nextId /\ tracker' = tracker BY DEF Edit
<1> DEFINE e == entity[i]
           cols == [e.cols EXCEPT ![c] = v]
<1>3. EntityGood(e, db) /\ Refers(e.type, e.cols, db) BY DEF Settled
<1>4. DOMAIN cols = Cols[e.type] /\ Refers(e.type, cols, db)
  BY <1>3, EditRefers DEF EntityGood
<1>5. entity'[i] = [type |-> e.type, pk |-> e.pk, cols |-> cols, kids |-> e.kids]
  BY <1>1, <1>3 DEF EntityGood
<1> HIDE DEF cols
<1>6. EntityGood(entity'[i], db) /\ Refers(entity'[i].type, entity'[i].cols, db)
  BY <1>3, <1>4, <1>5 DEF EntityGood
<1>7. /\ DOMAIN entity' = DOMAIN entity
      /\ \A j \in DOMAIN entity : j # i => entity'[j] = entity[j]
  BY <1>1
<1>8. entity'[i].type = e.type /\ entity'[i].pk = e.pk BY <1>5
<1>9. ASSUME NEW j \in DOMAIN entity'
      PROVE  /\ j \in Nat /\ j < nextId'
             /\ EntityGood(entity'[j], db) /\ Refers(entity'[j].type, entity'[j].cols, db)
             /\ ("remove_added" \notin Calls => HasRow(j)') /\ Keyed(j)'
  BY <1>2, <1>6, <1>7, <1>8 DEF Settled, HasRow, Keyed
<1> QED BY <1>2, <1>9 DEF Settled

LEMMA OthersSettle ==
    ASSUME Settled, db' = db,
           \/ \E t \in Types : RemoveAll(t) \/ Retain(t)
           \/ \E i \in DOMAIN entity : RemoveAt(i) \/ DetachEntry(i)
           \/ RejectAll \/ DetectNow
    PROVE  Settled'
<1>0. EntriesOk(tracker) BY DEF Settled
<1>1. ASSUME NEW t \in Types, RemoveAll(t) PROVE Settled'
  BY <1>1, RemovesSettle DEF RemoveAll
<1>2. ASSUME NEW t \in Types, Retain(t) PROVE Settled'
  <2>1. PICK gone : entity' = Drop(entity, gone) BY <1>2 DEF Retain
  <2>2. tracker' = tracker /\ nextId' = nextId BY <1>2 DEF Retain
  <2>3. \A i \in DOMAIN entity' : i \in DOMAIN entity /\ entity'[i] = entity[i]
    BY <2>1 DEF Drop
  <2> QED BY <2>2, <2>3 DEF Settled, HasRow, Keyed
<1>3. ASSUME NEW i \in DOMAIN entity, RemoveAt(i) PROVE Settled'
  BY <1>3, RemovesSettle DEF RemoveAt
<1>4. ASSUME NEW i \in DOMAIN entity, DetachEntry(i) PROVE Settled'
  <2>1. EntriesOk(tracker') BY <1>0, <1>4, DropIsOk DEF DetachEntry, Detach
  <2> QED BY <2>1, <1>4, StatesSettle DEF DetachEntry, Detach, Drop
<1>5. CASE RejectAll
  <2>1. EntriesOk(tracker') BY <1>0, <1>5, RejectIsOk DEF RejectAll
  <2>2. ASSUME NEW i \in DOMAIN tracker'
        PROVE  i \in DOMAIN tracker /\ tracker[i].state # "Added" /\ tracker'[i].state # "Added"
    <3>1. i \in DOMAIN tracker /\ tracker[i].state # "Added" /\ EntryOk(tracker[i])
      BY <1>0, <1>5 DEF RejectAll, RejectAllChanges, EntriesOk
    <3>2. tracker'[i] = tracker[i] \/ tracker'[i] = [tracker[i] EXCEPT !.state = "Unchanged", !.mods = {}]
      BY <1>5 DEF RejectAll, RejectAllChanges
    <3> QED BY <3>1, <3>2 DEF EntryOk
  <2> QED BY <2>1, <2>2, <1>5, StatesSettle DEF RejectAll
<1>6. CASE DetectNow
  <2>1. ASSUME NEW i \in DOMAIN tracker
        PROVE  i \in DOMAIN tracker' /\ (tracker'[i].state # "Added" => tracker[i].state # "Added")
    BY <1>6 DEF DetectNow, DetectChanges
  <2>2. DOMAIN tracker' = DOMAIN tracker /\ EntriesOk(tracker')
    BY <1>0, <1>6, DetectIsOk DEF DetectNow
  <2>3. ASSUME NEW i \in DOMAIN tracker, tracker'[i].state = "Added"
        PROVE  tracker'[i] = tracker[i]
    BY <1>6, <2>3, <1>0, DetectKeepsAdded DEF DetectNow
  <2> QED BY <1>6, <2>1, <2>2, <2>3, StatesSettle DEF DetectNow
<1> QED BY <1>1, <1>2, <1>3, <1>4, <1>5, <1>6

LEMMA RefOfCalls ==
    ASSUME RefSafe, RefInv, CallStep
    PROVE  RefInv'
<1>1. ASSUME \E name : Call(name), Settled => Settled' PROVE RefInv'
  <2>1. pc = "idle" /\ result = "none" BY <1>1 DEF Call, Allowed, RefSafe, RefInv, Frame
  <2>2. Settled' BY <1>1, <2>1, IdleIsSettled
  <2>3. pc' = "idle" /\ result' = "none" /\ UNCHANGED <<db, links, directives, processed, policy, others>>
    BY <1>1, <2>1 DEF Call, dbvars, savevars
  <2> QED BY <2>1, <2>2, <2>3, SettledIsKept
<1>2. RowsOk(db) /\ RowsRefer(db) BY DEF RefInv, TablesRefer
<1>3. ASSUME NEW t \in Types,
             Add(t) \/ AddOver(t) \/ Attach(t) \/ AttachIncluded(t) \/ Update(t) \/ Upsert(t)
      PROVE  RefInv'
  <2>1. \E name : Call(name)
    BY <1>3 DEF Add, AddOver, Attach, AttachIncluded, Update, Upsert
  <2>2. db' = db BY <2>1 DEF Call, dbvars
  <2> QED BY <1>1, <1>2, <1>3, <2>1, <2>2, PushesSettle
<1>4. ASSUME NEW t \in Types, LoadAll(t) PROVE RefInv'
  <2>1. \E name : Call(name) BY <1>4 DEF LoadAll
  <2>2. db' = db BY <2>1 DEF Call, dbvars
  <2> QED BY <1>1, <1>2, <1>4, <2>1, <2>2, LoadSettles
<1>5. ASSUME \/ \E t \in Types : RemoveAll(t) \/ Retain(t)
             \/ \E i \in DOMAIN entity : RemoveAt(i) \/ DetachEntry(i)
             \/ RejectAll \/ DetectNow
      PROVE  RefInv'
  <2>1. \E name : Call(name)
    BY <1>5 DEF RemoveAll, Retain, RemoveAt, DetachEntry, RejectAll, DetectNow
  <2>2. db' = db BY <2>1 DEF Call, dbvars
  <2> QED BY <1>1, <1>5, <2>1, <2>2, OthersSettle
<1>6. ASSUME NEW i \in DOMAIN entity, Edit(i) PROVE RefInv'
  <2>1. \E name : Call(name) BY <1>6 DEF Edit
  <2>2. db' = db BY <2>1 DEF Call, dbvars
  <2> QED BY <1>1, <1>6, <2>1, <2>2, EditSettles
<1>7. CASE ClearTracking
  <2>1. pc = "idle" /\ pc' = "idle" /\ result' = "none"
        /\ UNCHANGED <<db, links, directives, processed, policy, others>>
    BY <1>7 DEF ClearTracking, dbvars, savevars
  <2>2. DOMAIN entity' = {} /\ nextId' \in Nat BY <1>7 DEF ClearTracking, RefInv, Frame
  <2>3. EntriesOk(tracker') BY <1>7 DEF ClearTracking, EmptyTracker, EntriesOk
  <2>4. Settled' BY <2>2, <2>3 DEF Settled
  <2> QED BY <2>1, <2>4, SettledIsKept
<1> QED BY <1>3, <1>4, <1>5, <1>6, <1>7 DEF CallStep

(***************************************************************************)
(* The beginning and the end of a save.                                    *)
(***************************************************************************)
\* Once it is decided what became of a save, only the rows matter.
LEMMA ClosedIsKept ==
    ASSUME RefInv, RowsOk(db)', RowsRefer(db)', UNCHANGED <<nextId, policy, others>>,
           DOMAIN entity' \subseteq DOMAIN entity,
           \/ pc' = "accept" /\ result' = "none" /\ directives' = directives
           \/ /\ pc' = "idle" /\ result' \in {"ok", "failed"}
              /\ links' = {} /\ directives' = {} /\ processed' = {}
    PROVE  RefInv'
<1>1. ~Open' BY DEF Open
<1>2. Frame' BY DEF RefInv, Frame
<1>3. EntitiesRefer' /\ EntitiesAreStored' /\ LinksJoin' /\ UpsertsAreKeyed'
  BY <1>1 DEF EntitiesRefer, EntitiesAreStored, LinksJoin, UpsertsAreKeyed
<1>4. LinksAreSet' /\ InOrder' BY DEF LinksAreSet, InOrder
<1>5. DirectivesAreMade'
  BY DEF RefInv, DirectivesAreMade, DirectiveOk, Saving, Drains, Writes, OnDelete
<1>6. TablesRefer' /\ RowsStay' BY DEF TablesRefer, RowsStay, Saving, Drains, Writes
<1> QED BY <1>2, <1>3, <1>4, <1>5, <1>6 DEF RefInv

LEMMA FailSaveKeeps ==
    ASSUME RefInv, FailSave
    PROVE  RefInv'
<1>1. RowsOk(db)' /\ RowsRefer(db)'
  BY DEF FailSave, RefInv, TablesRefer, RowsOk, RowsRefer, Refers
<1> QED BY <1>1, ClosedIsKept DEF FailSave, SaveIdle

LEMMA RefOfBegin ==
    ASSUME RefSafe, RefInv, SaveBegin
    PROVE  RefInv'
<1>1. pc = "idle" /\ result = "none" /\ links = {} /\ directives = {} /\ processed = {}
  BY DEF SaveBegin, RefSafe, RefInv, Frame
<1>2. UNCHANGED <<entity, nextId, db, others, policy>> BY DEF SaveBegin
<1>3. RowsOk(db)' /\ RowsRefer(db)'
  BY <1>2 DEF RefInv, TablesRefer, RowsOk, RowsRefer, Refers
<1>4. CASE pc' = "drain_adds" /\ work' = db /\ result' = "none"
           /\ UNCHANGED <<links, directives, processed>>
  <2>1. Settled BY <1>1, IdleIsSettled
  <2>2. ASSUME NEW i \in DOMAIN tracker
        PROVE  tracker'[i].state # "Added" => tracker[i].state # "Added"
    BY DEF SaveBegin, DetectChanges
  <2>3. DOMAIN tracker' = DOMAIN tracker /\ EntriesOk(tracker')
    BY <2>1, DetectIsOk DEF SaveBegin, Settled
  <2>10. ASSUME NEW i \in DOMAIN tracker, tracker'[i].state = "Added"
         PROVE  tracker'[i] = tracker[i]
    BY <2>1, <2>10, DetectKeepsAdded DEF SaveBegin, Settled
  <2>11. UpsertsAreKeyed'
    BY <1>2, <2>1, <2>3, <2>10 DEF Settled, UpsertsAreKeyed, Keyed
  <2>4. Frame' BY <1>1, <1>2, <1>4 DEF RefInv, Frame, Saving, Drains
  <2>5. EntitiesRefer' /\ LinksJoin'
    BY <1>1, <1>2, <1>4, <2>1 DEF Settled, EntitiesRefer, LinksJoin
  <2>6. EntitiesAreStored' BY <1>2, <2>1, <2>2, <2>3 DEF Settled, EntitiesAreStored, HasRow
  <2>7. LinksAreSet' /\ InOrder' BY <1>4 DEF LinksAreSet, InOrder
  <2>8. DirectivesAreMade' BY <1>1, <1>4 DEF DirectivesAreMade, Drains
  <2>9. TablesRefer' /\ RowsStay'
    BY <1>2, <1>3, <1>4 DEF TablesRefer, RowsStay, Drains, RowsOk, RowsRefer, Refers
  <2> QED BY <2>4, <2>5, <2>6, <2>7, <2>8, <2>9, <2>11 DEF RefInv
<1>5. CASE SaveIdle /\ result' \in {"ok", "failed"}
  BY <1>2, <1>3, <1>5, ClosedIsKept DEF SaveIdle
<1> QED BY <1>4, <1>5 DEF SaveBegin

LEMMA RefOfCommit ==
    ASSUME RefInv, Commit \/ Accept
    PROVE  RefInv'
<1>1. CASE Commit
  <2>1. RowsOk(work) /\ RowsRefer(work)
    BY <1>1 DEF Commit, RefInv, TablesRefer, Saving
  <2>2. RowsOk(db)' /\ RowsRefer(db)' BY <1>1, <2>1 DEF Commit, RowsOk, RowsRefer, Refers
  <2>3. pc' = "accept" /\ result' = "none" BY <1>1 DEF Commit, RefInv, Frame
  <2> QED BY <1>1, <2>2, <2>3, ClosedIsKept DEF Commit
<1>2. CASE Accept
  <2>1. RowsOk(db)' /\ RowsRefer(db)'
    BY <1>2 DEF Accept, RefInv, TablesRefer, RowsOk, RowsRefer, Refers
  <2>2. DOMAIN entity' \subseteq DOMAIN entity BY <1>2 DEF Accept, AcceptSet, Drop
  <2>3. pc = "accept" /\ result = "none" BY <1>2 DEF Accept, RefInv, Frame
  <2>4. \/ pc' = "accept" /\ result' = "none" /\ directives' = directives
        \/ /\ pc' = "idle" /\ result' \in {"ok", "failed"}
           /\ links' = {} /\ directives' = {} /\ processed' = {}
    BY <1>2, <2>3 DEF Accept, SaveReturns
  <2> QED BY <1>2, <2>1, <2>2, <2>4, ClosedIsKept DEF Accept
<1> QED BY <1>1, <1>2

(***************************************************************************)
(* Children are drained.                                                   *)
(***************************************************************************)
\* A kid of i becomes the entity nextId, with state and link as given.
Taken(i, kid, state) ==
    LET t == ChildType(entity[i].type) IN
    /\ state = "Added" \/ kid.pk # NoKey
    /\ nextId' = nextId + 1
    /\ \E original : tracker' = Track(tracker, nextId, t, state, original, FALSE)
    /\ entity' = Put([entity EXCEPT ![i].kids = @ \ {kid}], nextId,
                     [type |-> t, pk |-> kid.pk, cols |-> kid.cols, kids |-> {}])

\* Entity j stays as it is, but for a kid that is taken out.
Alike(j) ==
    /\ j \in DOMAIN entity' /\ j # nextId
    /\ entity'[j].type = entity[j].type /\ entity'[j].pk = entity[j].pk
    /\ entity'[j].cols = entity[j].cols
    /\ EntityGood(entity[j], db) => EntityGood(entity'[j], db)
    /\ j \in DOMAIN tracker' <=> j \in DOMAIN tracker
    /\ j \in DOMAIN tracker => tracker'[j] = tracker[j]

\* The entries of the tracker stay well-formed.
NewEntry == EntriesOk(tracker) => EntriesOk(tracker')

LEMMA KidTaken ==
    ASSUME NEW e, EntityGood(e, db), NEW kid,
           NEW new, new = [e EXCEPT !.kids = @ \ {kid}]
    PROVE  /\ EntityGood(new, db) /\ new.type = e.type /\ new.pk = e.pk /\ new.cols = e.cols
BY DEF EntityGood

\* What the new entity, the child of i, is like, and the others.
TakenOk(i, state) ==
    /\ DOMAIN entity' = DOMAIN entity \cup {nextId}
    /\ \A j \in DOMAIN entity : Alike(j)
    /\ HasChildren(entity[i].type) /\ EntityGood(entity'[nextId], db)
    /\ entity'[nextId].type = ChildType(entity[i].type)
    /\ state # "Added" => /\ Refers(entity'[nextId].type, entity'[nextId].cols, db)
                          /\ entity'[nextId].pk \in DOMAIN db[entity'[nextId].type]
    /\ nextId \in DOMAIN tracker' /\ tracker'[nextId].state = state
    /\ tracker'[nextId].upsert = FALSE /\ NewEntry
    /\ nextId \in Nat /\ \A j \in DOMAIN entity' : j \in Nat /\ j < nextId'

LEMMA TakenIsGood ==
    ASSUME RefInv, Open, NEW i \in DOMAIN entity, NEW kid \in entity[i].kids, NEW state,
           Taken(i, kid, state)
    PROVE  TakenOk(i, state)
<1> DEFINE t == ChildType(entity[i].type)
           new == [type |-> t, pk |-> kid.pk, cols |-> kid.cols, kids |-> {}]
<1>1. nextId \in Nat /\ \A j \in DOMAIN entity : j \in Nat /\ j < nextId
  BY DEF RefInv, Frame
<1>2. \A j \in DOMAIN entity : EntityGood(entity[j], db) BY DEF RefInv, EntitiesRefer
<1>3. entity[i].type \in Types /\ HasChildren(entity[i].type) /\ KidGood(t, kid, db)
  BY <1>2 DEF EntityGood
<1>4. t \in Types BY <1>3, ChildTypeIs
<1>5. EntityGood(new, db) BY <1>3, <1>4 DEF EntityGood, KidGood
<1>6. kid.pk # NoKey => Refers(t, kid.cols, db) /\ kid.pk \in DOMAIN db[t]
  BY <1>3 DEF KidGood
<1> HIDE DEF t
<1>7. /\ DOMAIN entity' = DOMAIN entity \cup {nextId} /\ entity'[nextId] = new
      /\ \A j \in DOMAIN entity : j # nextId /\ (j # i => entity'[j] = entity[j])
      /\ entity'[i] = [entity[i] EXCEPT !.kids = @ \ {kid}]
  BY <1>1 DEF Taken, Put, t
<1>8. \A j \in DOMAIN entity : /\ j \in DOMAIN tracker' <=> j \in DOMAIN tracker
                               /\ j \in DOMAIN tracker => tracker'[j] = tracker[j]
  BY <1>7 DEF Taken, Track, Put
<1>9. /\ nextId \in DOMAIN tracker' /\ tracker'[nextId].state = state
      /\ tracker'[nextId].upsert = FALSE
  BY DEF Taken, Track, Put
<1>13. NewEntry
  <2>1. PICK original : tracker' = Track(tracker, nextId, t, state, original, FALSE)
    BY DEF Taken, t
  <2> QED BY <1>4, <2>1, TrackIsOk DEF NewEntry
<1>10. \A j \in DOMAIN entity : Alike(j)
  <2>1. Alike(i) BY <1>2, <1>7, <1>8, KidTaken DEF Alike
  <2>2. ASSUME NEW j \in DOMAIN entity, j # i PROVE Alike(j)
    BY <2>2, <1>7, <1>8 DEF Alike
  <2> QED BY <2>1, <2>2
<1>11. nextId' = nextId + 1 BY DEF Taken
<1> HIDE DEF new
<1>12. new.type = t /\ new.pk = kid.pk /\ new.cols = kid.cols BY DEF new
<1>14. entity'[nextId].pk = kid.pk /\ entity'[nextId].cols = kid.cols
      /\ entity'[nextId].type = t
  BY <1>7, <1>12
<1>15. state # "Added" => /\ Refers(entity'[nextId].type, entity'[nextId].cols, db)
                          /\ entity'[nextId].pk \in DOMAIN db[entity'[nextId].type]
  BY <1>6, <1>14 DEF Taken
<1>16. EntityGood(entity'[nextId], db) BY <1>5, <1>7
<1>17. \A j \in DOMAIN entity' : j \in Nat /\ j < nextId' BY <1>1, <1>7, <1>11
<1>18. t = ChildType(entity[i].type) BY DEF t
<1> QED BY <1>1, <1>3, <1>7, <1>9, <1>10, <1>13, <1>14, <1>15, <1>16, <1>17, <1>18 DEF TakenOk

LEMMA RefOfDrainAdds ==
    ASSUME RefInv, DrainAdds
    PROVE  RefInv'
<1>1. PICK i \in DOMAIN entity : \E kid \in entity[i].kids :
         LET t == ChildType(entity[i].type) IN
         /\ HoldsChildren(i)
         /\ nextId' = nextId + 1
         /\ tracker' = IF kid.pk > 0
                       THEN Track(tracker, nextId, t, "Unchanged", kid.cols, FALSE)
                       ELSE Track(tracker, nextId, t, "Added", NoSnapshot, FALSE)
         /\ entity' = Put([entity EXCEPT ![i].kids = @ \ {kid}], nextId,
                          [type |-> t, pk |-> kid.pk, cols |-> kid.cols, kids |-> {}])
         /\ links' = links \cup {[parent |-> i, child |-> nextId]}
  BY DEF DrainAdds
<1>2. PICK kid \in entity[i].kids :
         LET t == ChildType(entity[i].type) IN
         /\ HoldsChildren(i)
         /\ nextId' = nextId + 1
         /\ tracker' = IF kid.pk > 0
                       THEN Track(tracker, nextId, t, "Unchanged", kid.cols, FALSE)
                       ELSE Track(tracker, nextId, t, "Added", NoSnapshot, FALSE)
         /\ entity' = Put([entity EXCEPT ![i].kids = @ \ {kid}], nextId,
                          [type |-> t, pk |-> kid.pk, cols |-> kid.cols, kids |-> {}])
         /\ links' = links \cup {[parent |-> i, child |-> nextId]}
  BY <1>1
<1>3. PICK state : Taken(i, kid, state)
  <2>1. CASE kid.pk > 0
    <3>2. kid.pk # NoKey BY <2>1 DEF NoKey
    <3>1. Taken(i, kid, "Unchanged") BY <1>2, <2>1, <3>2 DEF Taken
    <3> QED BY <3>1
  <2>2. CASE ~(kid.pk > 0)
    <3>1. Taken(i, kid, "Added") BY <1>2, <2>2 DEF Taken
    <3> QED BY <3>1
  <2> QED BY <2>1, <2>2
<1>4. pc = "drain_adds" /\ result = "none" /\ Open BY DEF DrainAdds, RefInv, Frame, Open
<1>5. UNCHANGED <<db, work, pc, todo, directives, processed, result, others, policy>>
  BY DEF DrainAdds, dbvars
<1>16. TakenOk(i, state) BY <1>3, <1>4, TakenIsGood
<1>6. /\ DOMAIN entity' = DOMAIN entity \cup {nextId}
      /\ \A j \in DOMAIN entity : Alike(j)
      /\ HasChildren(entity[i].type) /\ EntityGood(entity'[nextId], db)
      /\ entity'[nextId].type = ChildType(entity[i].type)
      /\ state # "Added" => entity'[nextId].pk \in DOMAIN db[entity'[nextId].type]
      /\ nextId \in DOMAIN tracker' /\ tracker'[nextId].state = state
      /\ tracker'[nextId].upsert = FALSE /\ NewEntry
      /\ nextId \in Nat /\ \A j \in DOMAIN entity' : j \in Nat /\ j < nextId'
  BY <1>16 DEF TakenOk
<1>7. PICK l0 : links' = links \cup {l0} /\ l0.parent = i /\ l0.child = nextId
  <2> DEFINE l == [parent |-> i, child |-> nextId]
  <2>1. links' = links \cup {l} /\ l.parent = i /\ l.child = nextId BY <1>2
  <2> HIDE DEF l
  <2> QED BY <2>1
<1>8. Frame' BY <1>2, <1>4, <1>5, <1>6 DEF RefInv, Frame, Saving, Drains
<1>9. EntitiesRefer'
  <2>1. ASSUME NEW j \in DOMAIN entity
        PROVE  EntityGood(entity'[j], db) /\ (IsChild(j)' \/ Refers(entity'[j].type, entity'[j].cols, db))
    <3>1. EntityGood(entity[j], db) /\ (IsChild(j) \/ Refers(entity[j].type, entity[j].cols, db))
      BY <1>4 DEF RefInv, EntitiesRefer
    <3>2. IsChild(j) => IsChild(j)' BY <1>7 DEF IsChild
    <3> QED BY <3>1, <3>2, <1>6 DEF Alike
  <2>2. PICK n : n = nextId OBVIOUS
  <2>3. IsChild(n)' BY <1>7, <2>2 DEF IsChild
  <2>4. ASSUME NEW j \in DOMAIN entity'
        PROVE  EntityGood(entity'[j], db) /\ (IsChild(j)' \/ Refers(entity'[j].type, entity'[j].cols, db))
    <3>1. CASE j = n BY <3>1, <2>2, <2>3, <1>6
    <3>2. CASE j \in DOMAIN entity BY <3>2, <2>1
    <3> QED BY <3>1, <3>2, <2>2, <1>6
  <2>5. db' = db BY <1>5
  <2> QED BY <2>4, <2>5 DEF EntitiesRefer, IsChild
<1>10. LinksJoin'
  <2>1. ASSUME NEW j \in DOMAIN entity, NEW t, j \in ToInsert(t) PROVE j \in ToInsert(t)'
    BY <2>1, <1>6 DEF ToInsert, In, StateOf, IsUpsert, Alike
  <2>2. ASSUME NEW l \in links
        PROVE  /\ l.parent \in DOMAIN entity' /\ l.child \in DOMAIN entity'
               /\ <<ParentType(l)', entity'[l.child].type>> \in HasMany
               /\ l.parent \in ToInsert(ParentType(l))'
    <3>1. /\ l.parent \in DOMAIN entity /\ l.child \in DOMAIN entity
          /\ <<ParentType(l), entity[l.child].type>> \in HasMany
          /\ l.parent \in ToInsert(ParentType(l))
      BY <1>4 DEF RefInv, LinksJoin
    <3>2. ParentType(l)' = ParentType(l) /\ entity'[l.child].type = entity[l.child].type
      BY <3>1, <1>6 DEF ParentType, Alike
    <3> QED BY <3>1, <3>2, <2>1, <1>6
  <2>3. /\ l0.parent \in DOMAIN entity' /\ l0.child \in DOMAIN entity'
        /\ <<ParentType(l0)', entity'[l0.child].type>> \in HasMany
        /\ l0.parent \in ToInsert(ParentType(l0))'
    <3>1. ParentType(l0)' = entity[i].type BY <1>6, <1>7 DEF ParentType, Alike
    <3>2. entity[i].type \in Types BY <1>4 DEF RefInv, EntitiesRefer, EntityGood
    <3>3. <<entity[i].type, ChildType(entity[i].type)>> \in HasMany BY <3>2, <1>6, ChildTypeIs
    <3>4. i \in ToInsert(entity[i].type)
      BY <1>2 DEF HoldsChildren, ToInsert, In
    <3> QED BY <3>1, <3>3, <3>4, <2>1, <1>6, <1>7
  <2> QED BY <2>2, <2>3, <1>7 DEF LinksJoin
<1>11. EntitiesAreStored'
  <2>1. "remove_added" \notin Calls => \A j \in DOMAIN entity : HasRow(j)
    BY <1>4 DEF RefInv, EntitiesAreStored
  <2> QED BY <2>1, <1>5, <1>6 DEF EntitiesAreStored, HasRow, Alike
<1>15. UpsertsAreKeyed'
  <2>1. EntriesOk(tracker) /\ \A j \in DOMAIN entity : Keyed(j)
    BY <1>4 DEF RefInv, UpsertsAreKeyed
  <2> QED BY <2>1, <1>6 DEF UpsertsAreKeyed, Keyed, Alike, NewEntry
<1>12. LinksAreSet' /\ InOrder' BY <1>4, <1>5 DEF LinksAreSet, InOrder
<1>13. DirectivesAreMade'
  <2>1. \A d \in directives : DirectiveOk(d)
    BY DEF RefInv, DirectivesAreMade
  <2>2. processed = {} BY <1>4 DEF RefInv, DirectivesAreMade
  <2> QED BY <2>1, <2>2, <1>4, <1>5 DEF DirectivesAreMade, DirectiveOk, OnDelete, Drains
<1>14. TablesRefer' /\ RowsStay'
  BY <1>4, <1>5 DEF RefInv, TablesRefer, RowsStay, Drains, RowsOk, RowsRefer, Refers, Saving
<1> QED BY <1>8, <1>9, <1>10, <1>11, <1>12, <1>13, <1>14, <1>15 DEF RefInv

\* Kids are taken out of an entity, and at most one becomes a Deleted entity.
LEMMA RefOfTaking ==
    ASSUME RefInv, pc = "drain_deletes",
           UNCHANGED <<db, work, pc, todo, links, directives, processed, result, others, policy>>,
           nextId' \in Nat, \A j \in DOMAIN entity' : j \in Nat /\ j < nextId',
           DOMAIN entity \subseteq DOMAIN entity', \A j \in DOMAIN entity : Alike(j),
           \A j \in DOMAIN entity' \ DOMAIN entity :
              /\ EntityGood(entity'[j], db) /\ Refers(entity'[j].type, entity'[j].cols, db)
              /\ entity'[j].pk \in DOMAIN db[entity'[j].type] /\ Keyed(j)',
           NewEntry
    PROVE  RefInv'
<1>1. result = "none" /\ Open BY DEF RefInv, Frame, Open
<1>2. Frame' BY DEF RefInv, Frame
<1>3. EntitiesRefer'
  <2>1. ASSUME NEW j \in DOMAIN entity
        PROVE  EntityGood(entity'[j], db) /\ (IsChild(j)' \/ Refers(entity'[j].type, entity'[j].cols, db))
    <3>1. EntityGood(entity[j], db) /\ (IsChild(j) \/ Refers(entity[j].type, entity[j].cols, db))
      BY <1>1 DEF RefInv, EntitiesRefer
    <3> QED BY <3>1 DEF Alike, IsChild
  <2> QED BY <2>1 DEF EntitiesRefer
<1>4. LinksJoin'
  <2>1. ASSUME NEW j \in DOMAIN entity, NEW t, j \in ToInsert(t) PROVE j \in ToInsert(t)'
    BY <2>1 DEF ToInsert, In, StateOf, IsUpsert, Alike
  <2>2. ASSUME NEW l \in links
        PROVE  /\ l.parent \in DOMAIN entity' /\ l.child \in DOMAIN entity'
               /\ <<ParentType(l)', entity'[l.child].type>> \in HasMany
               /\ l.parent \in ToInsert(ParentType(l))'
    <3>1. /\ l.parent \in DOMAIN entity /\ l.child \in DOMAIN entity
          /\ <<ParentType(l), entity[l.child].type>> \in HasMany
          /\ l.parent \in ToInsert(ParentType(l))
      BY <1>1 DEF RefInv, LinksJoin
    <3>2. ParentType(l)' = ParentType(l) /\ entity'[l.child].type = entity[l.child].type
      BY <3>1 DEF ParentType, Alike
    <3> QED BY <3>1, <3>2, <2>1
  <2> QED BY <2>2 DEF LinksJoin
<1>5. EntitiesAreStored'
  <2>1. "remove_added" \notin Calls => \A j \in DOMAIN entity : HasRow(j)
    BY <1>1 DEF RefInv, EntitiesAreStored
  <2> QED BY <2>1 DEF EntitiesAreStored, HasRow, Alike
<1>9. UpsertsAreKeyed'
  <2>1. EntriesOk(tracker) /\ \A j \in DOMAIN entity : Keyed(j)
    BY <1>1 DEF RefInv, UpsertsAreKeyed
  <2>2. \A j \in DOMAIN entity : Keyed(j)' BY <2>1 DEF Keyed, Alike
  <2> QED BY <2>1, <2>2 DEF UpsertsAreKeyed, NewEntry
<1>6. LinksAreSet' /\ InOrder' BY DEF LinksAreSet, InOrder
<1>7. DirectivesAreMade'
  <2>1. /\ \A d \in directives : DirectiveOk(d)
        /\ processed \subseteq DOMAIN entity
        /\ \A j \in DOMAIN entity : StateOf(j) = "Deleted" =>
              j \notin processed \/ DirectiveOf(j) \subseteq directives
    BY DEF RefInv, DirectivesAreMade, Saving, Drains
  <2>2. ASSUME NEW j \in DOMAIN entity', StateOf(j)' = "Deleted"
        PROVE  j \notin processed \/ DirectiveOf(j)' \subseteq directives
    <3>1. CASE j \in DOMAIN entity
      <4>1. StateOf(j) = "Deleted" BY <2>2, <3>1 DEF Alike, StateOf
      <4>2. DirectiveOf(j)' = DirectiveOf(j) BY <3>1 DEF Alike, DirectiveOf, OnDelete
      <4> QED BY <2>1, <3>1, <4>1, <4>2
    <3> QED BY <2>1, <3>1
  <2> QED BY <2>1, <2>2 DEF DirectivesAreMade, DirectiveOk, OnDelete, Drains
<1>8. TablesRefer' /\ RowsStay'
  BY DEF RefInv, TablesRefer, RowsStay, Drains, RowsOk, RowsRefer, Refers, Saving
<1> QED BY <1>2, <1>3, <1>4, <1>5, <1>6, <1>7, <1>8, <1>9 DEF RefInv

LEMMA DirectiveIs ==
    ASSUME NEW i \in DOMAIN entity, entity[i].type \in Types, NEW d \in DirectiveOf(i)
    PROVE  DirectiveOk(d)
<1>1. HasChildren(entity[i].type) /\ entity[i].pk > 0 BY DEF DirectiveOf
<1>2. d = [type |-> ChildType(entity[i].type), key |-> entity[i].pk, action |-> OnDelete]
  BY DEF DirectiveOf
<1>3. entity[i].pk # Null BY <1>1 DEF Null
<1> QED BY <1>1, <1>2, <1>3, ChildTypeIs DEF DirectiveOk

LEMMA RefOfProcessed ==
    ASSUME RefInv, pc = "drain_deletes", NEW i \in DOMAIN entity,
           UNCHANGED <<tracker, entity, nextId, db, work, pc, todo, links, result, others, policy>>,
           processed' = processed \cup {i}, directives' = directives \cup DirectiveOf(i)
    PROVE  RefInv'
<1>1. result = "none" /\ Open BY DEF RefInv, Frame, Open
<1>2. Frame' BY DEF RefInv, Frame
<1>3. EntitiesRefer' BY DEF RefInv, EntitiesRefer, IsChild, Open
<1>4. LinksJoin'
  BY DEF RefInv, LinksJoin, ParentType, ToInsert, In, StateOf, IsUpsert, Open
<1>5. EntitiesAreStored' /\ UpsertsAreKeyed'
  BY DEF RefInv, EntitiesAreStored, HasRow, UpsertsAreKeyed, Keyed, Open
<1>6. LinksAreSet' /\ InOrder' BY DEF LinksAreSet, InOrder
<1>7. DirectivesAreMade'
  <2>1. /\ \A d \in directives : DirectiveOk(d)
        /\ processed \subseteq DOMAIN entity
        /\ \A j \in DOMAIN entity : StateOf(j) = "Deleted" =>
              j \notin processed \/ DirectiveOf(j) \subseteq directives
    BY DEF RefInv, DirectivesAreMade, Saving, Drains
  <2>2. entity[i].type \in Types BY <1>1 DEF RefInv, EntitiesRefer, EntityGood
  <2>3. \A d \in DirectiveOf(i) : DirectiveOk(d)
    BY <2>2, DirectiveIs
  <2>4. \A j \in DOMAIN entity : DirectiveOf(j)' = DirectiveOf(j) /\ StateOf(j)' = StateOf(j)
    BY DEF DirectiveOf, OnDelete, StateOf
  <2> QED BY <2>1, <2>3, <2>4 DEF DirectivesAreMade, DirectiveOk, OnDelete, Drains
<1>8. TablesRefer' /\ RowsStay'
  BY DEF RefInv, TablesRefer, RowsStay, Drains, RowsOk, RowsRefer, Refers, Saving
<1> QED BY <1>2, <1>3, <1>4, <1>5, <1>6, <1>7, <1>8 DEF RefInv

LEMMA RefOfDrainDeletes ==
    ASSUME RefInv, DrainDeletes
    PROVE  RefInv'
<1>1. PICK i \in ToDrain :
        IF OnDelete = "Cascade" /\ entity[i].kids # {}
        THEN \E kid \in entity[i].kids :
                /\ LET t == ChildType(entity[i].type) IN
                   IF kid.pk = NoKey
                   THEN /\ entity' = [entity EXCEPT ![i].kids = @ \ {kid}]
                        /\ UNCHANGED <<tracker, nextId>>
                   ELSE /\ nextId' = nextId + 1
                        /\ tracker' = Track(tracker, nextId, t, "Deleted", kid.cols, FALSE)
                        /\ entity' = Put([entity EXCEPT ![i].kids = @ \ {kid}], nextId,
                               [type |-> t, pk |-> kid.pk, cols |-> kid.cols, kids |-> {}])
                /\ UNCHANGED <<directives, processed>>
        ELSE /\ processed' = processed \cup {i}
             /\ directives' = directives \cup DirectiveOf(i)
             /\ UNCHANGED <<tracker, entity, nextId>>
  BY DEF DrainDeletes
<1>2. /\ pc = "drain_deletes" /\ i \in DOMAIN entity
      /\ UNCHANGED <<db, work, pc, todo, links, result, others, policy>>
  BY DEF DrainDeletes, ToDrain, dbvars
<1>3. Open BY <1>2 DEF RefInv, Frame, Open
<1>4. nextId \in Nat /\ \A j \in DOMAIN entity : j \in Nat /\ j < nextId
  BY DEF RefInv, Frame
<1>5. CASE OnDelete = "Cascade" /\ entity[i].kids # {}
  <2>1. PICK kid \in entity[i].kids :
          /\ LET t == ChildType(entity[i].type) IN
             IF kid.pk = NoKey
             THEN /\ entity' = [entity EXCEPT ![i].kids = @ \ {kid}]
                  /\ UNCHANGED <<tracker, nextId>>
             ELSE /\ nextId' = nextId + 1
                  /\ tracker' = Track(tracker, nextId, t, "Deleted", kid.cols, FALSE)
                  /\ entity' = Put([entity EXCEPT ![i].kids = @ \ {kid}], nextId,
                         [type |-> t, pk |-> kid.pk, cols |-> kid.cols, kids |-> {}])
          /\ UNCHANGED <<directives, processed>>
    BY <1>1, <1>5
  <2>2. CASE kid.pk = NoKey
    <3>1. entity' = [entity EXCEPT ![i].kids = @ \ {kid}] /\ UNCHANGED <<tracker, nextId>>
      BY <2>1, <2>2
    <3>2. EntityGood(entity[i], db) BY <1>2, <1>3 DEF RefInv, EntitiesRefer
    <3>3. /\ DOMAIN entity' = DOMAIN entity
          /\ \A j \in DOMAIN entity : j # i => entity'[j] = entity[j]
          /\ entity'[i] = [entity[i] EXCEPT !.kids = @ \ {kid}]
      BY <1>2, <3>1
    <3>4. \A j \in DOMAIN entity : Alike(j)
      <4>1. Alike(i) BY <1>2, <1>4, <3>1, <3>2, <3>3, KidTaken DEF Alike
      <4>2. ASSUME NEW j \in DOMAIN entity, j # i PROVE Alike(j)
        BY <4>2, <1>4, <3>1, <3>3 DEF Alike
      <4> QED BY <4>1, <4>2
    <3> QED BY <1>2, <1>4, <2>1, <3>1, <3>3, <3>4, RefOfTaking DEF NewEntry
  <2>3. CASE kid.pk # NoKey
    <3>1. Taken(i, kid, "Deleted") BY <2>1, <2>3 DEF Taken
    <3>5. TakenOk(i, "Deleted") BY <1>2, <1>3, <3>1, TakenIsGood
    <3>2. /\ DOMAIN entity' = DOMAIN entity \cup {nextId}
          /\ \A j \in DOMAIN entity : Alike(j)
          /\ EntityGood(entity'[nextId], db)
          /\ Refers(entity'[nextId].type, entity'[nextId].cols, db)
          /\ entity'[nextId].pk \in DOMAIN db[entity'[nextId].type]
          /\ nextId \in Nat /\ \A j \in DOMAIN entity' : j \in Nat /\ j < nextId'
          /\ tracker'[nextId].state = "Deleted" /\ NewEntry
      BY <3>5 DEF TakenOk
    <3>3. nextId' \in Nat BY <3>1, <3>2 DEF Taken
    <3>4. \A j \in DOMAIN entity' \ DOMAIN entity : Keyed(j)' BY <3>2 DEF Keyed
    <3> QED BY <1>2, <2>1, <3>2, <3>3, <3>4, RefOfTaking
  <2> QED BY <2>2, <2>3
<1>6. CASE ~(OnDelete = "Cascade" /\ entity[i].kids # {})
  BY <1>1, <1>2, <1>6, RefOfProcessed
<1> QED BY <1>5, <1>6

(***************************************************************************)
(* The order of the types.                                                 *)
(***************************************************************************)
LEMMA OrderIsEachOnce ==
    EachOnce(InsertOrder) /\ \A t \in Types : \E n \in DOMAIN InsertOrder : InsertOrder[n] = t
<1>1. InsertOrder \in Seq(Types) /\ {InsertOrder[n] : n \in DOMAIN InsertOrder} = Types
      /\ Len(InsertOrder) = Cardinality(Types) /\ Types # {}
  BY ShapeAssumption
<1> DEFINE S == DOMAIN InsertOrder
<1>2. S = 1..Len(InsertOrder) /\ Len(InsertOrder) \in Nat BY <1>1
<1>3. IsFiniteSet(S) /\ Cardinality(S) = Len(InsertOrder)
  <2>1. PICK n \in Nat : n = Len(InsertOrder) BY <1>2
  <2>2. IsFiniteSet(1..n) /\ Cardinality(1..n) = n BY FS_Interval
  <2> QED BY <1>2, <2>1, <2>2
<1>4. InsertOrder \in Surjection(S, Types)
  <2>1. InsertOrder \in [S -> Types] BY <1>1
  <2> QED BY <1>1, <2>1 DEF Surjection
<1>5. InsertOrder \in Injection(S, Types) BY <1>1, <1>3, <1>4, FS_Surjection
<1>6. InsertOrder # <<>> BY <1>1
<1>7. \A m, n \in DOMAIN InsertOrder : InsertOrder[m] = InsertOrder[n] => m = n
  BY <1>5 DEF Injection, IsInjective
<1>8. EachOnce(InsertOrder) BY <1>1, <1>6, <1>7 DEF EachOnce
<1> QED BY <1>1, <1>8

LEMMA OrderFalls ==
    ASSUME RefSafe
    PROVE  Falls(InsertOrder) /\ \A t \in Types : \E n \in DOMAIN InsertOrder : InsertOrder[n] = t
BY OrderIsEachOnce DEF Falls, RefSafe

LEMMA TailIsEachOnce ==
    ASSUME NEW s, EachOnce(s), Len(s) > 1
    PROVE  /\ EachOnce(Tail(s))
           /\ \A m \in DOMAIN Tail(s) : m + 1 \in DOMAIN s /\ Tail(s)[m] = s[m + 1] /\ m \in Nat
           /\ \A n \in DOMAIN s : n # 1 => \E m \in DOMAIN Tail(s) : s[n] = Tail(s)[m]
<1>1. s \in Seq(Types) /\ s # <<>> BY DEF EachOnce
<1>2. Tail(s) \in Seq(Types) /\ Len(Tail(s)) = Len(s) - 1 /\ Len(s) \in Nat BY <1>1
<1>3. \A m \in 1..(Len(s) - 1) : Tail(s)[m] = s[m + 1] BY <1>1
<1>4. DOMAIN Tail(s) = 1..(Len(s) - 1) /\ DOMAIN s = 1..Len(s) BY <1>1, <1>2
<1>5. ASSUME NEW n \in DOMAIN s, n # 1 PROVE \E m \in DOMAIN Tail(s) : s[n] = Tail(s)[m]
  <2>1. n - 1 \in 1..(Len(s) - 1) BY <1>2, <1>4, <1>5
  <2>2. Tail(s)[n - 1] = s[n] BY <1>3, <1>4, <2>1
  <2> QED BY <1>4, <2>1, <2>2
<1>6. Tail(s) # <<>>
  <2>1. Len(Tail(s)) # 0 BY <1>2
  <2>2. Len(<<>>) = 0 OBVIOUS
  <2> QED BY <2>1, <2>2
<1>7. \A m \in DOMAIN Tail(s) : m + 1 \in DOMAIN s /\ Tail(s)[m] = s[m + 1] /\ m \in Nat
  BY <1>2, <1>3, <1>4
<1> HIDE <1>3
<1> QED BY <1>2, <1>5, <1>6, <1>7 DEF EachOnce

LEMMA TailFallsOrRises ==
    ASSUME NEW s, Len(s) > 1
    PROVE  (Falls(s) => Falls(Tail(s))) /\ (Rises(s) => Rises(Tail(s)))
<1>1. ASSUME EachOnce(s), NEW m \in DOMAIN Tail(s)
      PROVE  m + 1 \in DOMAIN s /\ Tail(s)[m] = s[m + 1] /\ m \in Nat
  BY <1>1, TailIsEachOnce
<1>2. EachOnce(s) => EachOnce(Tail(s)) BY TailIsEachOnce
<1> DEFINE r == Tail(s)
<1> HIDE DEF r
<1>3. ASSUME EachOnce(s), NEW m \in DOMAIN r, NEW n \in DOMAIN r
      PROVE  /\ m + 1 \in DOMAIN s /\ n + 1 \in DOMAIN s /\ m \in Nat /\ n \in Nat
             /\ <<r[m], r[n]>> = <<s[m + 1], s[n + 1]>>
  BY <1>1, <1>3 DEF r
<1>4. Falls(s) => \A m, n \in DOMAIN r : <<r[m], r[n]>> \in HasMany => m < n
  <2> SUFFICES ASSUME Falls(s), NEW m \in DOMAIN r, NEW n \in DOMAIN r,
                      <<r[m], r[n]>> \in HasMany
               PROVE  m < n
    OBVIOUS
  <2>1. m + 1 < n + 1 /\ m \in Nat /\ n \in Nat BY <1>3 DEF Falls
  <2> QED BY <2>1
<1>5. Rises(s) => \A m, n \in DOMAIN r : <<r[m], r[n]>> \in HasMany => n < m
  <2> SUFFICES ASSUME Rises(s), NEW m \in DOMAIN r, NEW n \in DOMAIN r,
                      <<r[m], r[n]>> \in HasMany
               PROVE  n < m
    OBVIOUS
  <2>1. n + 1 < m + 1 /\ m \in Nat /\ n \in Nat BY <1>3 DEF Rises
  <2> QED BY <2>1
<1> QED BY <1>2, <1>4, <1>5 DEF Falls, Rises, r

LEMMA ReversedRises ==
    ASSUME NEW s, Falls(s)
    PROVE  Rises(Reversed(s))
<1>1. s \in Seq(Types) /\ s # <<>> BY DEF Falls, EachOnce
<1>2. Len(s) \in Nat /\ DOMAIN s = 1..Len(s) BY <1>1
<1> DEFINE r == Reversed(s)
           at(n) == Len(s) + 1 - n
<1>3. DOMAIN r = DOMAIN s /\ \A n \in DOMAIN s : at(n) \in DOMAIN s /\ r[n] = s[at(n)]
  BY <1>2 DEF Reversed
<1>4. r \in Seq(Types)
  <2>1. r = [n \in 1..Len(s) |-> s[at(n)]] BY <1>2 DEF Reversed
  <2>2. \A n \in 1..Len(s) : s[at(n)] \in Types BY <1>1, <1>2
  <2> QED BY <1>2, <2>1, <2>2
<1>5. r # <<>> BY <1>1, <1>2, <1>3
<1> HIDE DEF r
<1>6. ASSUME NEW m \in DOMAIN r, NEW n \in DOMAIN r PROVE (r[m] = r[n] => m = n)
  <2>1. s[at(m)] = s[at(n)] => at(m) = at(n) BY <1>3 DEF Falls, EachOnce
  <2>2. m \in Nat /\ n \in Nat BY <1>2, <1>3
  <2> QED BY <1>2, <1>3, <2>1, <2>2
<1>7. ASSUME NEW m \in DOMAIN r, NEW n \in DOMAIN r, <<r[m], r[n]>> \in HasMany PROVE n < m
  <2>1. at(m) < at(n) BY <1>3, <1>7 DEF Falls
  <2>2. m \in Nat /\ n \in Nat BY <1>2, <1>3
  <2> QED BY <1>2, <2>1, <2>2
<1> QED BY <1>4, <1>5, <1>6, <1>7 DEF Rises, EachOnce, r

LEMMA HeadIsFirst ==
    ASSUME NEW s, EachOnce(s)
    PROVE  1 \in DOMAIN s /\ Head(s) = s[1] /\ Head(s) \in Types /\ s # <<>>
BY DEF EachOnce

(***************************************************************************)
(* The statements.                                                         *)
(***************************************************************************)
\* What no statement but the insertion touches.
LEMMA PhaseKeeps ==
    ASSUME RefInv, pc \in Saving, pc' \in Saving \ Drains, pc \in Drains => ToDrain = {},
           UNCHANGED <<tracker, entity, nextId, db, links, directives, processed, result,
                       others, policy>>
    PROVE  Frame' /\ EntitiesRefer' /\ LinksJoin' /\ EntitiesAreStored' /\ UpsertsAreKeyed'
           /\ DirectivesAreMade'
<1>1. result = "none" /\ pc # "idle" /\ pc # "accept" /\ Open
  BY DEF RefInv, Frame, Open, Saving, Drains, Writes
<1>2. Frame' BY <1>1 DEF RefInv, Frame, Saving, Drains, Writes
<1>3. EntitiesRefer' BY <1>1 DEF RefInv, EntitiesRefer, IsChild
<1>4. LinksJoin' BY <1>1 DEF RefInv, LinksJoin, ParentType, ToInsert, In, StateOf, IsUpsert
<1>5. EntitiesAreStored' /\ UpsertsAreKeyed'
  BY <1>1 DEF RefInv, EntitiesAreStored, HasRow, UpsertsAreKeyed, Keyed
<1>6. DirectivesAreMade'
  <2>1. \A d \in directives : DirectiveOk(d)
    BY DEF RefInv, DirectivesAreMade
  <2>2. \A j \in DOMAIN entity : DirectiveOf(j)' = DirectiveOf(j) /\ StateOf(j)' = StateOf(j)
    BY DEF DirectiveOf, OnDelete, StateOf
  <2>3. \A j \in DOMAIN entity : StateOf(j) = "Deleted" => DirectiveOf(j) \subseteq directives
    BY DEF RefInv, DirectivesAreMade, ToDrain
  <2> QED BY <2>1, <2>2, <2>3 DEF DirectivesAreMade, DirectiveOk, OnDelete, Drains
<1> QED BY <1>2, <1>3, <1>4, <1>5, <1>6

LEMMA RefOfDone ==
    ASSUME RefSafe, RefInv, DrainAddsDone \/ DrainDeletesDone
    PROVE  RefInv'
<1>1. CASE DrainAddsDone
  <2>1. /\ pc = "drain_adds" /\ pc' = "drain_deletes"
        /\ UNCHANGED <<tracker, entity, nextId, db, work, todo, links, directives, processed,
                       result, others, policy>>
    BY <1>1 DEF DrainAddsDone, dbvars
  <2>2. result = "none" /\ Open BY <2>1 DEF RefInv, Frame, Open
  <2>3. Frame' BY <2>1, <2>2 DEF RefInv, Frame, Saving, Drains
  <2>4. EntitiesRefer' BY <2>1, <2>2 DEF RefInv, EntitiesRefer, IsChild
  <2>5. LinksJoin'
    BY <2>1, <2>2 DEF RefInv, LinksJoin, ParentType, ToInsert, In, StateOf, IsUpsert
  <2>6. EntitiesAreStored' /\ UpsertsAreKeyed'
    BY <2>1, <2>2 DEF RefInv, EntitiesAreStored, HasRow, UpsertsAreKeyed, Keyed
  <2>7. LinksAreSet' /\ InOrder' BY <2>1 DEF LinksAreSet, InOrder
  <2>8. DirectivesAreMade'
    BY <2>1 DEF RefInv, DirectivesAreMade, DirectiveOk, OnDelete, Drains
  <2>9. TablesRefer' /\ RowsStay'
    BY <2>1 DEF RefInv, TablesRefer, RowsStay, Drains, RowsOk, RowsRefer, Refers, Saving
  <2> QED BY <2>3, <2>4, <2>5, <2>6, <2>7, <2>8, <2>9 DEF RefInv
<1>2. CASE DrainDeletesDone
  <2>1. /\ pc = "drain_deletes" /\ pc' = "insert" /\ todo' = InsertOrder /\ ToDrain = {}
        /\ UNCHANGED <<tracker, entity, nextId, db, work, links, directives, processed,
                       result, others, policy>>
    BY <1>2 DEF DrainDeletesDone, dbvars
  <2>2. Frame' /\ EntitiesRefer' /\ LinksJoin' /\ EntitiesAreStored' /\ UpsertsAreKeyed'
        /\ DirectivesAreMade'
    BY <2>1, PhaseKeeps DEF Saving, Drains, Writes
  <2>3. InOrder' BY <2>1, OrderFalls DEF InOrder
  <2>4. LinksAreSet'
    <3>1. result = "none" /\ Open BY <2>1 DEF RefInv, Frame, Open
    <3>2. ASSUME NEW l \in links PROVE \E n \in DOMAIN InsertOrder : InsertOrder[n] = ParentType(l)
      <4>1. ParentType(l) \in Types
        BY <3>1 DEF RefInv, LinksJoin, EntitiesRefer, EntityGood, ParentType
      <4> QED BY <4>1, OrderFalls
    <3> QED BY <2>1, <3>2 DEF LinksAreSet, ParentType
  <2>5. TablesRefer' /\ RowsStay'
    BY <2>1 DEF RefInv, TablesRefer, RowsStay, Drains, Writes, RowsOk, RowsRefer, Refers, Saving
  <2> QED BY <2>2, <2>3, <2>4, <2>5 DEF RefInv
<1> QED BY <1>1, <1>2

\* Rows are added to a table or changed in it.
LEMMA TableGrows ==
    ASSUME RowsOk(work), RowsRefer(work), NEW t \in Types, NEW new, TableOk(t, new),
           DOMAIN work[t] \subseteq DOMAIN new, work' = [work EXCEPT ![t] = new],
           \A k \in DOMAIN new : Refers(t, new[k], work)
    PROVE  /\ RowsOk(work') /\ RowsRefer(work')
           /\ \A u \in Types : DOMAIN work[u] \subseteq DOMAIN work'[u]
<1>1. work = [u \in Types |-> work[u]] /\ \A u \in Types : TableOk(u, work[u]) BY DEF RowsOk
<1>2. work'[t] = new /\ \A u \in Types : u # t => work'[u] = work[u] BY <1>1
<1>3. work' = [u \in Types |-> work'[u]] BY <1>1
<1>4. RowsOk(work') BY <1>1, <1>2, <1>3 DEF RowsOk
<1>5. \A u \in Types : DOMAIN work[u] \subseteq DOMAIN work'[u] BY <1>2
<1>6. ASSUME NEW u \in Types, NEW k \in DOMAIN work'[u] PROVE Refers(u, work'[u][k], work')
  <2>1. Refers(u, work'[u][k], work) BY <1>2 DEF RowsRefer
  <2> QED BY <1>5, <2>1 DEF Refers
<1> QED BY <1>4, <1>5, <1>6 DEF RowsRefer

\* What is sent for an entity refers to a row.
SetLink(i) == \A l \in links : l.child = i => IsSet(l)

LEMMA SentRefers ==
    ASSUME RefInv, pc \in {"insert", "upsert", "update"}, NEW i \in DOMAIN entity, SetLink(i)
    PROVE  /\ entity[i].type \in Types /\ DOMAIN entity[i].cols = Cols[entity[i].type]
           /\ Refers(entity[i].type, entity[i].cols, work)
<1>1. result = "none" /\ Open BY DEF RefInv, Frame, Open
<1> DEFINE t == entity[i].type
<1>2. t \in Types /\ DOMAIN entity[i].cols = Cols[t]
  BY <1>1 DEF RefInv, EntitiesRefer, EntityGood
<1>3. CASE IsChild(i)
  <2>1. PICK l \in links : l.child = i BY <1>3 DEF IsChild
  <2>2. <<ParentType(l), t>> \in HasMany /\ ParentType(l) \in Types
    BY <1>1, <2>1 DEF RefInv, LinksJoin, EntitiesRefer, EntityGood, ParentType
  <2>3. entity[i].cols.fk \in DOMAIN work[ParentType(l)] BY <2>1 DEF SetLink, IsSet
  <2>4. \A p \in Types : <<p, t>> \in HasMany => p = ParentType(l)
    BY <1>2, <2>2, ShapeAssumption
  <2> QED BY <1>2, <2>3, <2>4 DEF Refers
<1>4. CASE ~IsChild(i)
  <2>1. Refers(t, entity[i].cols, db) BY <1>1, <1>4 DEF RefInv, EntitiesRefer
  <2>2. \A p \in Types : DOMAIN db[p] \subseteq DOMAIN work[p]
    BY DEF RefInv, RowsStay, Writes
  <2> QED BY <1>2, <2>1, <2>2 DEF Refers
<1> QED BY <1>3, <1>4

LEMMA RefOfUpsert ==
    ASSUME RefSafe, RefInv, UpsertAdded
    PROVE  RefInv'
<1> DEFINE t == Head(todo)
           ids == ToUpsert(t)
           keys == {entity[i].pk : i \in ids}
           of(k) == CHOOSE i \in ids : entity[i].pk = k
           new == [k \in DOMAIN work[t] \cup keys |->
                      IF \E i \in ids : entity[i].pk = k THEN entity[of(k)].cols ELSE work[t][k]]
<1>1. /\ pc = "upsert" /\ Onward("update", InsertOrder)
      /\ UNCHANGED <<tracker, entity, nextId, db, links, directives, processed, result,
                     others, policy>>
  BY DEF UpsertAdded, dbvars
<1>2. result = "none" /\ Open BY <1>1 DEF RefInv, Frame, Open
<1>3. Falls(todo) /\ RowsOk(work) /\ RowsRefer(work)
  BY <1>1 DEF RefInv, InOrder, TablesRefer, Saving, Writes
<1>4. t \in Types /\ todo # <<>> BY <1>3, HeadIsFirst DEF Falls
<1>5. work' = [work EXCEPT ![t] = new] BY <1>3, <1>4 DEF UpsertAdded, RowsOk
<1>6. ids \subseteq DOMAIN entity /\ \A i \in ids : entity[i].type = t BY DEF ToUpsert, In
<1>7. KeysOk(keys)
  <2>1. \A i \in ids : entity[i].pk \in Nat \ {NoKey}
    BY <1>2, <1>6 DEF RefInv, UpsertsAreKeyed, Keyed, ToUpsert, StateOf, IsUpsert
  <2>2. IsFiniteSet(ids) BY <1>6, IdsFinite DEF RefInv, Frame
  <2> DEFINE f == [i \in DOMAIN entity |-> entity[i].pk]
  <2>3. keys = {f[i] : i \in ids} BY <1>6
  <2>4. IsFiniteSet(keys)
    <3> HIDE DEF ids, keys
    <3> HIDE DEF f
    <3>1. DOMAIN f = DOMAIN entity BY DEF f
    <3> QED BY <1>6, <2>2, <2>3, <3>1, ValuesFinite
  <2> QED BY <2>1, <2>4 DEF KeysOk
<1>8. TableOk(t, work[t]) BY <1>3, <1>4 DEF RowsOk
<1>9. \A k \in DOMAIN work[t] : Refers(t, work[t][k], work) BY <1>3, <1>4 DEF RowsRefer
<1>10. ASSUME NEW i \in ids PROVE DOMAIN entity[i].cols = Cols[t] /\ Refers(t, entity[i].cols, work)
  <2>1. SetLink(i) BY <1>1 DEF RefInv, LinksAreSet, SetLink
  <2> QED BY <1>1, <1>6, <2>1, SentRefers
<1>11. \A k \in keys : of(k) \in ids BY DEF keys
<1>12. DOMAIN new = DOMAIN work[t] \cup keys
       /\ \A k \in DOMAIN new : \/ k \in keys /\ new[k] = entity[of(k)].cols
                                \/ k \in DOMAIN work[t] /\ new[k] = work[t][k]
  OBVIOUS
<1> HIDE DEF new, keys, of, ids, t
<1>13. TableOk(t, new)
  <2>1. IsFiniteSet(DOMAIN work[t] \cup keys) BY <1>7, <1>8, FS_Union DEF TableOk, KeysOk
  <2>2. KeysOk(DOMAIN new) BY <1>7, <1>8, <1>12, <2>1 DEF TableOk, KeysOk
  <2>3. \A k \in DOMAIN new : DOMAIN new[k] = Cols[t] BY <1>8, <1>10, <1>11, <1>12 DEF TableOk
  <2> QED BY <2>2, <2>3 DEF TableOk
<1>14. \A k \in DOMAIN new : Refers(t, new[k], work) BY <1>9, <1>10, <1>11, <1>12
<1>15. /\ RowsOk(work') /\ RowsRefer(work')
       /\ \A u \in Types : DOMAIN work[u] \subseteq DOMAIN work'[u]
  BY <1>3, <1>4, <1>5, <1>12, <1>13, <1>14, TableGrows
<1>16. pc' \in {"upsert", "update"} /\ Falls(todo')
  BY <1>1, <1>3, TailFallsOrRises, OrderFalls DEF Onward
<1>17. Frame' /\ EntitiesRefer' /\ LinksJoin' /\ EntitiesAreStored' /\ UpsertsAreKeyed'
       /\ DirectivesAreMade'
  BY <1>1, <1>16, PhaseKeeps DEF Saving, Drains, Writes
<1>18. InOrder' BY <1>16 DEF InOrder
<1>19. LinksAreSet'
  <2>1. \A l \in links : IsSet(l) /\ ParentType(l) \in Types
    BY <1>1, <1>2 DEF RefInv, LinksAreSet, LinksJoin, EntitiesRefer, EntityGood, ParentType
  <2> QED BY <1>1, <1>15, <1>16, <2>1 DEF LinksAreSet, IsSet, ParentType
<1>20. TablesRefer'
  BY <1>1, <1>15, <1>16 DEF RefInv, TablesRefer, RowsOk, RowsRefer, Refers
<1>21. RowsStay' BY <1>1, <1>15, <1>16 DEF RefInv, RowsStay, Writes
<1> QED BY <1>17, <1>18, <1>19, <1>20, <1>21 DEF RefInv

UpdatedOk(new, t) ==
    /\ TableOk(t, new) /\ DOMAIN new = DOMAIN work[t]
    /\ \A k \in DOMAIN new : Refers(t, new[k], work)

LEMMA UpdatedIs ==
    ASSUME RefInv, pc = "update", NEW t \in Types
    PROVE  UpdatedOk(Updated(t, ToUpdate(t)), t)
<1> DEFINE ids == ToUpdate(t)
           new == Updated(t, ids)
<1>3. RowsOk(work) /\ RowsRefer(work)
  BY DEF RefInv, TablesRefer, Saving, Writes
<1>6. ids \subseteq DOMAIN entity /\ \A i \in ids : entity[i].type = t BY DEF ToUpdate, In
<1>7. TableOk(t, work[t]) BY <1>3 DEF RowsOk
<1>8. \A k \in DOMAIN work[t] : Refers(t, work[t][k], work) BY <1>3 DEF RowsRefer
<1>9. ASSUME NEW i \in ids PROVE Refers(t, entity[i].cols, work)
  <2>1. SetLink(i) BY DEF RefInv, LinksAreSet, SetLink
  <2> QED BY <1>6, <2>1, SentRefers
<1> DEFINE at(k) == CHOOSE j \in ids : entity[j].pk = k
<1>10. DOMAIN new = DOMAIN work[t] BY DEF Updated
<1>11. ASSUME NEW k \in DOMAIN work[t]
       PROVE  DOMAIN new[k] = Cols[t] /\ Refers(t, new[k], work)
  <2>1. CASE \E i \in ids : entity[i].pk = k
    <3>1. at(k) \in ids BY <2>1
    <3>2. new[k] = [c \in Cols[t] |-> IF c \in SetColumns(t, ids) THEN entity[at(k)].cols[c]
                                                                  ELSE work[t][k][c]]
      BY <2>1 DEF Updated
    <3> HIDE DEF at, ids, new
    <3>3. Refers(t, entity[at(k)].cols, work) /\ Refers(t, work[t][k], work)
      BY <1>8, <1>9, <3>1
    <3>4. \A p \in Types : <<p, t>> \in HasMany =>
             new[k].fk = entity[at(k)].cols.fk \/ new[k].fk = work[t][k].fk
      BY <3>2, ShapeAssumption
    <3> QED BY <3>2, <3>3, <3>4 DEF Refers
  <2>2. CASE ~\E i \in ids : entity[i].pk = k
    <3>1. new[k] = work[t][k] BY <2>2 DEF Updated
    <3> QED BY <1>7, <1>8, <3>1 DEF TableOk
  <2> QED BY <2>1, <2>2
<1> HIDE DEF new, at, ids
<1>12. UpdatedOk(new, t) BY <1>7, <1>10, <1>11 DEF UpdatedOk, TableOk
<1> QED BY <1>12 DEF new, ids

LEMMA RefOfUpdate ==
    ASSUME RefSafe, RefInv, UpdateModified
    PROVE  RefInv'
<1> DEFINE t == Head(todo)
           ids == ToUpdate(t)
           new == Updated(t, ids)
<1>1. /\ pc = "update" /\ Onward("set_null", Reversed(InsertOrder))
      /\ UNCHANGED <<tracker, entity, nextId, db, links, directives, processed, result,
                     others, policy>>
  BY DEF UpdateModified, dbvars
<1>2. result = "none" /\ Open BY <1>1 DEF RefInv, Frame, Open
<1>3. Falls(todo) /\ RowsOk(work) /\ RowsRefer(work)
  BY <1>1 DEF RefInv, InOrder, TablesRefer, Saving, Writes
<1>4. t \in Types /\ todo # <<>> BY <1>3, HeadIsFirst DEF Falls
<1>5. work' = [work EXCEPT ![t] = new] BY DEF UpdateModified
<1>12. UpdatedOk(new, t) BY <1>1, <1>4, UpdatedIs
<1> HIDE DEF new, ids, t
<1>13. /\ RowsOk(work') /\ RowsRefer(work')
       /\ \A u \in Types : DOMAIN work[u] \subseteq DOMAIN work'[u]
  BY <1>3, <1>4, <1>5, <1>12, TableGrows DEF UpdatedOk
<1>14. \/ pc' = "update" /\ Falls(todo')
       \/ pc' = "set_null" /\ Rises(todo')
  BY <1>1, <1>3, TailFallsOrRises, OrderFalls, ReversedRises DEF Onward
<1>15. Frame' /\ EntitiesRefer' /\ LinksJoin' /\ EntitiesAreStored' /\ UpsertsAreKeyed'
       /\ DirectivesAreMade'
  BY <1>1, <1>14, PhaseKeeps DEF Saving, Drains, Writes
<1>16. InOrder' BY <1>14 DEF InOrder
<1>17. LinksAreSet'
  <2>1. \A l \in links : IsSet(l) /\ ParentType(l) \in Types
    BY <1>1, <1>2 DEF RefInv, LinksAreSet, LinksJoin, EntitiesRefer, EntityGood, ParentType
  <2> QED BY <1>1, <1>13, <1>14, <2>1 DEF LinksAreSet, IsSet, ParentType
<1>18. TablesRefer'
  BY <1>1, <1>13, <1>14 DEF RefInv, TablesRefer, RowsOk, RowsRefer, Refers
<1>19. RowsStay' BY <1>1, <1>13, <1>14 DEF RefInv, RowsStay, Writes
<1> QED BY <1>15, <1>16, <1>17, <1>18, <1>19 DEF RefInv

\* Rows a directive with the action hits, when the action is that of all.
Hit(t, k) == Directs(t, work[t][k].fk)

DirectedOk(new, action) ==
    /\ new = [t \in Types |-> new[t]]
    /\ \A t \in Types :
          /\ action # "Cascade" => DOMAIN new[t] = DOMAIN work[t]
          /\ DOMAIN new[t] \subseteq DOMAIN work[t]
          /\ \A k \in DOMAIN new[t] :
                /\ ~(action = OnDelete /\ Hit(t, k)) => new[t][k] = work[t][k]
                /\ action = OnDelete /\ Hit(t, k) =>
                      action # "Cascade" /\ new[t][k] = [work[t][k] EXCEPT !.fk = Null]
          /\ \A k \in DOMAIN work[t] : ~Hit(t, k) => k \in DOMAIN new[t]

LEMMA DirectedIs ==
    ASSUME RefInv, RowsOk(work), NEW action
    PROVE  DirectedOk(Directed(work, action), action)
<1> DEFINE new == Directed(work, action)
           hit(t) == {k \in DOMAIN work[t] : \E d \in directives :
                         d.action = action /\ d.type = t /\ work[t][k].fk = d.key}
<1>1. new = [t \in Types |->
                IF action = "Cascade" THEN Drop(work[t], hit(t))
                ELSE [k \in DOMAIN work[t] |->
                        IF k \in hit(t) THEN [work[t][k] EXCEPT !.fk = Null] ELSE work[t][k]]]
  BY DEF Directed
<1>2. \A d \in directives : d.action = OnDelete BY DEF RefInv, DirectivesAreMade, DirectiveOk
<1>3. \A t \in Types : \A k \in DOMAIN work[t] : k \in hit(t) <=> action = OnDelete /\ Hit(t, k)
  BY <1>2 DEF Hit, Directs
<1> HIDE DEF new, hit
<1>4. new = [t \in Types |-> new[t]] BY <1>1
<1>5. ASSUME NEW t \in Types
      PROVE  /\ action # "Cascade" => DOMAIN new[t] = DOMAIN work[t]
             /\ DOMAIN new[t] \subseteq DOMAIN work[t]
             /\ \A k \in DOMAIN new[t] :
                   /\ ~(action = OnDelete /\ Hit(t, k)) => new[t][k] = work[t][k]
                   /\ action = OnDelete /\ Hit(t, k) =>
                         action # "Cascade" /\ new[t][k] = [work[t][k] EXCEPT !.fk = Null]
             /\ \A k \in DOMAIN work[t] : ~Hit(t, k) => k \in DOMAIN new[t]
  <2>1. CASE action = "Cascade"
    <3>1. new[t] = Drop(work[t], hit(t)) BY <1>1, <2>1
    <3>2. DOMAIN new[t] = DOMAIN work[t] \ hit(t)
          /\ \A k \in DOMAIN new[t] : new[t][k] = work[t][k]
      BY <3>1 DEF Drop
    <3> QED BY <1>3, <2>1, <3>2
  <2>2. CASE action # "Cascade"
    <3>1. new[t] = [k \in DOMAIN work[t] |->
                       IF k \in hit(t) THEN [work[t][k] EXCEPT !.fk = Null] ELSE work[t][k]]
      BY <1>1, <2>2
    <3>2. DOMAIN new[t] = DOMAIN work[t] BY <3>1
    <3>3. \A k \in DOMAIN work[t] : /\ k \in hit(t) => new[t][k] = [work[t][k] EXCEPT !.fk = Null]
                                    /\ k \notin hit(t) => new[t][k] = work[t][k]
      BY <3>1
    <3> QED BY <1>3, <2>2, <3>2, <3>3
  <2> QED BY <2>1, <2>2
<1>6. DirectedOk(new, action) BY <1>4, <1>5 DEF DirectedOk
<1> QED BY <1>6 DEF new

\* Only rows of dependents are hit, and a row without reference is not.
LEMMA HitsAreOfChildren ==
    ASSUME RefInv, NEW t
    PROVE  /\ ~Directs(t, Null)
           /\ \A key : Directs(t, key) => \E p \in Types : <<p, t>> \in HasMany
BY DEF RefInv, DirectivesAreMade, DirectiveOk, Directs

LEMMA RefOfSetNull ==
    ASSUME RefInv, SetNullDirectives
    PROVE  RefInv'
<1> DEFINE new == Directed(work, "SetNull")
<1>1. /\ pc = "set_null" /\ pc' = "delete" /\ work' = new
      /\ UNCHANGED <<tracker, entity, nextId, db, todo, links, directives, processed, result,
                     others, policy>>
  BY DEF SetNullDirectives, dbvars
<1>2. RowsOk(work) /\ RowsRefer(work) /\ Rises(todo)
  BY <1>1 DEF RefInv, InOrder, TablesRefer, Saving, Writes
<1>3. /\ new = [t \in Types |-> new[t]]
      /\ \A t \in Types :
            /\ DOMAIN new[t] = DOMAIN work[t]
            /\ \A k \in DOMAIN new[t] :
                  /\ ~(OnDelete = "SetNull" /\ Hit(t, k)) => new[t][k] = work[t][k]
                  /\ OnDelete = "SetNull" /\ Hit(t, k) =>
                        new[t][k] = [work[t][k] EXCEPT !.fk = Null]
  <2>1. DirectedOk(new, "SetNull") BY <1>2, DirectedIs
  <2> HIDE DEF new
  <2> QED BY <2>1 DEF DirectedOk
<1> HIDE DEF new
<1>4. ASSUME NEW t \in Types, NEW k \in DOMAIN new[t]
      PROVE  /\ DOMAIN new[t][k] = Cols[t]
             /\ \A p \in Types : <<p, t>> \in HasMany =>
                   /\ new[t][k].fk \in {Null} \cup DOMAIN new[p]
                   /\ OnDelete = "SetNull" => ~Directs(t, new[t][k].fk)
  <2>1. DOMAIN work[t][k] = Cols[t] /\ Refers(t, work[t][k], work) BY <1>2, <1>3 DEF RowsOk, TableOk, RowsRefer
  <2>2. CASE OnDelete = "SetNull" /\ Hit(t, k)
    <3>1. new[t][k] = [work[t][k] EXCEPT !.fk = Null] BY <1>3, <2>2
    <3>2. "fk" \in Cols[t]
      BY <2>2, HitsAreOfChildren, OneParent DEF Hit
    <3>3. new[t][k].fk = Null /\ DOMAIN new[t][k] = Cols[t] BY <2>1, <3>1, <3>2
    <3> QED BY <3>3, HitsAreOfChildren
  <2>3. CASE ~(OnDelete = "SetNull" /\ Hit(t, k))
    BY <1>3, <2>1, <2>3 DEF Hit, Refers
  <2> QED BY <2>2, <2>3
<1>5. RowsOk(new)
  BY <1>2, <1>3, <1>4 DEF RowsOk, TableOk
<1>6. Frame' /\ EntitiesRefer' /\ LinksJoin' /\ EntitiesAreStored' /\ UpsertsAreKeyed'
      /\ DirectivesAreMade'
  BY <1>1, PhaseKeeps DEF Saving, Drains, Writes
<1>7. InOrder' /\ LinksAreSet' BY <1>1, <1>2 DEF InOrder, LinksAreSet
<1>8. Loose'
  BY <1>1, <1>4 DEF Loose, Directs, OnDelete
<1>9. TablesRefer'
  BY <1>1, <1>5, <1>8 DEF RefInv, TablesRefer, RowsOk, RowsRefer, Refers, Drains, Writes
<1>10. RowsStay'
  <2>1. \A n \in DOMAIN todo : todo[n] \in Types BY <1>2 DEF Rises, EachOnce
  <2> QED BY <1>1, <1>3, <2>1 DEF RefInv, RowsStay, Drains, Writes
<1> QED BY <1>6, <1>7, <1>8, <1>9, <1>10 DEF RefInv

LEMMA RefOfCascade ==
    ASSUME RefSafe, RefInv, CascadeDirectives
    PROVE  RefInv'
<1> DEFINE new == Directed(work, "Cascade")
<1>1. /\ pc = "prune" /\ pc' = "commit" /\ work' = new
      /\ UNCHANGED <<tracker, entity, nextId, db, todo, links, directives, processed, result,
                     others, policy>>
  BY DEF CascadeDirectives, dbvars
<1>2. RowsOk(work) /\ Loose BY <1>1 DEF RefInv, TablesRefer, Saving
<1>3. /\ new = [t \in Types |-> new[t]]
      /\ \A t \in Types :
            /\ DOMAIN new[t] \subseteq DOMAIN work[t]
            /\ \A k \in DOMAIN new[t] : new[t][k] = work[t][k] /\ ~(OnDelete = "Cascade" /\ Hit(t, k))
            /\ \A k \in DOMAIN work[t] : ~Hit(t, k) => k \in DOMAIN new[t]
  <2>1. DirectedOk(new, "Cascade") BY <1>2, DirectedIs
  <2> HIDE DEF new
  <2> QED BY <2>1 DEF DirectedOk
<1> HIDE DEF new
<1>4. ASSUME NEW t \in Types, NEW k \in DOMAIN new[t] PROVE Refers(t, new[t][k], new)
  <2>1. SUFFICES ASSUME NEW p \in Types, <<p, t>> \in HasMany
                 PROVE  new[t][k].fk \in {Null} \cup DOMAIN new[p]
    BY DEF Refers
  <2>2. k \in DOMAIN work[t] /\ new[t][k] = work[t][k] /\ ~(OnDelete = "Cascade" /\ Hit(t, k))
    BY <1>3
  <2>3. work[t][k].fk \in {Null} \cup DOMAIN work[p]
    BY <1>2, <2>1, <2>2 DEF Loose, Hit
  <2>4. ASSUME NEW key, Directs(p, key) PROVE FALSE
    <3>1. PICK q \in Types : <<q, p>> \in HasMany BY <2>4, HitsAreOfChildren
    <3>2. <<q, p>>[2] # <<p, t>>[1] BY <2>1, <3>1 DEF RefSafe, Apart
    <3> QED BY <3>2
  <2>5. DOMAIN new[p] = DOMAIN work[p] BY <1>3, <2>4 DEF Hit
  <2> QED BY <2>2, <2>3, <2>5
<1>5. RowsOk(new)
  <2>1. ASSUME NEW t \in Types PROVE TableOk(t, new[t])
    <3>1. TableOk(t, work[t]) BY <1>2 DEF RowsOk
    <3>2. KeysOk(DOMAIN new[t]) BY <1>3, <3>1, FS_Subset DEF TableOk, KeysOk
    <3> QED BY <1>3, <3>1, <3>2 DEF TableOk
  <2> QED BY <1>3, <2>1 DEF RowsOk
<1>6. Frame' /\ EntitiesRefer' /\ LinksJoin' /\ EntitiesAreStored' /\ UpsertsAreKeyed'
      /\ DirectivesAreMade'
  BY <1>1, PhaseKeeps DEF Saving, Drains, Writes
<1>7. InOrder' /\ LinksAreSet' BY <1>1 DEF InOrder, LinksAreSet
<1>8. RowsRefer(new) BY <1>4 DEF RowsRefer
<1>9. TablesRefer'
  BY <1>1, <1>5, <1>8 DEF RefInv, TablesRefer, RowsOk, RowsRefer, Refers, Drains, Writes
<1>10. RowsStay' BY <1>1 DEF RowsStay, Drains, Writes
<1> QED BY <1>6, <1>7, <1>9, <1>10 DEF RefInv

LEMMA NoChainIs ==
    ASSUME RefSafe, NEW p, NEW t, NEW c, <<p, t>> \in HasMany
    PROVE  <<t, c>> \notin HasMany /\ p # t
<1>1. ASSUME <<t, c>> \in HasMany PROVE FALSE
  <2>1. <<p, t>>[2] # <<t, c>>[1] BY <1>1 DEF RefSafe, Apart
  <2> QED BY <2>1
<1>2. ASSUME p = t PROVE FALSE
  <2>1. <<p, t>>[2] # <<p, t>>[1] BY DEF RefSafe, Apart
  <2> QED BY <1>2, <2>1
<1> QED BY <1>1, <1>2

\* What a statement that deletes rows of t by keys makes of the tables: t
\* loses the rows, and its dependents go, lose the reference, or were none.
DeletedOk(new, t, keys) ==
    /\ new = [u \in Types |-> new[u]]
    /\ new[t] = Drop(work[t], keys)
    /\ \A u \in Types : u # t /\ <<t, u>> \notin HasMany => new[u] = work[u]
    /\ \A u \in Types : u # t =>
          /\ DOMAIN new[u] \subseteq DOMAIN work[u]
          /\ \A k \in DOMAIN new[u] :
                \/ new[u][k] = work[u][k]
                \/ <<t, u>> \in HasMany /\ new[u][k] = [work[u][k] EXCEPT !.fk = Null]
    /\ ForeignKeys => \A u \in Types : <<t, u>> \in HasMany =>
          \A k \in DOMAIN new[u] : new[u][k].fk \notin keys \/ new[u][k].fk = Null

LEMMA DeletedIs ==
    ASSUME RefSafe, RowsOk(work), NEW t \in Types, NEW keys, ~Restricted(t, keys),
           policy \in Policies
    PROVE  DeletedOk(AfterDelete(t, keys), t, keys)
<1> DEFINE rest == [work EXCEPT ![t] = Drop(@, keys)]
           new == AfterDelete(t, keys)
<1>1. work = [u \in Types |-> work[u]] BY DEF RowsOk
<1>2. /\ rest = [u \in Types |-> rest[u]] /\ rest[t] = Drop(work[t], keys)
      /\ \A u \in Types : u # t => rest[u] = work[u]
  BY <1>1
<1>3. CASE ~(ForeignKeys /\ HasChildren(t))
  <2>1. new = rest BY <1>3 DEF AfterDelete
  <2>2. \A u \in Types : <<t, u>> \in HasMany => HasChildren(t) BY DEF HasChildren
  <2> HIDE DEF new, rest
  <2> QED BY <1>2, <1>3, <2>1, <2>2 DEF DeletedOk, new
<1>4. CASE ForeignKeys /\ HasChildren(t)
  <2> DEFINE c == ChildType(t)
             hit == {k \in DOMAIN work[c] : work[c][k].fk \in keys}
  <2>1. c \in Types /\ <<t, c>> \in HasMany BY <1>4, ChildTypeIs
  <2>2. c # t BY <2>1, NoChainIs
  <2>3. \A u \in Types : <<t, u>> \in HasMany => u = c BY <2>1, ShapeAssumption
  <2>4. rest[c] = work[c] BY <1>2, <2>1, <2>2
  <2>5. Dependents(rest, t, keys) = hit BY <2>4 DEF Dependents
  <2>6. \/ /\ OnDelete = "Cascade" /\ new = [rest EXCEPT ![c] = Drop(@, hit)]
        \/ /\ OnDelete = "SetNull"
           /\ new = [rest EXCEPT ![c] = [k \in DOMAIN @ |->
                        IF k \in hit THEN [@[k] EXCEPT !.fk = Null] ELSE @[k]]]
        \/ OnDelete = "Restrict" /\ new = rest
    <3>1. OnDelete \in {"Cascade", "SetNull", "Restrict"} BY CallerAssumption DEF OnDelete
    <3> HIDE DEF hit, rest
    <3> QED BY <1>4, <2>5, <3>1 DEF AfterDelete, rest
  <2>7. OnDelete = "Restrict" => hit = {}
    <3> HIDE DEF hit
    <3> QED BY <1>4, <2>5 DEF Restricted
  <2> HIDE DEF new, rest, c
  <2>8. CASE OnDelete = "Cascade" /\ new = [rest EXCEPT ![c] = Drop(@, hit)]
    <3>1. /\ new = [u \in Types |-> new[u]] /\ new[c] = Drop(work[c], hit)
          /\ \A u \in Types : u # c => new[u] = rest[u]
      BY <1>2, <2>1, <2>4, <2>8
    <3>2. DOMAIN new[c] = DOMAIN work[c] \ hit /\ \A k \in DOMAIN new[c] : new[c][k] = work[c][k]
      BY <3>1 DEF Drop
    <3>3. \A k \in DOMAIN new[c] : new[c][k].fk \notin keys BY <3>2
    <3> HIDE DEF hit
    <3> QED BY <1>2, <2>1, <2>2, <2>3, <3>1, <3>2, <3>3 DEF DeletedOk, new
  <2>9. CASE OnDelete = "SetNull"
             /\ new = [rest EXCEPT ![c] = [k \in DOMAIN @ |->
                          IF k \in hit THEN [@[k] EXCEPT !.fk = Null] ELSE @[k]]]
    <3>1. /\ new = [u \in Types |-> new[u]]
          /\ new[c] = [k \in DOMAIN work[c] |->
                          IF k \in hit THEN [work[c][k] EXCEPT !.fk = Null] ELSE work[c][k]]
          /\ \A u \in Types : u # c => new[u] = rest[u]
      <4> HIDE DEF hit
      <4> QED BY <1>2, <2>1, <2>4, <2>9
    <3>2. DOMAIN new[c] = DOMAIN work[c] BY <3>1
    <3>3. \A k \in DOMAIN work[c] : TableOk(c, work[c]) /\ "fk" \in DOMAIN work[c][k]
      BY <2>1, OneParent DEF RowsOk, TableOk
    <3>4. ASSUME NEW k \in DOMAIN work[c]
          PROVE  /\ \/ new[c][k] = work[c][k]
                    \/ new[c][k] = [work[c][k] EXCEPT !.fk = Null]
                 /\ new[c][k].fk \notin keys \/ new[c][k].fk = Null
      <4>1. CASE k \in hit
        <5>1. new[c][k] = [work[c][k] EXCEPT !.fk = Null] BY <3>1, <4>1
        <5> QED BY <3>3, <5>1
      <4>2. CASE k \notin hit
        <5>1. new[c][k] = work[c][k] BY <3>1, <4>2
        <5> QED BY <4>2, <5>1
      <4> QED BY <4>1, <4>2
    <3> HIDE DEF hit
    <3> QED BY <1>2, <2>1, <2>2, <2>3, <3>1, <3>2, <3>4 DEF DeletedOk, new
  <2>10. CASE OnDelete = "Restrict" /\ new = rest
    <3>1. \A k \in DOMAIN work[c] : work[c][k].fk \notin keys BY <2>7, <2>10
    <3> QED BY <1>2, <2>1, <2>2, <2>3, <2>4, <2>10, <3>1 DEF DeletedOk, new
  <2> QED BY <2>6, <2>8, <2>9, <2>10
<1> QED BY <1>3, <1>4

LEMMA RefOfDelete ==
    ASSUME RefSafe, RefInv, DeleteDeleted
    PROVE  RefInv'
<1> DEFINE t == Head(todo)
           ids == ToDelete(t)
           keys == Reached(t, ids)
           new == AfterDelete(t, keys)
<1>1. /\ pc = "delete" /\ Onward("prune", <<>>) /\ ~Restricted(t, keys) /\ work' = new
      /\ UNCHANGED <<tracker, entity, nextId, db, links, directives, processed, result,
                     others, policy>>
  BY DEF DeleteDeleted, dbvars
<1>2. result = "none" /\ Open BY <1>1 DEF RefInv, Frame, Open
<1>3. Rises(todo) /\ RowsOk(work) /\ Loose
  BY <1>1 DEF RefInv, InOrder, TablesRefer, Saving
<1>4. t \in Types /\ todo # <<>> /\ t = todo[1] /\ 1 \in DOMAIN todo
  BY <1>3, HeadIsFirst DEF Rises
<1>5. policy \in Policies BY DEF RefInv, Frame
<1>6. DeletedOk(new, t, keys) BY <1>1, <1>3, <1>4, <1>5, DeletedIs
<1>7. ASSUME NEW key \in keys
      PROVE  /\ key \in DOMAIN work[t]
             /\ \/ OnDelete = "Restrict" /\ ForeignKeys
                \/ OnDelete \in {"Cascade", "SetNull"}
                   /\ \A c \in Types : <<t, c>> \in HasMany => Directs(c, key)
  <2>1. PICK i \in ids : entity[i].pk = key BY DEF Reached
  <2>2. key \in DOMAIN work[t] /\ key \in Nat \ {NoKey}
    BY <1>3, <1>4 DEF Reached, RowsOk, TableOk, KeysOk
  <2>3. i \in DOMAIN entity /\ entity[i].type = t /\ StateOf(i) = "Deleted"
    BY <2>1 DEF ToDelete, In
  <2>4. DirectiveOf(i) \subseteq directives
    BY <1>1, <2>3 DEF RefInv, DirectivesAreMade, Saving, Drains
  <2>5. OnDelete \in {"Cascade", "SetNull", "Restrict"}
        /\ (OnDelete = "Restrict" => ForeignKeys)
    BY <1>5, CallerAssumption DEF OnDelete, ForeignKeys, RefSafe
  <2>6. ASSUME OnDelete \in {"Cascade", "SetNull"}, NEW c \in Types, <<t, c>> \in HasMany
        PROVE  Directs(c, key)
    <3>1. HasChildren(t) /\ ChildType(t) = c BY <1>4, <2>6, ChildOf
    <3>2. key > 0 BY <2>2 DEF NoKey
    <3>3. [type |-> c, key |-> key, action |-> OnDelete] \in directives
      BY <2>1, <2>3, <2>4, <2>6, <3>1, <3>2 DEF DirectiveOf
    <3> QED BY <3>3 DEF Directs
  <2> QED BY <2>2, <2>5, <2>6
<1>8. \A u : ~Directs(u, Null) BY HitsAreOfChildren
<1> HIDE DEF t, ids, keys, new
<1>9. DOMAIN new[t] = DOMAIN work[t] \ keys /\ \A k \in DOMAIN new[t] : new[t][k] = work[t][k]
  BY <1>6 DEF DeletedOk, Drop
<1>10. ASSUME NEW u \in Types
       PROVE  /\ DOMAIN new[u] \subseteq DOMAIN work[u]
              /\ \A k \in DOMAIN new[u] :
                    \/ new[u][k] = work[u][k]
                    \/ /\ <<t, u>> \in HasMany /\ "fk" \in Cols[u]
                       /\ new[u][k] = [work[u][k] EXCEPT !.fk = Null]
  <2>1. CASE u = t BY <1>9, <2>1
  <2>2. CASE u # t
    <3>1. <<t, u>> \in HasMany => "fk" \in Cols[u] BY <1>4, OneParent
    <3> QED BY <1>6, <2>2, <3>1 DEF DeletedOk
  <2> QED BY <2>1, <2>2
<1>11. RowsOk(new)
  <2>1. ASSUME NEW u \in Types PROVE TableOk(u, new[u])
    <3>1. TableOk(u, work[u]) BY <1>3 DEF RowsOk
    <3>2. KeysOk(DOMAIN new[u]) BY <1>10, <3>1, FS_Subset DEF TableOk, KeysOk
    <3>3. ASSUME NEW k \in DOMAIN new[u] PROVE DOMAIN new[u][k] = DOMAIN work[u][k]
      <4>1. CASE new[u][k] = work[u][k] BY <4>1
      <4>2. CASE new[u][k] = [work[u][k] EXCEPT !.fk = Null] BY <4>2
      <4> QED BY <1>10, <4>1, <4>2
    <3>4. \A k \in DOMAIN new[u] : DOMAIN new[u][k] = Cols[u] BY <1>10, <3>1, <3>3 DEF TableOk
    <3> QED BY <3>2, <3>4 DEF TableOk
  <2> QED BY <1>6, <2>1 DEF DeletedOk, RowsOk
<1>12. ASSUME NEW u \in Types, NEW k \in DOMAIN new[u], NEW p \in Types, <<p, u>> \in HasMany
       PROVE  /\ \/ new[u][k].fk \in {Null} \cup DOMAIN new[p]
                 \/ OnDelete = "Cascade" /\ Directs(u, new[u][k].fk)
              /\ OnDelete = "SetNull" => ~Directs(u, new[u][k].fk)
  <2>1. k \in DOMAIN work[u] BY <1>10
  <2>2. DOMAIN work[u][k] = Cols[u] /\ "fk" \in Cols[u]
    BY <1>3, <1>12, <2>1, OneParent DEF RowsOk, TableOk
  <2>3. new[u][k].fk = work[u][k].fk \/ new[u][k].fk = Null
    <3>1. CASE new[u][k] = work[u][k] BY <3>1
    <3>2. CASE new[u][k] = [work[u][k] EXCEPT !.fk = Null] BY <2>2, <3>2
    <3> QED BY <1>10, <3>1, <3>2
  <2>4. /\ \/ work[u][k].fk \in {Null} \cup DOMAIN work[p]
           \/ OnDelete = "Cascade" /\ Directs(u, work[u][k].fk)
        /\ OnDelete = "SetNull" => ~Directs(u, work[u][k].fk)
    BY <1>3, <1>12, <2>1 DEF Loose
  <2>5. CASE new[u][k].fk = Null BY <2>5, <1>8
  <2>6. CASE new[u][k].fk # Null /\ p # t
    <3>1. <<t, p>> \notin HasMany BY <1>12, NoChainIs
    <3>2. new[p] = work[p] BY <1>6, <2>6, <3>1 DEF DeletedOk
    <3> QED BY <2>3, <2>4, <2>6, <3>2
  <2>7. CASE new[u][k].fk # Null /\ p = t
    <3>1. new[u][k].fk = work[u][k].fk BY <2>3, <2>7
    <3>2. CASE new[u][k].fk \in keys
      <4>1. ~ForeignKeys BY <1>6, <1>12, <2>7, <3>2 DEF DeletedOk
      <4>2. OnDelete \in {"Cascade", "SetNull"} /\ Directs(u, new[u][k].fk)
        BY <1>7, <1>12, <2>7, <3>2, <4>1
      <4> QED BY <2>4, <3>1, <4>2
    <3>3. CASE new[u][k].fk \notin keys
      BY <1>9, <2>4, <2>7, <3>1, <3>3
    <3> QED BY <3>2, <3>3
  <2> QED BY <2>5, <2>6, <2>7
<1>13. pc' \in {"delete", "prune"} BY <1>1 DEF Onward
<1>14. Frame' /\ EntitiesRefer' /\ LinksJoin' /\ EntitiesAreStored' /\ UpsertsAreKeyed'
       /\ DirectivesAreMade'
  BY <1>1, <1>13, PhaseKeeps DEF Saving, Drains, Writes
<1>15. pc' = "delete" => Len(todo) > 1 /\ todo' = Tail(todo) BY <1>1 DEF Onward
<1>16. InOrder'
  <2>1. pc' = "delete" => Rises(todo') BY <1>3, <1>15, TailFallsOrRises
  <2> QED BY <1>13, <2>1 DEF InOrder
<1>17. LinksAreSet' BY <1>13 DEF LinksAreSet
<1>18. Loose' BY <1>1, <1>12 DEF Loose, Directs, OnDelete
<1>19. TablesRefer'
  BY <1>1, <1>11, <1>13, <1>18 DEF RefInv, TablesRefer, RowsOk, RowsRefer, Refers, Drains, Writes
<1>20. RowsStay'
  <2>1. ASSUME pc' = "delete", NEW m \in DOMAIN todo'
        PROVE  DOMAIN db[todo'[m]] \subseteq DOMAIN work'[todo'[m]]
    <3>1. EachOnce(todo) BY <1>3 DEF Rises
    <3>2. m + 1 \in DOMAIN todo /\ todo'[m] = todo[m + 1] /\ m \in Nat /\ 1 <= m
      <4>1. m + 1 \in DOMAIN todo /\ todo'[m] = todo[m + 1] /\ m \in Nat
        BY <1>15, <2>1, <3>1, TailIsEachOnce
      <4>2. m # 0
        <5>1. todo' \in Seq(Types)
          BY <1>15, <2>1, <3>1, TailIsEachOnce DEF EachOnce
        <5> QED BY <5>1
      <4> QED BY <4>1, <4>2
    <3> DEFINE u == todo[m + 1]
    <3>3. u \in Types BY <3>1, <3>2 DEF EachOnce
    <3>4. u # t
      <4>1. u = t => m + 1 = 1 BY <1>4, <3>1, <3>2 DEF EachOnce
      <4> QED BY <3>2, <4>1
    <3>5. <<t, u>> \notin HasMany
      <4>1. <<t, u>> \in HasMany => m + 1 < 1 BY <1>3, <1>4, <3>2 DEF Rises
      <4> QED BY <3>2, <4>1
    <3>6. new[u] = work[u] BY <1>6, <3>3, <3>4, <3>5 DEF DeletedOk
    <3>7. DOMAIN db[u] \subseteq DOMAIN work[u] BY <1>1, <3>2 DEF RefInv, RowsStay
    <3> QED BY <1>1, <3>2, <3>6, <3>7
  <2> QED BY <1>1, <1>13, <2>1 DEF RowsStay, Drains, Writes
<1> QED BY <1>14, <1>16, <1>17, <1>19, <1>20 DEF RefInv

(***************************************************************************)
(* The insertion and the fix-up of the keys.                               *)
(***************************************************************************)
NewKeys(t) == {NextKey(work[t]) + Rank(i, ToInsert(t)) : i \in ToInsert(t)}
IsFixed(t, i) == \E l \in Linked(t) : l.child = i

\* Nothing but the keys of the inserted entities and the references to them
\* is changed.
FixedOk(now, t) ==
    /\ DOMAIN now = DOMAIN entity
    /\ \A i \in DOMAIN entity :
          /\ EntityGood(now[i], db) /\ now[i].type = entity[i].type
          /\ i \notin ToInsert(t) => now[i].pk = entity[i].pk
          /\ ~IsFixed(t, i) => now[i].cols = entity[i].cols
          /\ IsFixed(t, i) => now[i].cols.fk \in NewKeys(t)

BackfilledOk(ents, t) ==
    /\ DOMAIN ents = DOMAIN entity
    /\ \A i \in DOMAIN entity :
          /\ EntityGood(ents[i], db) /\ ents[i].type = entity[i].type
          /\ ents[i].cols = entity[i].cols
          /\ i \notin ToInsert(t) => ents[i].pk = entity[i].pk
          /\ i \in ToInsert(t) => ents[i].pk = NextKey(work[t]) + Rank(i, ToInsert(t))

LEMMA EntityRekeyed ==
    ASSUME NEW e, EntityGood(e, db), NEW k, NEW new, new = [e EXCEPT !.pk = k]
    PROVE  /\ EntityGood(new, db) /\ new.type = e.type /\ new.cols = e.cols /\ new.pk = k
<1>1. new = [type |-> e.type, pk |-> k, cols |-> e.cols, kids |-> e.kids] BY DEF EntityGood
<1>2. new.type = e.type /\ new.cols = e.cols /\ new.pk = k /\ new.kids = e.kids BY <1>1
<1> QED BY <1>1, <1>2 DEF EntityGood

LEMMA EntityRelinked ==
    ASSUME NEW e, EntityGood(e, db), "fk" \in Cols[e.type], NEW k,
           NEW new, new = [e EXCEPT !.cols.fk = k]
    PROVE  /\ EntityGood(new, db) /\ new.type = e.type /\ new.pk = e.pk /\ new.cols.fk = k
<1> DEFINE cols == [e.cols EXCEPT !.fk = k]
<1>1. new = [type |-> e.type, pk |-> e.pk, cols |-> cols, kids |-> e.kids] BY DEF EntityGood
<1>2. DOMAIN cols = Cols[e.type] /\ cols.fk = k BY DEF EntityGood
<1> HIDE DEF cols
<1>3. new.type = e.type /\ new.cols = cols /\ new.pk = e.pk /\ new.kids = e.kids BY <1>1
<1> QED BY <1>1, <1>2, <1>3 DEF EntityGood

LEMMA BackfilledIs ==
    ASSUME RefInv, Open, NEW t
    PROVE  BackfilledOk(Backfilled(t, ToInsert(t)), t)
<1> DEFINE ids == ToInsert(t)
           ents == Backfilled(t, ids)
           key(i) == NextKey(work[t]) + Rank(i, ids)
<1>1. DOMAIN ents = DOMAIN entity BY DEF Backfilled
<1>2. ASSUME NEW i \in DOMAIN entity
      PROVE  /\ EntityGood(ents[i], db) /\ ents[i].type = entity[i].type
             /\ ents[i].cols = entity[i].cols
             /\ i \notin ids => ents[i].pk = entity[i].pk
             /\ i \in ids => ents[i].pk = key(i)
  <2>1. EntityGood(entity[i], db) BY DEF RefInv, EntitiesRefer
  <2>2. CASE i \in ids
    <3>1. ents[i] = [entity[i] EXCEPT !.pk = key(i)] BY <2>2 DEF Backfilled
    <3> HIDE DEF ents, key, ids
    <3> QED BY <2>1, <2>2, <3>1, EntityRekeyed
  <2>3. CASE i \notin ids
    <3>1. ents[i] = entity[i] BY <2>3 DEF Backfilled
    <3> QED BY <2>1, <2>3, <3>1
  <2> QED BY <2>2, <2>3
<1> HIDE DEF ents
<1>3. BackfilledOk(ents, t) BY <1>1, <1>2 DEF BackfilledOk
<1> QED BY <1>3 DEF ents

LEMMA FixedIs ==
    ASSUME RefInv, Open, NEW t
    PROVE  FixedOk(FixedUp(t, Backfilled(t, ToInsert(t))), t)
<1> DEFINE ents == Backfilled(t, ToInsert(t))
           now == FixedUp(t, ents)
<1>1. BackfilledOk(ents, t) BY BackfilledIs
<1> HIDE DEF ents
<1>2. DOMAIN now = DOMAIN entity BY <1>1 DEF FixedUp, BackfilledOk
<1>3. ASSUME NEW i \in DOMAIN entity
      PROVE  /\ EntityGood(now[i], db) /\ now[i].type = entity[i].type
             /\ i \notin ToInsert(t) => now[i].pk = entity[i].pk
             /\ ~IsFixed(t, i) => now[i].cols = entity[i].cols
             /\ IsFixed(t, i) => now[i].cols.fk \in NewKeys(t)
  <2>1. /\ i \in DOMAIN ents /\ EntityGood(ents[i], db) /\ ents[i].type = entity[i].type
        /\ ents[i].cols = entity[i].cols /\ (i \notin ToInsert(t) => ents[i].pk = entity[i].pk)
    BY <1>1 DEF BackfilledOk
  <2>2. CASE IsFixed(t, i)
    <3> DEFINE l == CHOOSE m \in Linked(t) : m.child = i
               k == ents[l.parent].pk
    <3>1. l \in Linked(t) /\ l.child = i BY <2>2 DEF IsFixed
    <3>2. now[i] = [ents[i] EXCEPT !.cols.fk = k] BY <2>1, <2>2 DEF FixedUp, IsFixed
    <3> HIDE DEF l, now
    <3>3. /\ l \in links /\ entity[l.parent].type = t /\ l.parent \in DOMAIN entity
          /\ <<t, entity[i].type>> \in HasMany /\ l.parent \in ToInsert(t)
      BY <3>1 DEF Linked, RefInv, LinksJoin, ParentType
    <3>4. t \in Types /\ entity[i].type \in Types BY <3>3 DEF RefInv, EntitiesRefer, EntityGood
    <3>5. "fk" \in Cols[ents[i].type] BY <2>1, <3>3, <3>4, OneParent
    <3>6. k \in NewKeys(t) BY <1>1, <3>3 DEF BackfilledOk, NewKeys
    <3> HIDE DEF k
    <3>7. EntityGood(now[i], db) /\ now[i].type = ents[i].type /\ now[i].pk = ents[i].pk
          /\ now[i].cols.fk = k
      BY <2>1, <3>2, <3>5, EntityRelinked
    <3> QED BY <2>1, <2>2, <3>6, <3>7
  <2>3. CASE ~IsFixed(t, i)
    <3>1. now[i] = ents[i] BY <2>1, <2>3 DEF FixedUp, IsFixed
    <3> QED BY <2>1, <2>3, <3>1
  <2> QED BY <2>2, <2>3
<1> HIDE DEF now
<1>4. FixedOk(now, t) BY <1>2, <1>3 DEF FixedOk
<1> QED BY <1>4 DEF now, ents

\* Before its turn is over, the principals of a type are inserted.
LEMMA TurnHasLinks ==
    ASSUME RefInv, pc = "insert", NEW i \in DOMAIN entity, entity[i].type = Head(todo)
    PROVE  SetLink(i)
<1>1. result = "none" /\ Open BY DEF RefInv, Frame, Open
<1>2. Falls(todo) BY DEF RefInv, InOrder
<1>3. 1 \in DOMAIN todo /\ todo[1] = Head(todo) BY <1>2, HeadIsFirst DEF Falls
<1>4. ASSUME NEW l \in links, l.child = i PROVE IsSet(l)
  <2>1. <<ParentType(l), todo[1]>> \in HasMany
    BY <1>1, <1>3, <1>4 DEF RefInv, LinksJoin
  <2>2. ASSUME NEW n \in DOMAIN todo, todo[n] = ParentType(l) PROVE FALSE
    <3>1. n < 1 BY <1>2, <1>3, <2>1, <2>2 DEF Falls
    <3>2. todo \in Seq(Types) BY <1>2 DEF Falls, EachOnce
    <3> QED BY <3>1, <3>2
  <2> QED BY <2>2 DEF RefInv, LinksAreSet
<1> QED BY <1>4 DEF SetLink

LEMMA NewKeysAreKeys ==
    ASSUME nextId \in Nat, \A i \in DOMAIN entity : i \in Nat /\ i < nextId,
           NEW t, KeysOk(DOMAIN work[t])
    PROVE  KeysOk(NewKeys(t))
<1> DEFINE ids == ToInsert(t)
           f == [i \in ids |-> NextKey(work[t]) + Rank(i, ids)]
<1>1. ids \in SUBSET DOMAIN entity BY DEF ToInsert, In
<1>2. NextKey(work[t]) \in Nat \ {NoKey} BY NextKeyIsKey
<1>3. \A i \in ids : Rank(i, ids) \in Nat BY <1>1, RankIsNat
<1>4. \A i \in ids : NextKey(work[t]) + Rank(i, ids) \in Nat \ {NoKey}
  BY <1>2, <1>3 DEF NoKey
<1>5. IsFiniteSet(ids) BY <1>1, IdsFinite
<1>6. NewKeys(t) = {f[i] : i \in ids} BY DEF NewKeys
<1>7. DOMAIN f = ids OBVIOUS
<1>8. IsFiniteSet(NewKeys(t))
  <2> HIDE DEF f, ids
  <2> QED BY <1>5, <1>6, <1>7, ValuesFinite
<1> QED BY <1>4, <1>8 DEF KeysOk, NewKeys

InsertedOk(new, t) ==
    /\ TableOk(t, new) /\ DOMAIN new = DOMAIN work[t] \cup NewKeys(t)
    /\ \A k \in DOMAIN new : Refers(t, new[k], work)

LEMMA InsertedIs ==
    ASSUME RefSafe, RefInv, pc = "insert", NEW t \in Types, t = Head(todo)
    PROVE  LET ids   == ToInsert(t)
               ents  == Backfilled(t, ids)
           IN InsertedOk(Inserted(t, ids, ents, FixedUp(t, ents)), t)
<1> DEFINE ids   == ToInsert(t)
           ents  == Backfilled(t, ids)
           fixed == FixedUp(t, ents)
           keys  == {ents[i].pk : i \in ids}
           own   == {l.child : l \in {k \in Linked(t) : entity[k.child].type = t}}
           new   == Inserted(t, ids, ents, fixed)
           of(k) == CHOOSE i \in ids : ents[i].pk = k
<1>1. result = "none" /\ Open BY DEF RefInv, Frame, Open
<1>2. RowsOk(work) /\ RowsRefer(work) BY DEF RefInv, TablesRefer, Saving, Writes
<1>3. BackfilledOk(ents, t) BY <1>1, BackfilledIs
<1>4. ids \subseteq DOMAIN entity /\ \A i \in ids : entity[i].type = t BY DEF ToInsert, In
<1>5. keys = NewKeys(t)
  <2>1. \A i \in ids : ents[i].pk = NextKey(work[t]) + Rank(i, ids) BY <1>3, <1>4 DEF BackfilledOk
  <2> HIDE DEF ents
  <2> QED BY <2>1 DEF NewKeys
<1>6. own = {}
  <2>1. ASSUME NEW l \in Linked(t), entity[l.child].type = t PROVE FALSE
    <3>1. <<t, t>> \in HasMany BY <1>1, <2>1 DEF Linked, RefInv, LinksJoin, ParentType
    <3> QED BY <3>1, NoChainIs
  <2> QED BY <2>1
<1>7. new = [k \in DOMAIN work[t] \cup keys |->
                IF k \in keys THEN ents[of(k)].cols ELSE work[t][k]]
  <2> HIDE DEF ents, fixed, of
  <2>1. new = [k \in DOMAIN work[t] \cup keys |->
                  IF \E i \in own : fixed[i].pk = k
                  THEN IF k \in keys
                       THEN fixed[CHOOSE i \in ids : ents[i].pk = k].cols
                       ELSE [work[t][k] EXCEPT !.fk =
                                fixed[CHOOSE i \in own : fixed[i].pk = k].cols.fk]
                  ELSE IF k \in keys THEN ents[of(k)].cols
                       ELSE work[t][k]]
    BY DEF Inserted, of
  <2>2. \A k : ~\E i \in own : fixed[i].pk = k
    <3> HIDE DEF own
    <3> QED BY <1>6
  <2> HIDE DEF own, keys, new
  <2> QED BY <2>1, <2>2
<1>8. \A k \in keys : of(k) \in ids BY DEF keys
<1>9. ASSUME NEW i \in ids
      PROVE  DOMAIN ents[i].cols = Cols[t] /\ Refers(t, ents[i].cols, work)
  <2>1. ents[i].cols = entity[i].cols BY <1>3, <1>4 DEF BackfilledOk
  <2>2. SetLink(i) BY <1>4, TurnHasLinks
  <2> QED BY <1>4, <2>1, <2>2, SentRefers
<1>10. TableOk(t, work[t]) BY <1>2 DEF RowsOk
<1>11. \A k \in DOMAIN work[t] : Refers(t, work[t][k], work) BY <1>2 DEF RowsRefer
<1> HIDE DEF ids, ents, fixed, keys, own, new, of
<1>12. DOMAIN new = DOMAIN work[t] \cup keys
       /\ \A k \in DOMAIN new : \/ k \in keys /\ new[k] = ents[of(k)].cols
                                \/ k \in DOMAIN work[t] /\ new[k] = work[t][k]
  BY <1>7
<1>13. KeysOk(keys) BY <1>5, <1>10, NewKeysAreKeys DEF TableOk, RefInv, Frame
<1>14. TableOk(t, new)
  <2>1. IsFiniteSet(DOMAIN work[t] \cup keys) BY <1>10, <1>13, FS_Union DEF TableOk, KeysOk
  <2>2. KeysOk(DOMAIN new) BY <1>10, <1>12, <1>13, <2>1 DEF TableOk, KeysOk
  <2>3. \A k \in DOMAIN new : DOMAIN new[k] = Cols[t] BY <1>8, <1>9, <1>10, <1>12 DEF TableOk
  <2> QED BY <2>2, <2>3 DEF TableOk
<1>15. \A k \in DOMAIN new : Refers(t, new[k], work) BY <1>8, <1>9, <1>11, <1>12
<1>16. InsertedOk(new, t) BY <1>5, <1>12, <1>14, <1>15 DEF InsertedOk
<1> QED BY <1>16 DEF new, fixed, ents, ids

LEMMA RefOfInsert ==
    ASSUME RefSafe, RefInv, InsertAdded
    PROVE  RefInv'
<1> DEFINE t == Head(todo)
           ids == ToInsert(t)
           ents == Backfilled(t, ids)
           fixed == FixedUp(t, ents)
           new == Inserted(t, ids, ents, fixed)
<1>1. /\ pc = "insert" /\ Onward("upsert", InsertOrder)
      /\ work' = [work EXCEPT ![t] = new] /\ entity' = fixed
      /\ UNCHANGED <<tracker, nextId, db, links, directives, processed, result, others, policy>>
  BY DEF InsertAdded, dbvars
<1>2. result = "none" /\ Open /\ Open'
  BY <1>1 DEF RefInv, Frame, Open, Onward
<1>3. Falls(todo) /\ RowsOk(work) /\ RowsRefer(work)
  BY <1>1 DEF RefInv, InOrder, TablesRefer, Saving, Writes
<1>4. t \in Types /\ todo # <<>> /\ t = todo[1] /\ 1 \in DOMAIN todo
  BY <1>3, HeadIsFirst DEF Falls
<1>5. FixedOk(entity', t) BY <1>1, <1>2, FixedIs
<1>6. InsertedOk(new, t) BY <1>1, <1>4, InsertedIs
<1> HIDE DEF t, ids, ents, fixed, new
<1>7. /\ RowsOk(work') /\ RowsRefer(work')
      /\ \A u \in Types : DOMAIN work[u] \subseteq DOMAIN work'[u]
  BY <1>1, <1>3, <1>4, <1>6, TableGrows DEF InsertedOk
<1>8. NewKeys(t) \subseteq DOMAIN work'[t]
  <2>1. work'[t] = new BY <1>1, <1>3, <1>4 DEF RowsOk
  <2> QED BY <1>6, <2>1 DEF InsertedOk
<1>9. \/ pc' = "insert" /\ Len(todo) > 1 /\ todo' = Tail(todo)
      \/ pc' = "upsert" /\ ~(Len(todo) > 1) /\ todo' = InsertOrder
  BY <1>1 DEF Onward
<1>10. Frame' BY <1>1, <1>5, <1>9 DEF RefInv, Frame, Saving, Writes, FixedOk
<1>11. EntitiesRefer'
  <2>1. ASSUME NEW i \in DOMAIN entity', ~IsChild(i)
        PROVE  Refers(entity'[i].type, entity'[i].cols, db)
    <3>1. ~IsFixed(t, i) BY <2>1 DEF IsFixed, IsChild, Linked
    <3>2. i \in DOMAIN entity BY <1>5, <2>1 DEF FixedOk
    <3>3. Refers(entity[i].type, entity[i].cols, db)
      BY <1>2, <2>1, <3>2 DEF RefInv, EntitiesRefer
    <3> QED BY <1>5, <3>1, <3>2, <3>3 DEF FixedOk
  <2>2. \A i \in DOMAIN entity' : EntityGood(entity'[i], db) BY <1>5 DEF FixedOk
  <2> QED BY <1>1, <2>1, <2>2 DEF EntitiesRefer, IsChild
<1>12. \A l \in links : /\ l.parent \in DOMAIN entity /\ l.child \in DOMAIN entity
                        /\ <<ParentType(l), entity[l.child].type>> \in HasMany
                        /\ l.parent \in ToInsert(ParentType(l))
                        /\ ParentType(l)' = ParentType(l) /\ ParentType(l) \in Types
                        /\ entity'[l.child].type = entity[l.child].type
                        /\ entity[l.child].type \in Types
  <2> SUFFICES ASSUME NEW l \in links
               PROVE  /\ l.parent \in DOMAIN entity /\ l.child \in DOMAIN entity
                      /\ <<ParentType(l), entity[l.child].type>> \in HasMany
                      /\ l.parent \in ToInsert(ParentType(l))
                      /\ ParentType(l)' = ParentType(l) /\ ParentType(l) \in Types
                      /\ entity'[l.child].type = entity[l.child].type
                      /\ entity[l.child].type \in Types
    OBVIOUS
  <2>1. /\ l.parent \in DOMAIN entity /\ l.child \in DOMAIN entity
        /\ <<ParentType(l), entity[l.child].type>> \in HasMany
        /\ l.parent \in ToInsert(ParentType(l))
    BY <1>2 DEF RefInv, LinksJoin
  <2>2. ParentType(l) \in Types /\ entity[l.child].type \in Types
    BY <1>2, <2>1 DEF RefInv, EntitiesRefer, EntityGood, ParentType
  <2>3. entity'[l.parent].type = entity[l.parent].type
        /\ entity'[l.child].type = entity[l.child].type
    BY <1>5, <2>1 DEF FixedOk
  <2>4. ParentType(l)' = ParentType(l) BY <2>3 DEF ParentType
  <2> QED BY <2>1, <2>2, <2>3, <2>4
<1>13. LinksJoin'
  <2>1. ASSUME NEW u, NEW i \in ToInsert(u) PROVE i \in ToInsert(u)'
    BY <1>1, <1>5 DEF ToInsert, In, StateOf, IsUpsert, FixedOk
  <2>2. ASSUME NEW l \in links
        PROVE  /\ l.parent \in DOMAIN entity' /\ l.child \in DOMAIN entity'
               /\ <<ParentType(l)', entity'[l.child].type>> \in HasMany
               /\ l.parent \in ToInsert(ParentType(l))'
    <3>1. l.parent \in DOMAIN entity' /\ l.child \in DOMAIN entity'
      BY <1>5, <1>12 DEF FixedOk
    <3> QED BY <1>12, <2>1, <3>1
  <2> QED BY <1>1, <2>2 DEF LinksJoin, ParentType
<1>14. LinksAreSet'
  <2>1. ASSUME NEW l \in links, ParentType(l) = t PROVE IsSet(l)'
    <3>1. IsFixed(t, l.child) BY <1>12, <2>1 DEF IsFixed, Linked, ParentType
    <3>2. entity'[l.child].cols.fk \in NewKeys(t) BY <1>5, <1>12, <3>1 DEF FixedOk
    <3>3. ParentType(l)' = t BY <1>12, <2>1
    <3> QED BY <1>8, <3>2, <3>3 DEF IsSet, ParentType
  <2>2. ASSUME NEW l \in links, ParentType(l) # t, IsSet(l) PROVE IsSet(l)'
    <3>1. ~IsFixed(t, l.child)
      <4>1. SUFFICES ASSUME NEW m \in links, ParentType(m) = t, m.child = l.child PROVE FALSE
        BY DEF IsFixed, Linked, ParentType
      <4>2. <<t, entity[l.child].type>> \in HasMany
            /\ <<ParentType(l), entity[l.child].type>> \in HasMany
        BY <1>12, <4>1
      <4> QED BY <1>4, <1>12, <2>2, <4>2, ShapeAssumption
    <3>2. entity'[l.child].cols = entity[l.child].cols BY <1>5, <1>12, <3>1 DEF FixedOk
    <3>3. entity[l.child].cols.fk \in DOMAIN work[ParentType(l)] BY <2>2 DEF IsSet
    <3>4. entity'[l.child].cols.fk \in DOMAIN work'[ParentType(l)] BY <1>7, <1>12, <3>2, <3>3
    <3>5. ParentType(l)' = ParentType(l) BY <1>12
    <3> QED BY <3>4, <3>5 DEF IsSet
  <2>3. ASSUME NEW l \in links, \A n \in DOMAIN todo : n = 1 \/ todo[n] # ParentType(l)
        PROVE  IsSet(l)'
    <3>1. CASE ParentType(l) = t BY <2>1, <3>1
    <3>2. CASE ParentType(l) # t
      <4>1. \A n \in DOMAIN todo : todo[n] # ParentType(l) BY <1>4, <2>3, <3>2
      <4>2. IsSet(l) BY <1>1, <4>1 DEF RefInv, LinksAreSet
      <4> QED BY <2>2, <3>2, <4>2
    <3> QED BY <3>1, <3>2
  <2>4. ASSUME pc' = "insert", NEW l \in links, \A n \in DOMAIN todo' : todo'[n] # ParentType(l)
        PROVE  IsSet(l)'
    <3>1. \A n \in DOMAIN todo : n # 1 => \E m \in DOMAIN todo' : todo[n] = todo'[m]
      BY <1>3, <1>9, <2>4, TailIsEachOnce DEF Falls
    <3> QED BY <2>3, <2>4, <3>1
  <2>5. ASSUME pc' = "upsert", NEW l \in links PROVE IsSet(l)'
    <3>1. \A n \in DOMAIN todo : n = 1
      <4>1. todo \in Seq(Types) BY <1>3 DEF Falls, EachOnce
      <4> QED BY <1>9, <2>5, <4>1
    <3> QED BY <2>3, <3>1
  <2>6. \A l \in links : ParentType(l)' = ParentType(l) BY <1>12
  <2> QED BY <1>1, <1>9, <2>4, <2>5, <2>6 DEF LinksAreSet
<1>15. InOrder'
  <2>1. Falls(todo') BY <1>3, <1>9, TailFallsOrRises, OrderFalls
  <2> QED BY <1>9, <2>1 DEF InOrder
<1>16. \A i \in DOMAIN entity : StateOf(i) # "Added" \/ IsUpsert(i) =>
          entity'[i].pk = entity[i].pk /\ entity'[i].type = entity[i].type
  BY <1>5 DEF FixedOk, ToInsert
<1>17. DirectivesAreMade'
  <2>1. \A d \in directives : DirectiveOk(d) BY DEF RefInv, DirectivesAreMade
  <2>2. \A i \in DOMAIN entity : StateOf(i) = "Deleted" => DirectiveOf(i) \subseteq directives
    BY <1>1 DEF RefInv, DirectivesAreMade, Saving, Writes, Drains
  <2>3. ASSUME NEW i \in DOMAIN entity', StateOf(i)' = "Deleted"
        PROVE  DirectiveOf(i)' \subseteq directives
    <3>1. i \in DOMAIN entity /\ StateOf(i) = "Deleted" BY <1>1, <1>5, <2>3 DEF FixedOk, StateOf
    <3>2. entity'[i].pk = entity[i].pk /\ entity'[i].type = entity[i].type BY <1>16, <3>1
    <3>3. DirectiveOf(i)' = DirectiveOf(i) BY <1>1, <3>2 DEF DirectiveOf, OnDelete
    <3> QED BY <2>2, <3>1, <3>3
  <2> QED BY <1>1, <1>9, <2>1, <2>3 DEF DirectivesAreMade, DirectiveOk, OnDelete, Drains
<1>18. EntitiesAreStored' /\ UpsertsAreKeyed'
  <2>1. /\ EntriesOk(tracker) /\ \A i \in DOMAIN entity : Keyed(i)
        /\ "remove_added" \notin Calls => \A i \in DOMAIN entity : HasRow(i)
    BY <1>2 DEF RefInv, EntitiesAreStored, UpsertsAreKeyed
  <2>2. ASSUME NEW i \in DOMAIN entity'
        PROVE  Keyed(i)' /\ ("remove_added" \notin Calls => HasRow(i)')
    <3>1. i \in DOMAIN entity BY <1>5, <2>2 DEF FixedOk
    <3> QED BY <1>1, <1>16, <2>1, <3>1 DEF Keyed, HasRow, StateOf, IsUpsert
  <2> QED BY <1>1, <2>1, <2>2 DEF EntitiesAreStored, UpsertsAreKeyed
<1>19. TablesRefer'
  BY <1>1, <1>7, <1>9 DEF RefInv, TablesRefer, RowsOk, RowsRefer, Refers
<1>20. RowsStay' BY <1>1, <1>7, <1>9 DEF RefInv, RowsStay, Writes
<1> QED BY <1>10, <1>11, <1>13, <1>14, <1>15, <1>17, <1>18, <1>19, <1>20 DEF RefInv

(***************************************************************************)
(* The theorems.                                                           *)
(***************************************************************************)
LEMMA RefOfSteps ==
    ASSUME RefSafe, RefInv, [Next]_vars
    PROVE  RefInv'
<1>1. CASE CallStep BY <1>1, RefOfCalls
<1>2. CASE SaveStep
  <2>1. CASE StatementRefused BY <2>1, FailSaveKeeps DEF StatementRefused
  <2>2. CASE SaveFails BY <2>2, FailSaveKeeps DEF SaveFails, StatementFails
  <2> QED
    BY <1>2, <2>1, <2>2, RefOfBegin, RefOfDrainAdds, RefOfDrainDeletes, RefOfDone, RefOfInsert,
       RefOfUpsert, RefOfUpdate, RefOfSetNull, RefOfDelete, RefOfCascade, RefOfCommit
       DEF SaveStep
<1>3. CASE OtherWrites
  <2>1. others < 0 /\ others \in Nat BY <1>3 DEF OtherWrites, RefSafe, RefInv, Frame
  <2> QED BY <2>1
<1>4. CASE UNCHANGED vars
  <2>1. UNCHANGED <<tracker, entity, nextId, db, work, pc, todo, links, directives, processed,
                    result, policy, others>>
    BY <1>4 DEF vars
  <2>2. Frame' /\ InOrder' BY <2>1 DEF RefInv, Frame, InOrder
  <2>3. EntitiesRefer' BY <2>1 DEF RefInv, EntitiesRefer, IsChild, Open
  <2>4. LinksJoin' /\ LinksAreSet'
    BY <2>1 DEF RefInv, LinksJoin, LinksAreSet, IsSet, ParentType, ToInsert, In, StateOf,
                IsUpsert, Open
  <2>5. DirectivesAreMade'
    BY <2>1 DEF RefInv, DirectivesAreMade, DirectiveOk, DirectiveOf, StateOf, OnDelete
  <2>6. TablesRefer' /\ RowsStay'
    BY <2>1 DEF RefInv, TablesRefer, RowsStay, RowsOk, RowsRefer, Refers, Loose, Directs, OnDelete
  <2>7. EntitiesAreStored' /\ UpsertsAreKeyed'
    BY <2>1 DEF RefInv, EntitiesAreStored, HasRow, UpsertsAreKeyed, Keyed, Open
  <2> QED BY <2>2, <2>3, <2>4, <2>5, <2>6, <2>7 DEF RefInv
<1> QED BY <1>1, <1>2, <1>3, <1>4 DEF Next

LEMMA RefOfInit ==
    ASSUME Init
    PROVE  RefInv
<1>1. /\ tracker = EmptyTracker /\ DOMAIN entity = {} /\ nextId = 0 /\ db = Seeds
      /\ pc = "idle" /\ links = {} /\ directives = {} /\ processed = {}
      /\ result = "none" /\ others = 0 /\ policy \in Policies
  BY DEF Init
<1>2. Frame BY <1>1 DEF Frame, Saving, Drains, Writes
<1>3. EntitiesRefer /\ LinksJoin /\ EntitiesAreStored
  BY <1>1 DEF EntitiesRefer, LinksJoin, EntitiesAreStored
<1>4. LinksAreSet /\ InOrder /\ RowsStay /\ DirectivesAreMade
  BY <1>1 DEF LinksAreSet, InOrder, RowsStay, DirectivesAreMade, Saving, Drains, Writes
<1>5. UpsertsAreKeyed BY <1>1 DEF UpsertsAreKeyed, EntriesOk, EmptyTracker
<1>6. RowsOk(Seeds) BY RowsAssumption DEF RowsOk, TableOk, KeysOk
<1>7. RowsRefer(Seeds)
  <2>1. ASSUME NEW t \in Types, NEW k \in DOMAIN Seeds[t], NEW p \in Types, <<p, t>> \in HasMany
        PROVE  Seeds[t][k].fk \in {Null} \cup DOMAIN Seeds[p]
    <3>1. \A nav \in HasMany : \A j \in DOMAIN Seeds[nav[2]] :
             Seeds[nav[2]][j].fk \in {Null} \cup DOMAIN Seeds[nav[1]]
      BY RowsAssumption
    <3>2. <<p, t>>[2] = t /\ <<p, t>>[1] = p OBVIOUS
    <3> QED BY <2>1, <3>1, <3>2
  <2> QED BY <2>1 DEF RowsRefer, Refers
<1>8. TablesRefer BY <1>1, <1>6, <1>7 DEF TablesRefer, Saving, Drains, Writes
<1> QED BY <1>2, <1>3, <1>4, <1>5, <1>8 DEF RefInv

\* Whatever calls a unit of work consists of and whichever statement of a
\* save fails, the foreign keys of the committed rows name committed rows:
\* the order of the insertions, the fix-up of the keys and the cascades do
\* what the database is not asked to do.  Each condition of RefSafe is one
\* the code does not check.
THEOREM ReferencesStay ==
    RefSafe => (Spec => []ReferencesHold)
<1> SUFFICES ASSUME RefSafe PROVE Spec => []ReferencesHold OBVIOUS
<1>1. Init => RefInv BY RefOfInit
<1>2. RefInv /\ [Next]_vars => RefInv' BY RefOfSteps
<1>3. RefInv => ReferencesHold
  <2> SUFFICES ASSUME RefInv, NEW nav \in HasMany, NEW k \in DOMAIN db[nav[2]]
               PROVE  db[nav[2]][k].fk \in {Null} \cup DOMAIN db[nav[1]]
    BY DEF ReferencesHold
  <2>1. nav[1] \in Types /\ nav[2] \in Types /\ nav = <<nav[1], nav[2]>> BY ShapeAssumption
  <2> QED BY <2>1 DEF RefInv, TablesRefer, RowsRefer, Refers
<1> QED BY <1>1, <1>2, <1>3, PTL DEF Spec

(***************************************************************************)
(* What the database could refuse.                                         *)
(***************************************************************************)
LEMMA SentIsNotDangling ==
    ASSUME RefSafe, NEW t \in Types, NEW cols, Refers(t, cols, work), NEW rows,
           \A p \in Types : p # t => rows[p] = work[p]
    PROVE  ~Dangling(rows, t, cols)
<1> SUFFICES ASSUME NEW p \in Types, <<p, t>> \in HasMany, cols.fk \notin {Null} \cup DOMAIN rows[p]
             PROVE  FALSE
    BY DEF Dangling
<1>1. p # t BY NoChainIs
<1> QED BY <1>1 DEF Refers

LEMMA NothingIsRefused ==
    ASSUME RefSafe, RefInv, "remove_added" \notin Calls,
           \A p \in Policies : p.onDelete # "Restrict"
    PROVE  ~StatementRefused
<1> SUFFICES ASSUME StatementRefused PROVE FALSE OBVIOUS
<1> DEFINE t == Head(todo)
<1>1. pc \in {"insert", "upsert", "update", "delete"} BY DEF StatementRefused
<1>2. result = "none" /\ Open BY <1>1 DEF RefInv, Frame, Open
<1>3. RowsOk(work) /\ EachOnce(todo)
  BY <1>1 DEF RefInv, TablesRefer, InOrder, Falls, Rises, Saving, Writes
<1>4. t \in Types /\ t = todo[1] /\ 1 \in DOMAIN todo BY <1>3, HeadIsFirst
<1>5. DOMAIN db[t] \subseteq DOMAIN work[t]
  BY <1>1, <1>4 DEF RefInv, RowsStay, Writes, Drains
<1>6. ASSUME NEW i \in DOMAIN entity, StateOf(i) \in {"Modified", "Deleted"}, entity[i].type = t
      PROVE  entity[i].pk \in DOMAIN work[t]
  <2>1. HasRow(i) BY <1>2 DEF RefInv, EntitiesAreStored
  <2>2. i \in DOMAIN tracker /\ tracker[i].state # "Added" BY <1>6 DEF StateOf
  <2> QED BY <1>5, <1>6, <2>1, <2>2 DEF HasRow
<1>7. CASE pc = "insert"
  <2> DEFINE ids  == ToInsert(t)
             ents == Backfilled(t, ids)
             rows == [work EXCEPT ![t] = Inserted(t, ids, ents, FixedUp(t, ents))]
  <2>1. Refused(rows, t, ids) BY <1>7 DEF StatementRefused
  <2>2. \A p \in Types : p # t => rows[p] = work[p] BY <1>3 DEF RowsOk
  <2> HIDE DEF rows
  <2>3. PICK i \in ids : Dangling(rows, t, entity[i].cols) BY <2>1 DEF Refused
  <2>4. i \in DOMAIN entity /\ entity[i].type = t BY DEF ToInsert, In
  <2>5. SetLink(i) BY <1>7, <2>4, TurnHasLinks
  <2>6. Refers(t, entity[i].cols, work) BY <1>7, <2>4, <2>5, SentRefers
  <2> HIDE DEF t
  <2> QED BY <1>4, <2>2, <2>3, <2>6, SentIsNotDangling
<1>8. CASE pc = "upsert"
  <2>1. PICK i \in ToUpsert(t) : Dangling(work, t, entity[i].cols)
    BY <1>8 DEF StatementRefused, Refused
  <2>2. i \in DOMAIN entity /\ entity[i].type = t BY DEF ToUpsert, In
  <2>3. SetLink(i) BY <1>8 DEF RefInv, LinksAreSet, SetLink
  <2>4. Refers(t, entity[i].cols, work) BY <1>8, <2>2, <2>3, SentRefers
  <2> HIDE DEF t
  <2> QED BY <1>4, <2>1, <2>4, SentIsNotDangling
<1>9. CASE pc = "update"
  <2> DEFINE ids  == ToUpdate(t)
             rows == [work EXCEPT ![t] = Updated(t, ids)]
  <2>1. \/ ids # {} /\ Reached(t, ids) = {}
        \/ \E k \in Reached(t, ids) : Dangling(rows, t, rows[t][k])
    BY <1>9 DEF StatementRefused
  <2>2. ids # {} => Reached(t, ids) # {}
    BY <1>6 DEF ToUpdate, In, Reached
  <2>3. PICK k \in Reached(t, ids) : Dangling(rows, t, rows[t][k]) BY <2>1, <2>2
  <2>4. UpdatedOk(Updated(t, ids), t) BY <1>4, <1>9, UpdatedIs
  <2>5. rows[t] = Updated(t, ids) /\ \A p \in Types : p # t => rows[p] = work[p]
    BY <1>3, <1>4 DEF RowsOk
  <2>6. k \in DOMAIN work[t] BY DEF Reached
  <2> HIDE DEF rows, t
  <2>7. Refers(t, rows[t][k], work) BY <2>4, <2>5, <2>6 DEF UpdatedOk
  <2> QED BY <1>4, <2>3, <2>5, <2>7, SentIsNotDangling
<1>10. CASE pc = "delete"
  <2> DEFINE ids == ToDelete(t)
  <2>1. (ids # {} /\ Reached(t, ids) = {}) \/ Restricted(t, Reached(t, ids))
    BY <1>10 DEF StatementRefused
  <2>2. ids # {} => Reached(t, ids) # {}
    BY <1>6 DEF ToDelete, In, Reached
  <2>3. ~Restricted(t, Reached(t, ids)) BY DEF Restricted, OnDelete, RefInv, Frame
  <2> QED BY <2>1, <2>2, <2>3
<1> QED BY <1>1, <1>7, <1>8, <1>9, <1>10

CauseInv == RefInv /\ FailuresHaveACause

LEMMA CauseOfSteps ==
    ASSUME RefSafe, CauseInv, "remove_added" \notin Calls,
           \A p \in Policies : p.onDelete # "Restrict", [Next]_vars
    PROVE  FailuresHaveACause'
<1>1. RefInv /\ FailuresHaveACause BY DEF CauseInv
<1>2. ASSUME UNCHANGED <<result, faulted>> \/ result' \in {"none", "ok"} \/ faulted'
      PROVE  FailuresHaveACause'
  BY <1>1, <1>2 DEF FailuresHaveACause
<1>3. CASE CallStep
  <2>1. result' = "none"
    BY <1>3 DEF CallStep, Call, Add, AddOver, Attach, AttachIncluded, Update, Upsert, RemoveAll,
                LoadAll, Retain, Edit, RemoveAt, DetachEntry, RejectAll, DetectNow, ClearTracking
  <2> QED BY <1>2, <2>1
<1>4. CASE SaveStep
  <2>1. ~StatementRefused BY <1>1, NothingIsRefused
  <2>2. CASE SaveBegin BY <1>2, <2>2 DEF SaveBegin, Fault
  <2>3. CASE DrainAdds \/ DrainAddsDone \/ DrainDeletes \/ DrainDeletesDone
    BY <1>2, <2>3 DEF DrainAdds, DrainAddsDone, DrainDeletes, DrainDeletesDone
  <2>4. CASE InsertAdded \/ UpsertAdded \/ UpdateModified \/ DeleteDeleted
    BY <1>2, <2>4 DEF InsertAdded, UpsertAdded, UpdateModified, DeleteDeleted, NoFault
  <2>5. CASE SetNullDirectives \/ CascadeDirectives
    BY <1>2, <2>5 DEF SetNullDirectives, CascadeDirectives, NoFault
  <2>6. CASE SaveFails
    BY <1>2, <2>6 DEF SaveFails, StatementFails, Fault
  <2>7. CASE Commit BY <1>2, <2>7 DEF Commit, NoFault
  <2>8. CASE Accept BY <1>2, <2>8 DEF Accept, SaveReturns, NoFault, Fault
  <2> QED BY <1>4, <2>1, <2>2, <2>3, <2>4, <2>5, <2>6, <2>7, <2>8 DEF SaveStep
<1>5. CASE OtherWrites BY <1>2, <1>5 DEF OtherWrites
<1>6. CASE UNCHANGED vars BY <1>2, <1>6 DEF vars
<1> QED BY <1>3, <1>4, <1>5, <1>6 DEF Next

\* A save fails only when something failed: the database has no reason to
\* refuse a statement and no statement misses its rows, if what was never
\* saved is not removed and no deletion is restricted.
THEOREM FailuresAreCaused ==
    /\ RefSafe /\ "remove_added" \notin Calls
    /\ \A p \in Policies : p.onDelete # "Restrict"
    => (Spec => []FailuresHaveACause)
<1> SUFFICES ASSUME RefSafe, "remove_added" \notin Calls,
                    \A p \in Policies : p.onDelete # "Restrict"
             PROVE  Spec => []FailuresHaveACause
    OBVIOUS
<1>1. Init => CauseInv BY RefOfInit DEF Init, CauseInv, FailuresHaveACause
<1>2. CauseInv /\ [Next]_vars => CauseInv' BY RefOfSteps, CauseOfSteps DEF CauseInv
<1>3. CauseInv => FailuresHaveACause BY DEF CauseInv
<1> QED BY <1>1, <1>2, <1>3, PTL DEF Spec
=============================================================================
