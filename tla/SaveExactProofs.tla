-------------------------- MODULE SaveExactProofs --------------------------
(***************************************************************************)
(* Why a commit of save_changes is the unit of work and nothing else, and  *)
(* why what was saved is stored: detection, keys that are the entity's     *)
(* alone, and one statement for each phase and type, for any calls and     *)
(* failures of a context whose types do not refer to each other.           *)
(***************************************************************************)
EXTENDS SaveChangesProofs

(***************************************************************************)
(* The conditions and the invariant.                                       *)
(***************************************************************************)
\* No navigations; columns are edited in a context of one type, whose updates
\* are the detected ones, and not after a failed save; what a failed save
\* inserted is not removed.
ExactSafe ==
    /\ HasMany = {}
    /\ "edit" \in Calls => /\ OneType /\ AfterFailure # "anything"
                           /\ Calls \cap {"update", "detect"} = {}
    /\ "remove_added" \in Calls => AfterFailure # "anything"

\* The key that the database assigns to a new entity is not the one the caller
\* chose for another one, of which the database knows nothing yet.
KeysApart ==
    \A i, j \in In(Head(todo)) :
        others = 0 /\ pc = "insert" /\ i \in ToInsert(Head(todo)) /\ IsUpsert(j) =>
            NextKey(work[Head(todo)]) + Rank(i, ToInsert(Head(todo))) # entity[j].pk

Live == DOMAIN entity \cap DOMAIN tracker

\* An entity whose key the database assigns when it is inserted.
Assigned(e) == e.state = "Added" /\ ~e.upsert
Fresh(i) == Assigned(tracker[i])

\* The statement of the phase was sent for type t.
ToCome(t) == \E n \in DOMAIN todo : todo[n] = t
Finished == {"prune", "commit"}
InsDone(t) == \/ pc = "insert" /\ ~ToCome(t)
              \/ pc \in {"upsert", "update", "set_null", "delete", "accept"} \cup Finished
UpsDone(t) == \/ pc = "upsert" /\ ~ToCome(t)
              \/ pc \in {"update", "set_null", "delete"} \cup Finished
UpdDone(t) == \/ pc = "update" /\ ~ToCome(t)
              \/ pc \in {"set_null", "delete"} \cup Finished
DelDone(t) == (pc = "delete" /\ ~ToCome(t)) \/ pc \in Finished

Given(i) == i \in Live /\ (Fresh(i) => InsDone(entity[i].type))

IsRow(t, cols) == cols = [c \in Cols[t] |-> cols[c]]
RowsAre(rows) == RowsOk(rows) /\ \A t \in Types : \A k \in DOMAIN rows[t] : IsRow(t, rows[t][k])

EntityPlain(x) ==
    /\ x = [type |-> x.type, pk |-> x.pk, cols |-> x.cols, kids |-> {}]
    /\ x.type \in Types /\ x.pk \in Nat /\ IsRow(x.type, x.cols)

Plain ==
    /\ links = {} /\ directives = {}
    /\ nextId \in Nat /\ \A i \in DOMAIN entity : i \in Nat /\ i < nextId
    /\ EntriesOk(tracker) /\ \A i \in DOMAIN entity : EntityPlain(entity[i])
    /\ RowsAre(db)

Has(x) == x.pk \in DOMAIN db[x.type]
Row(x) == db[x.type][x.pk]

\* What is known of the entry e of entity x until a save is accepted: where its
\* row is, and that its original is the row if anything is edited.
EntryGood(e, x) ==
    /\ e.state = "Added" => e.original = NoSnapshot /\ (e.upsert => x.pk # NoKey)
    /\ Assigned(e) \/ x.pk = NoKey \/ Has(x) \/ e.upsert
    /\ e.original # NoSnapshot \/ e.state = "Modified" => Has(x)
    /\ "upsert" \notin Calls => ~e.upsert
    /\ "add" \notin Calls => ~Assigned(e)
    /\ "edit" \notin Calls => e.original \in {NoSnapshot, x.cols} /\ e.mods = {}
    /\ "edit" \in Calls =>
          /\ e.original # NoSnapshot => e.original = Row(x)
          /\ e.state = "Modified" => e.original # NoSnapshot /\ e.mods = Differing(x.cols, e.original)
Entries == pc # "accept" => \A i \in Live : EntryGood(tracker[i], entity[i])

\* Between calls, unless a save failed.
Calm(e, x) ==
    /\ "edit" \in Calls => e.state # "Modified"
    /\ "remove_added" \in Calls /\ Assigned(e) => x.pk = NoKey
Calms == pc = "idle" /\ result # "failed" => \A i \in Live : Calm(tracker[i], entity[i])

KeysDiffer ==
    \A i, j \in DOMAIN entity :
        /\ Given(i) /\ Given(j) /\ entity[i].type = entity[j].type
        /\ entity[i].pk = entity[j].pk /\ entity[i].pk # NoKey
        => i = j

\* A save knows every edit.
Detected(e, x) == e.state = "Unchanged" /\ e.original # NoSnapshot => x.cols = e.original
AllDetected ==
    pc \in Saving /\ "edit" \in Calls => \A i \in Live : Detected(tracker[i], entity[i])

Turns ==
    /\ pc \in Drains => work = db
    /\ pc \in Writes \cup {"delete"} => EachOnce(todo)
    /\ pc = "set_null" => \A t \in Types : ToCome(t)
    /\ pc = "accept" => todo # <<>> /\ todo \in Seq(Types) /\ (OneType => Len(todo) = 1)

\* The rows of the transaction: what the statements sent so far make of the
\* committed ones.
DoneIds(t) ==
    {i \in In(t) : /\ i \in Live
                   /\ \/ Fresh(i) /\ InsDone(t)
                      \/ tracker[i].state = "Added" /\ tracker[i].upsert /\ UpsDone(t)
                      \/ tracker[i].state = "Modified" /\ UpdDone(t)}
GoneIds(t) == {i \in ToDelete(t) : DelDone(t)}
Pks(ids) == {entity[i].pk : i \in ids}
WorkOf(t) ==
    /\ DOMAIN work[t] = (DOMAIN db[t] \cup Pks(DoneIds(t))) \ Pks(GoneIds(t))
    /\ \A i \in DoneIds(t) :
          entity[i].pk \in DOMAIN work[t] /\ work[t][entity[i].pk] = entity[i].cols
    /\ \A k \in DOMAIN db[t] \ (Pks(DoneIds(t)) \cup Pks(GoneIds(t))) : work[t][k] = db[t][k]
WorkIs == pc \in Saving => RowsAre(work) /\ \A t \in Types : WorkOf(t)

\* After the commit.
Stored(e, x) ==
    e.state # "Deleted" =>
        /\ x.pk = NoKey \/ Has(x) \/ e.upsert
        /\ e.original # NoSnapshot => Has(x)
        /\ e.state \in {"Added", "Modified"} => Has(x) /\ Row(x) = x.cols
        /\ "upsert" \notin Calls => ~e.upsert
        /\ "edit" \notin Calls => e.original \in {NoSnapshot, x.cols} /\ e.mods = {}
        /\ "edit" \in Calls /\ e.state \notin PendingStates /\ e.original # NoSnapshot =>
              e.original = Row(x)
AllStored == pc = "accept" => \A i \in Live : Stored(tracker[i], entity[i])

Exact == /\ Plain /\ Entries /\ Calms /\ KeysDiffer /\ AllDetected /\ Turns /\ WorkIs
         /\ AllStored

ExactInv == others \in Nat /\ (others = 0 => Exact)


(***************************************************************************)
(* Calls.                                                                  *)
(***************************************************************************)
Alone(i, j) ==
    /\ ~Fresh(i) /\ ~Fresh(j) /\ entity[i].type = entity[j].type
    /\ entity[i].pk = entity[j].pk /\ entity[i].pk # NoKey
    => i = j

\* Between calls.
Tame ==
    /\ nextId \in Nat /\ EntriesOk(tracker)
    /\ \A i \in DOMAIN entity : i \in Nat /\ i < nextId /\ EntityPlain(entity[i])
    /\ \A i \in Live : EntryGood(tracker[i], entity[i]) /\ Calm(tracker[i], entity[i])
    /\ \A i, j \in Live : Alone(i, j)

LEMMA IdleIsTame ==
    ASSUME ExactSafe, Exact, Allowed
    PROVE  Tame
<1>1. pc = "idle" /\ (result = "failed" => AfterFailure = "anything") BY DEF Allowed
<1>2. \A i \in Live : EntryGood(tracker[i], entity[i]) BY <1>1 DEF Exact, Entries
<1>3. \A i \in Live : Calm(tracker[i], entity[i])
  BY <1>1 DEF Exact, Calms, Calm, ExactSafe
<1>4. \A i \in Live : ~Fresh(i) => i \in DOMAIN entity /\ Given(i) BY DEF Live, Given
<1>5. \A i, j \in Live : Alone(i, j)
  BY <1>4 DEF Exact, KeysDiffer, Alone
<1> QED BY <1>2, <1>3, <1>5 DEF Exact, Plain, Tame

LEMMA TameIsExact ==
    ASSUME Exact, Tame', pc' = "idle", UNCHANGED <<db, links, directives>>
    PROVE  Exact'
<1>1. Plain' BY DEF Exact, Plain, Tame, RowsAre, RowsOk
<1>2. Entries' /\ Calms' BY DEF Entries, Calms, Tame
<1>3. \A t : ~InsDone(t)' BY DEF InsDone, Finished
<1>4. KeysDiffer'
  BY <1>3 DEF KeysDiffer, Tame, Alone, Given
<1>5. AllDetected' /\ Turns' /\ WorkIs' /\ AllStored'
  BY DEF AllDetected, Turns, WorkIs, AllStored, Saving, Drains, Writes
<1> QED BY <1>1, <1>2, <1>4, <1>5 DEF Exact

\* What a call may track.
MayTrack(t, pk, cols, state, original, upsert) ==
    /\ pk \in Nat /\ IsRow(t, cols)
    /\ state = "Added" /\ ~upsert => pk = NoKey
    /\ state = "Added" => original = NoSnapshot /\ (upsert => pk # NoKey)
    /\ state = "Added" \/ pk \in DOMAIN db[t]
    /\ pk = NoKey \/ pk \notin Held(t)
    /\ upsert => state = "Added" /\ "upsert" \in Calls
    /\ upsert \/ state # "Added" \/ "add" \in Calls
    /\ "edit" \notin Calls => original \in {NoSnapshot, cols}
    /\ "edit" \in Calls => /\ state # "Modified"
                           /\ original # NoSnapshot => original = db[t][pk]
    /\ state \in {"Added", "Unchanged", "Modified"} /\ upsert \in BOOLEAN

LEMMA PushIsTame ==
    ASSUME Tame, db' = db, NEW t \in Types, NEW pk, NEW cols, NEW state, NEW original,
           NEW upsert, MayTrack(t, pk, cols, state, original, upsert),
           Push(t, pk, cols, {}, state, original, upsert)
    PROVE  Tame'
<1> DEFINE x == [type |-> t, pk |-> pk, cols |-> cols, kids |-> {}]
           e == [type |-> t, state |-> state, original |-> original, mods |-> {}, upsert |-> upsert]
<1>1. entity' = Put(entity, nextId, x) /\ nextId' = nextId + 1
      /\ tracker' = Put(tracker, nextId, e)
  BY DEF Push, Track
<1>2. EntityPlain(x) BY DEF EntityPlain, MayTrack
<1>5. x.type = t /\ x.pk = pk /\ x.cols = cols /\ e.state = state /\ e.upsert = upsert
      /\ e.original = original /\ e.mods = {}
  OBVIOUS
<1>6. EntryOk(e) BY DEF EntryOk
<1> HIDE DEF x, e
<1>3. EntryGood(e, x)
  <2>1. Has(x) = (pk \in DOMAIN db[t]) /\ Row(x) = db[t][pk] BY <1>5 DEF Has, Row
  <2>2. Assigned(e) <=> state = "Added" /\ ~upsert BY <1>5 DEF Assigned
  <2> QED BY <1>5, <2>1, <2>2 DEF EntryGood, MayTrack
<1>4. Calm(e, x)
  <2>1. Assigned(e) <=> state = "Added" /\ ~upsert BY <1>5 DEF Assigned
  <2> QED BY <1>5, <2>1 DEF Calm, MayTrack
<1>7. DOMAIN entity' = DOMAIN entity \cup {nextId} /\ entity'[nextId] = x
      /\ \A i \in DOMAIN entity : i # nextId => entity'[i] = entity[i]
  BY <1>1 DEF Put
<1>8. DOMAIN tracker' = DOMAIN tracker \cup {nextId} /\ tracker'[nextId] = e
      /\ \A i \in DOMAIN tracker : i # nextId => tracker'[i] = tracker[i]
  BY <1>1 DEF Put
<1>9. nextId \in Nat /\ nextId \notin DOMAIN entity BY DEF Tame
<1>10. EntriesOk(tracker') BY <1>6, <1>8 DEF Tame, EntriesOk
<1>11. \A i \in DOMAIN entity' : i \in Nat /\ i < nextId' /\ EntityPlain(entity'[i])
  BY <1>1, <1>2, <1>7, <1>9 DEF Tame
<1>12. \A i \in Live' : i = nextId \/ (i # nextId /\ i \in Live)
  BY <1>7, <1>8, <1>9 DEF Live
<1>13. \A i \in Live : i # nextId /\ entity'[i] = entity[i] /\ tracker'[i] = tracker[i]
  BY <1>7, <1>8, <1>9 DEF Live
<1>14. \A i \in Live' : EntryGood(tracker[i], entity[i])' /\ Calm(tracker'[i], entity'[i])
  <2>1. \A i \in Live : EntryGood(tracker[i], entity[i])' /\ Calm(tracker'[i], entity'[i])
    BY <1>13 DEF Tame, EntryGood, Has, Row
  <2>2. ASSUME NEW i \in Live', i = nextId
        PROVE  EntryGood(tracker[i], entity[i])' /\ Calm(tracker'[i], entity'[i])
    <3>1. tracker'[i] = e /\ entity'[i] = x BY <1>7, <1>8, <2>2
    <3> QED BY <1>3, <1>4, <3>1 DEF EntryGood, Has, Row
  <2> QED BY <1>12, <2>1, <2>2
<1>15. \A i \in Live : entity[i].type = t => entity[i].pk \in Held(t)
  BY DEF Live, Held, In
<1>16. ~Assigned(e) => pk = NoKey \/ pk \notin Held(t)
  BY DEF MayTrack
<1>17. \A i, j \in Live' : Alone(i, j)'
  <2> SUFFICES ASSUME NEW i \in Live', NEW j \in Live', ~Fresh(i)', ~Fresh(j)',
                      entity'[i].type = entity'[j].type, entity'[i].pk = entity'[j].pk,
                      entity'[i].pk # NoKey
               PROVE  i = j
    BY DEF Alone
  <2>1. CASE i \in Live /\ j \in Live
    BY <1>13, <2>1 DEF Tame, Alone, Fresh
  <2>2. CASE i = nextId /\ j \in Live
    BY <1>5, <1>7, <1>13, <1>15, <1>16, <1>8, <2>2 DEF Fresh
  <2>3. CASE i \in Live /\ j = nextId
    BY <1>5, <1>7, <1>13, <1>15, <1>16, <1>8, <2>3 DEF Fresh
  <2> QED BY <1>12, <2>1, <2>2, <2>3
<1> QED BY <1>1, <1>9, <1>10, <1>11, <1>14, <1>17 DEF Tame

LEMMA NoChildren ==
    ASSUME ExactSafe
    PROVE  \A t : ~HasChildren(t) /\ ParentKeys(t) = {}
BY DEF ExactSafe, HasChildren, ParentKeys

LEMMA ColumnsAreRow ==
    ASSUME NEW t \in Types, NEW cols \in Columns(t)
    PROVE  IsRow(t, cols)
BY DEF Columns, IsRow

LEMMA PushesAreTame ==
    ASSUME ExactSafe, Tame, RowsAre(db), db' = db, NEW t \in Types,
           Add(t) \/ AddOver(t) \/ Attach(t) \/ AttachIncluded(t) \/ Update(t) \/ Upsert(t)
    PROVE  Tame'
<1>1. DOMAIN db[t] \subseteq Nat \ {NoKey} /\ \A k \in DOMAIN db[t] : IsRow(t, db[t][k])
  BY DEF RowsAre, RowsOk, TableOk, KeysOk
<1>2. NoKey \in Nat BY DEF NoKey
<1>3. CASE Add(t)
  <2>1. PICK cols \in Columns(t) : Push(t, NoKey, cols, {}, "Added", NoSnapshot, FALSE)
    BY <1>3, NoChildren DEF Add
  <2>2. "add" \in Calls BY <1>3 DEF Add, Call
  <2>3. MayTrack(t, NoKey, cols, "Added", NoSnapshot, FALSE)
    BY <1>2, <2>2, ColumnsAreRow DEF MayTrack
  <2> QED BY <2>1, <2>3, PushIsTame
<1>4. CASE Attach(t)
  <2>1. PICK k \in Untracked(t) : Push(t, k, db[t][k], {}, "Unchanged", db[t][k], FALSE)
    BY <1>4 DEF Attach
  <2>2. k \in DOMAIN db[t] /\ k \notin Held(t) BY DEF Untracked
  <2>3. MayTrack(t, k, db[t][k], "Unchanged", db[t][k], FALSE)
    BY <1>1, <2>2 DEF MayTrack
  <2> QED BY <2>1, <2>3, PushIsTame
<1>5. CASE Update(t)
  <2>1. PICK k \in Untracked(t), cols \in Columns(t) :
             Push(t, k, cols, {}, "Modified", NoSnapshot, FALSE)
    BY <1>5 DEF Update
  <2>2. k \in DOMAIN db[t] /\ k \notin Held(t) BY DEF Untracked
  <2>3. "edit" \notin Calls BY <1>5 DEF Update, Call, ExactSafe
  <2>4. MayTrack(t, k, cols, "Modified", NoSnapshot, FALSE)
    BY <1>1, <2>2, <2>3, ColumnsAreRow DEF MayTrack
  <2> QED BY <2>1, <2>4, PushIsTame
<1>6. CASE Upsert(t)
  <2>1. PICK k \in UpsertKeys \ Held(t), cols \in Columns(t) :
             Push(t, k, cols, {}, "Added", NoSnapshot, TRUE)
    BY <1>6 DEF Upsert
  <2>2. k \in Nat \ {NoKey} BY RowsAssumption
  <2>3. "upsert" \in Calls BY <1>6 DEF Upsert, Call
  <2>4. MayTrack(t, k, cols, "Added", NoSnapshot, TRUE)
    BY <2>2, <2>3, ColumnsAreRow DEF MayTrack
  <2> QED BY <2>1, <2>4, PushIsTame
<1> QED BY <1>3, <1>4, <1>5, <1>6, NoChildren DEF AddOver, AttachIncluded

\* The entities stay, and each entry that is left is one that EntryGood and
\* Calm allow, of an entity that was given its key before or has none.
LEMMA EntriesAreTame ==
    ASSUME Tame, UNCHANGED <<entity, nextId, db>>, EntriesOk(tracker'),
           \A i \in Live' : i \in Live /\ EntryGood(tracker'[i], entity[i])
                                       /\ Calm(tracker'[i], entity[i]),
           \A i \in Live' : Fresh(i) => Fresh(i)' \/ entity[i].pk = NoKey
    PROVE  Tame'
<1>1. \A i \in Live' : EntryGood(tracker[i], entity[i])' /\ Calm(tracker[i], entity[i])'
  BY DEF EntryGood, Has, Row
<1>2. \A i, j \in Live' : Alone(i, j)'
  BY DEF Tame, Alone
<1> QED BY <1>1, <1>2 DEF Tame

LEMMA RemovesAreTame ==
    ASSUME Tame, UNCHANGED <<entity, nextId, db>>, NEW ids,
           \A i \in ids : MayRemove(i), tracker' = SetState(tracker, ids, "Deleted")
    PROVE  Tame'
<1>1. EntriesOk(tracker) BY DEF Tame
<1>2. EntriesOk(tracker') /\ DOMAIN tracker' = DOMAIN tracker BY <1>1, SetStateIsOk
<1>3. ASSUME NEW i \in Live'
      PROVE  /\ i \in Live /\ EntryGood(tracker'[i], entity[i]) /\ Calm(tracker'[i], entity[i])
             /\ Fresh(i) => Fresh(i)' \/ entity[i].pk = NoKey
  <2>1. i \in Live /\ i \in DOMAIN tracker /\ EntryOk(tracker[i]) BY <1>1, <1>2 DEF Live, EntriesOk
  <2>2. EntryGood(tracker[i], entity[i]) /\ Calm(tracker[i], entity[i]) BY <2>1 DEF Tame
  <2>3. CASE i \notin ids
    BY <2>1, <2>2, <2>3 DEF SetState, Fresh
  <2>4. CASE i \in ids
    <3> DEFINE e == tracker[i]
    <3>1. tracker'[i] = [e EXCEPT !.state = "Deleted"] BY <2>1, <2>4 DEF SetState
    <3>2. /\ tracker'[i].state = "Deleted" /\ tracker'[i].original = e.original
          /\ tracker'[i].mods = e.mods /\ tracker'[i].upsert = e.upsert
      BY <2>1, <3>1 DEF EntryOk
    <3>3. e.state = "Added" => "remove_added" \in Calls BY <2>1, <2>4 DEF MayRemove, StateOf
    <3>4. Assigned(e) => entity[i].pk = NoKey BY <2>2, <3>3 DEF Calm, Assigned
    <3> HIDE DEF e
    <3>5. ~Assigned(tracker'[i]) BY <3>2 DEF Assigned
    <3>6. EntryGood(e, entity[i]) BY <2>2 DEF e
    <3>7. EntryGood(tracker'[i], entity[i])
      BY <3>2, <3>4, <3>5, <3>6 DEF EntryGood
    <3>8. Calm(tracker'[i], entity[i]) BY <3>2, <3>5 DEF Calm
    <3> QED BY <2>1, <3>4, <3>7, <3>8 DEF Fresh, e
  <2> QED BY <2>3, <2>4
<1> QED BY <1>2, <1>3, EntriesAreTame

LEMMA NothingDiffers ==
    ASSUME NEW t, NEW cols, NEW original, IsRow(t, cols), IsRow(t, original),
           Differing(cols, original) = {}
    PROVE  cols = original
BY DEF IsRow, Differing

\* Detection finds what was edited, and nothing where nothing is edited.
LEMMA DetectIsGood ==
    ASSUME RowsAre(db), EntriesOk(tracker), NEW i \in Live, EntityPlain(entity[i]),
           EntryGood(tracker[i], entity[i]),
           NEW now, now = DetectChanges(tracker, Snapshots(DOMAIN entity))
    PROVE  /\ EntryGood(now[i], entity[i]) /\ Detected(now[i], entity[i])
           /\ Assigned(now[i]) <=> Assigned(tracker[i])
           /\ now[i].state = "Added" <=> tracker[i].state = "Added"
           /\ now[i].state = "Modified" => tracker[i].state = "Modified" \/ "edit" \in Calls
<1> DEFINE e == tracker[i]
           x == entity[i]
           changed == Differing(x.cols, e.original)
           found == e.state = "Unchanged" /\ e.original # NoSnapshot
<1>1. i \in DOMAIN tracker /\ i \in DOMAIN entity /\ EntryOk(e) BY DEF Live, EntriesOk
<1>2. ~found => now[i] = e BY <1>1 DEF DetectChanges
<1>3. found => now[i] = [e EXCEPT !.state = IF changed = {} THEN @ ELSE "Modified", !.mods = changed]
  BY <1>1 DEF DetectChanges, Snapshots
<1>4. found => /\ now[i].state = (IF changed = {} THEN "Unchanged" ELSE "Modified")
               /\ now[i].mods = changed /\ now[i].original = e.original /\ now[i].upsert = e.upsert
  BY <1>1, <1>3 DEF EntryOk
<1>5. CASE ~found
  BY <1>2, <1>5 DEF Detected
<1>6. CASE found
  <2>1. Has(x) BY <1>6 DEF EntryGood
  <2>2. IsRow(x.type, Row(x)) BY <2>1 DEF EntityPlain, RowsAre, Has, Row
  <2>3. "edit" \in Calls => e.original = Row(x) BY <1>6 DEF EntryGood
  <2>4. "edit" \notin Calls => e.original = x.cols BY <1>6 DEF EntryGood
  <2>5. IsRow(x.type, x.cols) BY DEF EntityPlain
  <2>6. changed = {} => x.cols = e.original
    BY <2>2, <2>3, <2>4, <2>5, NothingDiffers
  <2>7. "edit" \notin Calls => changed = {} BY <2>4 DEF Differing
  <2>8. EntryGood(e, x) OBVIOUS
  <2>9. e.state = "Unchanged" /\ e.original # NoSnapshot BY <1>6
  <2> HIDE DEF e, x, found
  <2>10. ~Assigned(e) /\ ~Assigned(now[i]) BY <1>4, <1>6, <2>9 DEF Assigned
  <2>11. /\ now[i].state \in {"Unchanged", "Modified"} /\ now[i].original = e.original
         /\ now[i].mods = changed /\ now[i].upsert = e.upsert
         /\ now[i].state = "Modified" => "edit" \in Calls
    BY <1>4, <1>6, <2>7
  <2>12. EntryGood(now[i], x)
    BY <2>1, <2>7, <2>8, <2>9, <2>10, <2>11 DEF EntryGood
  <2>13. Detected(now[i], x) BY <1>4, <1>6, <2>6 DEF Detected
  <2> QED BY <2>9, <2>10, <2>11, <2>12, <2>13 DEF e, x
<1> QED BY <1>5, <1>6

LEMMA DetectIsTame ==
    ASSUME ExactSafe, Tame, RowsAre(db), db' = db, DetectNow
    PROVE  Tame'
<1>1. "edit" \notin Calls BY DEF ExactSafe, DetectNow, Call
<1>2. EntriesOk(tracker) /\ UNCHANGED <<entity, nextId>>
      /\ tracker' = DetectChanges(tracker, Snapshots(DOMAIN entity))
  BY DEF Tame, DetectNow
<1>3. EntriesOk(tracker') /\ DOMAIN tracker' = DOMAIN tracker BY <1>2, DetectIsOk
<1>4. ASSUME NEW i \in Live'
      PROVE  /\ i \in Live /\ EntryGood(tracker'[i], entity[i]) /\ Calm(tracker'[i], entity[i])
             /\ Fresh(i) => Fresh(i)'
  <2>1. i \in Live BY <1>2, <1>3 DEF Live
  <2>2. EntityPlain(entity[i]) /\ EntryGood(tracker[i], entity[i]) /\ Calm(tracker[i], entity[i])
    BY <2>1 DEF Tame, Live
  <2>3. EntryGood(tracker'[i], entity[i]) /\ (Assigned(tracker'[i]) <=> Assigned(tracker[i]))
    BY <1>2, <2>1, <2>2, DetectIsGood
  <2>4. Calm(tracker'[i], entity[i]) BY <1>1, <2>2, <2>3 DEF Calm
  <2> QED BY <2>1, <2>3, <2>4 DEF Fresh
<1> QED BY <1>2, <1>3, <1>4, EntriesAreTame

LEMMA RejectIsTame ==
    ASSUME Tame, db' = db, RejectAll
    PROVE  Tame'
<1>1. EntriesOk(tracker) /\ UNCHANGED <<entity, nextId>> /\ tracker' = RejectAllChanges(tracker)
  BY DEF Tame, RejectAll
<1>2. EntriesOk(tracker') BY <1>1, RejectIsOk
<1>3. ASSUME NEW i \in Live'
      PROVE  /\ i \in Live /\ EntryGood(tracker'[i], entity[i]) /\ Calm(tracker'[i], entity[i])
             /\ ~Fresh(i)
  <2> DEFINE e == tracker[i]
  <2>1. i \in Live /\ e.state # "Added" /\ EntryOk(e)
    BY <1>1 DEF Live, RejectAllChanges, EntriesOk
  <2>2. EntryGood(e, entity[i]) /\ Calm(e, entity[i]) BY <2>1 DEF Tame
  <2>3. \/ tracker'[i] = e
        \/ tracker'[i] = [e EXCEPT !.state = "Unchanged", !.mods = {}]
    BY <1>1 DEF Live, RejectAllChanges
  <2>4. CASE tracker'[i] = e
    BY <2>1, <2>2, <2>4 DEF Fresh, Assigned
  <2>5. CASE tracker'[i] = [e EXCEPT !.state = "Unchanged", !.mods = {}]
    <3>1. /\ tracker'[i].state = "Unchanged" /\ tracker'[i].original = e.original
          /\ tracker'[i].mods = {} /\ tracker'[i].upsert = e.upsert
      BY <2>1, <2>5 DEF EntryOk
    <3> HIDE DEF e
    <3>2. ~Assigned(e) /\ ~Assigned(tracker'[i]) BY <2>1, <3>1 DEF Assigned
    <3>3. EntryGood(tracker'[i], entity[i]) BY <2>2, <3>1, <3>2 DEF EntryGood
    <3>4. Calm(tracker'[i], entity[i]) BY <3>1, <3>2 DEF Calm
    <3> QED BY <2>1, <3>2, <3>3, <3>4 DEF Fresh, e
  <2> QED BY <2>3, <2>4, <2>5
<1> QED BY <1>1, <1>2, <1>3, EntriesAreTame

LEMMA SplitsAreTame ==
    ASSUME Tame, db' = db,
           \/ \E t \in Types : Retain(t)
           \/ \E i : DetachEntry(i)
    PROVE  Tame'
<1>1. EntriesOk(tracker) /\ nextId' = nextId BY DEF Tame, Retain, DetachEntry
<1>2. ASSUME NEW t \in Types, Retain(t) PROVE Tame'
  <2>1. PICK gone : entity' = Drop(entity, gone) BY <1>2 DEF Retain
  <2>2. tracker' = tracker BY <1>2 DEF Retain
  <2>3. \A i \in DOMAIN entity' : i \in DOMAIN entity /\ entity'[i] = entity[i]
    BY <2>1 DEF Drop
  <2>4. Live' \subseteq Live /\ \A i \in Live' : entity'[i] = entity[i]
    BY <2>2, <2>3 DEF Live
  <2>5. \A i \in Live' : EntryGood(tracker[i], entity[i])' /\ Calm(tracker[i], entity[i])'
    BY <2>2, <2>4 DEF Tame, EntryGood, Has, Row
  <2>6. \A i, j \in Live' : Alone(i, j)' BY <2>2, <2>4 DEF Tame, Alone, Fresh
  <2> QED BY <1>1, <2>2, <2>3, <2>5, <2>6 DEF Tame
<1>3. ASSUME NEW j, DetachEntry(j) PROVE Tame'
  <2>1. tracker' = Drop(tracker, {j}) /\ entity' = entity BY <1>3 DEF DetachEntry, Detach
  <2>2. EntriesOk(tracker') BY <1>1, <2>1, DropIsOk
  <2>3. \A i \in DOMAIN tracker' : i \in DOMAIN tracker /\ tracker'[i] = tracker[i]
    BY <2>1 DEF Drop
  <2>4. \A i \in Live' : /\ i \in Live /\ EntryGood(tracker'[i], entity[i])
                         /\ Calm(tracker'[i], entity[i]) /\ (Fresh(i) => Fresh(i)')
    BY <2>1, <2>3 DEF Tame, Live, Fresh
  <2> QED BY <1>1, <2>1, <2>2, <2>4, EntriesAreTame
<1> QED BY <1>2, <1>3 DEF Retain

LEMMA EditIsTame ==
    ASSUME Tame, db' = db, NEW i \in DOMAIN entity, Edit(i)
    PROVE  Tame'
<1> DEFINE x == entity[i]
<1>0. PICK c \in Cols[x.type] : \E v \in ColValues(x.type, c) :
           entity' = [entity EXCEPT ![i].cols[c] = v]
  BY DEF Edit
<1>1. PICK v \in ColValues(x.type, c) : entity' = [entity EXCEPT ![i].cols[c] = v]
  BY <1>0
<1>2. nextId' = nextId /\ tracker' = tracker /\ "edit" \in Calls BY DEF Edit, Call
<1> DEFINE cols == [x.cols EXCEPT ![c] = v]
<1>3. EntityPlain(x) BY DEF Tame
<1>4. IsRow(x.type, cols) BY <1>3 DEF EntityPlain, IsRow
<1>5. entity'[i] = [type |-> x.type, pk |-> x.pk, cols |-> cols, kids |-> {}]
  BY <1>1, <1>3 DEF EntityPlain
<1> HIDE DEF cols
<1>6. entity'[i].type = x.type /\ entity'[i].pk = x.pk /\ entity'[i].cols = cols BY <1>5
<1>7. EntityPlain(entity'[i]) BY <1>3, <1>4, <1>5 DEF EntityPlain
<1>8. DOMAIN entity' = DOMAIN entity /\ \A j \in DOMAIN entity : j # i => entity'[j] = entity[j]
  BY <1>1
<1>9. \A j \in DOMAIN entity : entity'[j].type = entity[j].type /\ entity'[j].pk = entity[j].pk
  BY <1>6, <1>8
<1>10. ASSUME NEW j \in Live'
       PROVE  EntryGood(tracker'[j], entity'[j]) /\ Calm(tracker'[j], entity'[j])
  <2>1. j \in Live BY <1>2, <1>8 DEF Live
  <2>2. EntryGood(tracker[j], entity[j]) /\ Calm(tracker[j], entity[j]) BY <2>1 DEF Tame
  <2>3. tracker[j].state # "Modified" BY <1>2, <2>2 DEF Calm
  <2>4. Has(entity'[j]) <=> Has(entity[j]) BY <1>9, <2>1 DEF Live, Has
  <2>5. Row(entity'[j]) = Row(entity[j]) BY <1>9, <2>1 DEF Live, Row
  <2>6. entity'[j].pk = entity[j].pk BY <1>9, <2>1 DEF Live
  <2> QED BY <1>2, <2>2, <2>3, <2>4, <2>5, <2>6 DEF EntryGood, Calm
<1>11. \A j \in Live' : EntryGood(tracker[j], entity[j])' /\ Calm(tracker[j], entity[j])'
  BY <1>10 DEF EntryGood, Has, Row
<1>12. Live' = Live BY <1>2, <1>8 DEF Live
<1>13. \A j, k \in Live' : Alone(j, k)'
  BY <1>2, <1>9, <1>12 DEF Tame, Alone, Fresh, Live
<1>14. \A j \in DOMAIN entity' : j \in Nat /\ j < nextId' /\ EntityPlain(entity'[j])
  BY <1>2, <1>7, <1>8 DEF Tame
<1> QED BY <1>2, <1>11, <1>13, <1>14 DEF Tame

LEMMA LoadIsTame ==
    ASSUME Tame, RowsAre(db), db' = db, NEW t \in Types, LoadAll(t)
    PROVE  Tame'
<1> DEFINE keys  == DOMAIN db[t]
           below(k) == {j \in keys : j < k}
           id(k) == nextId + Cardinality(below(k))
           new   == {id(k) : k \in keys}
           key(i) == CHOOSE k \in keys : id(k) = i
           rest  == Drop(entity, In(t))
           kept  == ClearByType(tracker, t)
<1>1. entity' = [i \in DOMAIN rest \cup new |->
                    IF i \in new
                    THEN [type |-> t, pk |-> key(i), cols |-> db[t][key(i)], kids |-> {}]
                    ELSE rest[i]]
  BY DEF LoadAll
<1>2. tracker' = [i \in DOMAIN kept \cup new |->
                    IF i \in new
                    THEN [type |-> t, state |-> "Unchanged", original |-> db[t][key(i)],
                          mods |-> {}, upsert |-> FALSE]
                    ELSE kept[i]]
  BY DEF LoadAll
<1>3. nextId' = nextId + Cardinality(keys) BY DEF LoadAll
<1>4. IsFiniteSet(keys) /\ keys \subseteq Nat \ {NoKey} /\ \A k \in keys : IsRow(t, db[t][k])
  BY DEF RowsAre, RowsOk, TableOk, KeysOk
<1>5. Cardinality(keys) \in Nat BY <1>4, FS_CardinalityType
<1>6. ASSUME NEW k \in keys PROVE id(k) \in Nat /\ id(k) < nextId'
  <2>1. below(k) \subseteq keys /\ k \notin below(k) BY <1>4
  <2>2. IsFiniteSet(below(k)) /\ Cardinality(below(k)) <= Cardinality(keys)
        /\ Cardinality(below(k)) # Cardinality(keys)
    <3> HIDE DEF below, keys
    <3> QED BY <1>4, <2>1, FS_Subset
  <2>3. Cardinality(below(k)) \in Nat BY <2>2, FS_CardinalityType
  <2> QED BY <1>3, <1>5, <2>2, <2>3 DEF Tame
<1>7. ASSUME NEW i \in new PROVE key(i) \in keys /\ id(key(i)) = i
  OBVIOUS
<1> HIDE DEF id, below
<1>8. \A i, j \in new : key(i) = key(j) => i = j BY <1>7
<1>9. \A i \in new : i \in Nat /\ i < nextId' BY <1>6
<1> HIDE DEF key, new
<1>10. \A i \in DOMAIN rest : i \in DOMAIN entity /\ rest[i] = entity[i] /\ rest[i].type # t
  BY DEF Drop, In
<1>11. \A i \in DOMAIN kept : i \in DOMAIN tracker /\ kept[i] = tracker[i] BY DEF ClearByType, Drop
<1> HIDE DEF rest, kept
<1>12. nextId' \in Nat /\ nextId <= nextId' BY <1>3, <1>5 DEF Tame
<1>13. ASSUME NEW i \in new
       PROVE  /\ entity'[i].type = t /\ entity'[i].pk = key(i)
              /\ EntityPlain(entity'[i]) /\ ~Assigned(tracker'[i])
              /\ EntryGood(tracker'[i], entity'[i]) /\ Calm(tracker'[i], entity'[i])
              /\ EntryOk(tracker'[i])
  <2>1. entity'[i] = [type |-> t, pk |-> key(i), cols |-> db[t][key(i)], kids |-> {}] BY <1>1
  <2>2. tracker'[i] = [type |-> t, state |-> "Unchanged", original |-> db[t][key(i)],
                       mods |-> {}, upsert |-> FALSE]
    BY <1>2
  <2>3. key(i) \in keys BY <1>7
  <2>4. EntityPlain(entity'[i]) BY <1>4, <2>1, <2>3 DEF EntityPlain
  <2>5. ~Assigned(tracker'[i]) BY <2>2 DEF Assigned
  <2>6. Has(entity'[i]) /\ Row(entity'[i]) = db[t][key(i)] BY <2>1, <2>3 DEF Has, Row
  <2>7. EntryGood(tracker'[i], entity'[i]) BY <2>1, <2>2, <2>5, <2>6 DEF EntryGood
  <2>8. Calm(tracker'[i], entity'[i]) BY <2>2, <2>5 DEF Calm
  <2> QED BY <2>1, <2>2, <2>4, <2>5, <2>7, <2>8 DEF EntryOk
<1>14. ASSUME NEW i \in DOMAIN entity', i \notin new
       PROVE  i \in DOMAIN entity /\ entity'[i] = entity[i] /\ entity[i].type # t
  BY <1>1, <1>10, <1>14
<1>15. ASSUME NEW i \in DOMAIN tracker', i \notin new
       PROVE  i \in DOMAIN tracker /\ tracker'[i] = tracker[i]
  BY <1>2, <1>11, <1>15
<1>16. EntriesOk(tracker') BY <1>13, <1>15 DEF EntriesOk, Tame
<1>17. \A i \in DOMAIN entity' : i \in Nat /\ i < nextId' /\ EntityPlain(entity'[i])
  BY <1>9, <1>12, <1>13, <1>14 DEF Tame
<1>18. \A i \in Live' : i \in new \/ (i \notin new /\ i \in Live)
  BY <1>14, <1>15 DEF Live
<1>19. \A i \in Live' : i \notin new =>
          entity'[i] = entity[i] /\ tracker'[i] = tracker[i] /\ entity[i].type # t
  BY <1>14, <1>15 DEF Live
<1>20. \A i \in Live' : EntryGood(tracker'[i], entity'[i]) /\ Calm(tracker'[i], entity'[i])
  BY <1>13, <1>18, <1>19 DEF Tame
<1>21. \A i \in Live' : EntryGood(tracker[i], entity[i])' /\ Calm(tracker[i], entity[i])'
  BY <1>20 DEF EntryGood, Has, Row
<1>22. \A i, j \in Live' : Alone(i, j)'
  <2> SUFFICES ASSUME NEW i \in Live', NEW j \in Live', ~Fresh(i)', ~Fresh(j)',
                      entity'[i].type = entity'[j].type, entity'[i].pk = entity'[j].pk,
                      entity'[i].pk # NoKey
               PROVE  i = j
    BY DEF Alone
  <2>1. CASE i \in new /\ j \in new BY <1>8, <1>13, <2>1
  <2>2. CASE i \notin new /\ j \notin new
    BY <1>18, <1>19, <2>2 DEF Tame, Alone, Fresh
  <2>3. CASE ~(i \in new <=> j \in new) BY <1>13, <1>19, <2>3
  <2> QED BY <2>1, <2>2, <2>3
<1> QED BY <1>12, <1>16, <1>17, <1>21, <1>22 DEF Tame

LEMMA ExactOfCalls ==
    ASSUME ExactSafe, Exact, CallStep
    PROVE  Exact'
<1>1. ASSUME \E name : Call(name), Tame => Tame' PROVE Exact'
  <2>1. Allowed /\ UNCHANGED <<db, links, directives>> /\ pc' = "idle"
    BY <1>1 DEF Call, Allowed, dbvars, savevars
  <2>2. Tame' BY <1>1, <2>1, IdleIsTame
  <2> QED BY <2>1, <2>2, TameIsExact
<1>2. RowsAre(db) BY DEF Exact, Plain
<1>3. ASSUME NEW t \in Types,
             Add(t) \/ AddOver(t) \/ Attach(t) \/ AttachIncluded(t) \/ Update(t) \/ Upsert(t)
      PROVE  Exact'
  <2>1. \E name : Call(name)
    BY <1>3 DEF Add, AddOver, Attach, AttachIncluded, Update, Upsert
  <2>2. db' = db BY <2>1 DEF Call, dbvars
  <2> QED BY <1>1, <1>2, <1>3, <2>1, <2>2, PushesAreTame
<1>4. ASSUME NEW t \in Types, RemoveAll(t) \/ LoadAll(t) \/ Retain(t) PROVE Exact'
  <2>1. \E name : Call(name) BY <1>4 DEF RemoveAll, LoadAll, Retain
  <2>2. db' = db BY <2>1 DEF Call, dbvars
  <2>3. RemoveAll(t) => (Tame => Tame') BY <2>2, RemovesAreTame DEF RemoveAll
  <2>4. LoadAll(t) => (Tame => Tame') BY <1>2, <2>2, LoadIsTame
  <2>5. Retain(t) => (Tame => Tame') BY <2>2, SplitsAreTame
  <2> QED BY <1>1, <1>4, <2>1, <2>3, <2>4, <2>5
<1>5. ASSUME NEW i \in DOMAIN entity, Edit(i) \/ RemoveAt(i) \/ DetachEntry(i) PROVE Exact'
  <2>1. \E name : Call(name) BY <1>5 DEF Edit, RemoveAt, DetachEntry
  <2>2. db' = db BY <2>1 DEF Call, dbvars
  <2>3. Edit(i) => (Tame => Tame') BY <2>2, EditIsTame
  <2>4. RemoveAt(i) => (Tame => Tame') BY <2>2, RemovesAreTame DEF RemoveAt
  <2>5. DetachEntry(i) => (Tame => Tame') BY <2>2, SplitsAreTame
  <2> QED BY <1>1, <1>5, <2>1, <2>3, <2>4, <2>5
<1>6. ASSUME RejectAll \/ DetectNow PROVE Exact'
  <2>1. \E name : Call(name) BY <1>6 DEF RejectAll, DetectNow
  <2>2. db' = db BY <2>1 DEF Call, dbvars
  <2>3. RejectAll => (Tame => Tame') BY <2>2, RejectIsTame
  <2>4. DetectNow => (Tame => Tame') BY <1>2, <2>2, DetectIsTame
  <2> QED BY <1>1, <1>6, <2>1, <2>3, <2>4
<1>7. CASE ClearTracking
  <2>1. pc' = "idle" /\ UNCHANGED <<db, links, directives, nextId>>
    BY <1>7 DEF ClearTracking, dbvars, savevars
  <2>2. DOMAIN entity' = {} /\ EntriesOk(tracker')
    BY <1>7 DEF ClearTracking, EmptyTracker, EntriesOk
  <2>3. Live' = {} BY <2>2 DEF Live
  <2>4. Tame' BY <2>1, <2>2, <2>3 DEF Tame, Exact, Plain
  <2> QED BY <2>1, <2>4, TameIsExact
<1> QED BY <1>3, <1>4, <1>5, <1>6, <1>7 DEF CallStep

(***************************************************************************)
(* A save up to its statements.                                            *)
(***************************************************************************)
\* Before the first statement the rows of the transaction are the committed
\* ones.
LEMMA UnsentIsExact ==
    ASSUME Plain', (\A i \in Live : EntryGood(tracker[i], entity[i]))',
           ("edit" \in Calls => \A i \in Live : Detected(tracker[i], entity[i]))',
           (\A i, j \in Live : Alone(i, j))', (work = db)',
           pc' \in Drains \/ (pc' = "insert" /\ EachOnce(todo)' /\ (\A t \in Types : ToCome(t))')
    PROVE  Exact'
<1>1. \A t \in Types : ~InsDone(t)' /\ ~UpsDone(t)' /\ ~UpdDone(t)' /\ ~DelDone(t)'
  BY DEF InsDone, UpsDone, UpdDone, DelDone, Finished, Drains
<1>2. \A t \in Types : DoneIds(t)' = {} /\ GoneIds(t)' = {}
  BY <1>1 DEF DoneIds, GoneIds
<1>3. \A t \in Types : WorkOf(t)' BY <1>2 DEF WorkOf, Pks
<1>4. RowsAre(work)' BY DEF Plain, RowsAre, RowsOk
<1>5. WorkIs' BY <1>3, <1>4 DEF WorkIs
<1>6. \A i \in DOMAIN entity' : entity'[i].type \in Types BY DEF Plain, EntityPlain
<1>7. \A i \in DOMAIN entity' : Given(i)' => i \in Live' /\ ~Fresh(i)'
  BY <1>1, <1>6 DEF Given
<1>8. KeysDiffer' BY <1>7 DEF KeysDiffer, Alone
<1>9. Entries' /\ AllDetected' BY DEF Entries, AllDetected
<1>10. Calms' /\ Turns' /\ AllStored' BY DEF Calms, Turns, AllStored, Drains, Writes
<1> QED BY <1>5, <1>8, <1>9, <1>10 DEF Exact


LEMMA IdleIsExact ==
    ASSUME Plain', (\A i \in Live : EntryGood(tracker[i], entity[i]))',
           (\A i, j \in Live : Alone(i, j))', pc' = "idle", Calms'
    PROVE  Exact'
<1>1. \A t : ~InsDone(t)' BY DEF InsDone, Finished
<1>2. KeysDiffer' BY <1>1 DEF KeysDiffer, Alone, Given
<1>3. Entries' /\ AllDetected' /\ Turns' /\ WorkIs' /\ AllStored'
  BY DEF Entries, AllDetected, Turns, WorkIs, AllStored, Saving, Drains, Writes
<1> QED BY <1>2, <1>3 DEF Exact

\* What KeysDiffer says of the entities that are not to be inserted.
LEMMA GivenAreAlone ==
    ASSUME KeysDiffer
    PROVE  \A i, j \in Live : Alone(i, j)
<1>1. \A i \in Live : ~Fresh(i) => i \in DOMAIN entity /\ Given(i) BY DEF Live, Given
<1> QED BY <1>1 DEF KeysDiffer, Alone

LEMMA FailIsExact ==
    ASSUME Exact, FailSave, pc # "accept"
    PROVE  Exact'
<1>1. UNCHANGED <<entity, tracker, nextId, db>> /\ pc' = "idle" /\ result' = "failed"
      /\ links' = {} /\ directives' = {}
  BY DEF FailSave, SaveIdle
<1>2. Plain' BY <1>1 DEF Exact, Plain, RowsAre, RowsOk, TableOk
<1>3. \A i \in Live : EntryGood(tracker[i], entity[i]) BY DEF Exact, Entries
<1>4. (\A i \in Live : EntryGood(tracker[i], entity[i]))'
  BY <1>1, <1>3 DEF Live, EntryGood, Has, Row
<1>5. \A i, j \in Live : Alone(i, j) BY GivenAreAlone DEF Exact
<1>6. (\A i, j \in Live : Alone(i, j))' BY <1>1, <1>5 DEF Live, Alone, Fresh
<1>7. Calms' BY <1>1 DEF Calms
<1> QED BY <1>1, <1>2, <1>4, <1>6, <1>7, IdleIsExact

LEMMA ExactOfBegin ==
    ASSUME Exact, SaveBegin
    PROVE  Exact'
<1> DEFINE now == DetectChanges(tracker, Snapshots(DOMAIN entity))
<1>1. pc = "idle" /\ UNCHANGED <<entity, nextId, db>> /\ tracker' = now BY DEF SaveBegin
<1>2. EntriesOk(tracker) /\ RowsAre(db) /\ \A i \in DOMAIN entity : EntityPlain(entity[i])
  BY DEF Exact, Plain
<1>3. EntriesOk(tracker') /\ DOMAIN tracker' = DOMAIN tracker BY <1>1, <1>2, DetectIsOk
<1> HIDE DEF now
<1>4. Live' = Live BY <1>1, <1>3 DEF Live
<1>5. ASSUME NEW i \in Live
      PROVE  /\ EntryGood(tracker'[i], entity[i]) /\ Detected(tracker'[i], entity[i])
             /\ Assigned(tracker'[i]) <=> Assigned(tracker[i])
  <2>1. EntryGood(tracker[i], entity[i]) BY <1>1 DEF Exact, Entries
  <2>2. EntityPlain(entity[i]) BY <1>2 DEF Live
  <2> QED BY <1>1, <1>2, <2>1, <2>2, DetectIsGood DEF now
<1>6. (\A i \in Live : EntryGood(tracker[i], entity[i]))'
  BY <1>1, <1>4, <1>5 DEF EntryGood, Has, Row
<1>7. (\A i \in Live : Detected(tracker[i], entity[i]))'
  BY <1>1, <1>4, <1>5 DEF Detected
<1>8. \A i, j \in Live : Alone(i, j) BY GivenAreAlone DEF Exact
<1>9. (\A i, j \in Live : Alone(i, j))' BY <1>1, <1>4, <1>5, <1>8 DEF Alone, Fresh
<1>10. links' = {} /\ directives' = {} BY DEF SaveBegin, SaveIdle, Exact, Plain
<1>11. Plain' BY <1>1, <1>3, <1>10 DEF Exact, Plain, RowsAre, RowsOk, TableOk
<1>12. \/ pc' = "drain_adds" /\ work' = db
       \/ /\ pc' = "idle"
          /\ result' = "ok" => \A i \in DOMAIN entity :
                                 i \in DOMAIN now => now[i].state \notin PendingStates
          /\ result' \in {"ok", "failed"}
  BY DEF SaveBegin, SaveIdle, now
<1>13. CASE pc' = "drain_adds" /\ work' = db
  BY <1>1, <1>6, <1>7, <1>9, <1>11, <1>13, UnsentIsExact DEF Drains
<1>14. CASE pc' = "idle"
  <2>1. result' # "failed" => \A i \in Live' : tracker'[i].state \notin PendingStates
    BY <1>1, <1>12, <1>14 DEF Live
  <2>2. Calms' BY <2>1 DEF Calms, Calm, Assigned, PendingStates
  <2> QED BY <1>6, <1>9, <1>11, <1>14, <2>2, IdleIsExact
<1> QED BY <1>12, <1>13, <1>14

LEMMA ExactOfDrains ==
    ASSUME ExactSafe, Exact, DrainAdds \/ DrainAddsDone \/ DrainDeletes \/ DrainDeletesDone
    PROVE  Exact'
<1>1. \A i \in DOMAIN entity : entity[i].kids = {}
  BY DEF Exact, Plain, EntityPlain
<1>2. ~DrainAdds BY <1>1 DEF DrainAdds
<1>3. \A i : DirectiveOf(i) = {} BY NoChildren DEF DirectiveOf
<1>4. DrainDeletes => /\ UNCHANGED <<entity, tracker, nextId, directives>>
                      /\ UNCHANGED <<db, work, pc, todo, links>>
  BY <1>1, <1>3 DEF DrainDeletes, ToDrain, dbvars
<1>5. UNCHANGED <<entity, tracker, nextId, directives, db, work, links>> /\ pc \in Drains
      /\ (pc' \in Drains \/ (pc' = "insert" /\ todo' = InsertOrder))
  BY <1>2, <1>4 DEF DrainAddsDone, DrainDeletesDone, DrainDeletes, Drains, dbvars
<1>6. Plain' BY <1>5 DEF Exact, Plain, RowsAre, RowsOk, TableOk
<1>7. \A i \in Live : EntryGood(tracker[i], entity[i]) BY <1>5 DEF Exact, Entries, Drains
<1>8. (\A i \in Live : EntryGood(tracker[i], entity[i]))'
  BY <1>5, <1>7 DEF Live, EntryGood, Has, Row
<1>9. \A i, j \in Live : Alone(i, j) BY GivenAreAlone DEF Exact
<1>10. (\A i, j \in Live : Alone(i, j))' BY <1>5, <1>9 DEF Live, Alone, Fresh
<1>11. ("edit" \in Calls => \A i \in Live : Detected(tracker[i], entity[i]))'
  BY <1>5 DEF Exact, AllDetected, Saving, Live, Detected
<1>12. (work = db)' BY <1>5 DEF Exact, Turns
<1>13. EachOnce(InsertOrder) /\ \A t \in Types : \E n \in DOMAIN InsertOrder : InsertOrder[n] = t
  BY OrderIsEachOnce
<1>14. pc' \in Drains \/ (pc' = "insert" /\ EachOnce(todo)' /\ (\A t \in Types : ToCome(t))')
  BY <1>5, <1>13 DEF ToCome, EachOnce
<1> QED BY <1>6, <1>8, <1>10, <1>11, <1>12, <1>14, UnsentIsExact

(***************************************************************************)
(* The turns of the types.                                                 *)
(***************************************************************************)
LEMMA OrdersVisitAll ==
    ASSUME HasMany = {}, NEW order, order \in {InsertOrder, Reversed(InsertOrder)}
    PROVE  EachOnce(order) /\ \A t \in Types : \E n \in DOMAIN order : order[n] = t
<1> DEFINE s == InsertOrder
           at(n) == Len(s) + 1 - n
<1>1. EachOnce(s) /\ \A t \in Types : \E n \in DOMAIN s : s[n] = t BY OrderIsEachOnce
<1>2. EachOnce(Reversed(s)) BY <1>1, ReversedRises DEF Falls, Rises
<1>3. Len(s) \in Nat /\ DOMAIN s = 1..Len(s) BY <1>1 DEF EachOnce
<1>4. DOMAIN Reversed(s) = DOMAIN s
      /\ \A n \in DOMAIN s : at(n) \in DOMAIN s /\ Reversed(s)[at(n)] = s[n]
  BY <1>3 DEF Reversed
<1> QED BY <1>1, <1>2, <1>4

\* A statement is sent: the first type had its turn.
Sends ==
    \/ pc = "insert" /\ Onward("upsert", InsertOrder)
    \/ pc = "upsert" /\ Onward("update", InsertOrder)
    \/ pc = "update" /\ Onward("set_null", Reversed(InsertOrder))
    \/ pc = "delete" /\ Onward("prune", <<>>)

LEMMA TurnIsOver ==
    ASSUME HasMany = {}, Turns, Sends
    PROVE  /\ Head(todo) \in Types /\ ToCome(Head(todo))
           /\ \/ pc' = pc /\ \A t \in Types : ToCome(t)' <=> ToCome(t) /\ t # Head(todo)
              \/ /\ \A t \in Types : ToCome(t) <=> t = Head(todo)
                 /\ \/ pc = "insert" /\ pc' = "upsert"
                    \/ pc = "upsert" /\ pc' = "update"
                    \/ pc = "update" /\ pc' = "set_null"
                    \/ pc = "delete" /\ pc' = "prune"
                 /\ pc # "delete" => \A t \in Types : ToCome(t)'
           /\ pc' # "prune" => EachOnce(todo')
<1>1. EachOnce(todo) BY DEF Turns, Sends, Writes
<1>2. 1 \in DOMAIN todo /\ Head(todo) = todo[1] /\ Head(todo) \in Types BY <1>1, HeadIsFirst
<1>3. \A m, n \in DOMAIN todo : todo[m] = todo[n] => m = n BY <1>1 DEF EachOnce
<1>4. ToCome(Head(todo)) BY <1>2 DEF ToCome
<1>5. CASE Len(todo) > 1
  <2>1. todo' = Tail(todo) /\ pc' = pc BY <1>5 DEF Sends, Onward
  <2>2. /\ EachOnce(todo')
        /\ \A m \in DOMAIN todo' : m + 1 \in DOMAIN todo /\ todo'[m] = todo[m + 1] /\ m \in Nat
        /\ \A n \in DOMAIN todo : n # 1 => \E m \in DOMAIN todo' : todo[n] = todo'[m]
    BY <1>1, <1>5, <2>1, TailIsEachOnce
  <2>3. \A m \in DOMAIN todo' : m >= 1
    <3>1. todo' \in Seq(Types) BY <2>2 DEF EachOnce
    <3> QED BY <3>1
  <2>4. ASSUME NEW t \in Types PROVE ToCome(t)' <=> ToCome(t) /\ t # Head(todo)
    <3>1. ToCome(t)' => ToCome(t) /\ t # Head(todo)
      <4> SUFFICES ASSUME NEW m \in DOMAIN todo', todo'[m] = t PROVE ToCome(t) /\ t # Head(todo)
        BY DEF ToCome
      <4>1. m + 1 \in DOMAIN todo /\ todo[m + 1] = t /\ m \in Nat /\ m + 1 # 1 BY <2>2, <2>3
      <4> QED BY <1>2, <1>3, <4>1 DEF ToCome
    <3>2. ToCome(t) /\ t # Head(todo) => ToCome(t)' BY <1>2, <2>2 DEF ToCome
    <3> QED BY <3>1, <3>2
  <2> QED BY <1>2, <1>4, <2>1, <2>2, <2>4
<1>6. CASE ~(Len(todo) > 1)
  <2>1. DOMAIN todo = {1}
    <3>1. todo \in Seq(Types) BY <1>1 DEF EachOnce
    <3>2. DOMAIN todo = 1..Len(todo) /\ Len(todo) \in Nat BY <3>1
    <3> QED BY <1>2, <1>6, <3>2
  <2>2. \A t \in Types : ToCome(t) <=> t = Head(todo) BY <1>2, <2>1 DEF ToCome
  <2>3. \/ pc = "insert" /\ pc' = "upsert" /\ todo' = InsertOrder
        \/ pc = "upsert" /\ pc' = "update" /\ todo' = InsertOrder
        \/ pc = "update" /\ pc' = "set_null" /\ todo' = Reversed(InsertOrder)
        \/ pc = "delete" /\ pc' = "prune"
    BY <1>6 DEF Sends, Onward
  <2>4. pc # "delete" => EachOnce(todo') /\ \A t \in Types : ToCome(t)'
    BY <2>3, OrdersVisitAll DEF ToCome
  <2> QED BY <1>2, <1>4, <2>2, <2>3, <2>4
<1> QED BY <1>5, <1>6

\* What is done after the statement for the first type.
LEMMA OnwardSends ==
    ASSUME HasMany = {}, Turns, Sends
    PROVE  /\ Head(todo) \in Types /\ Turns' /\ pc' \in Saving \ Drains
           /\ \A t \in Types :
                 /\ InsDone(t)' <=> InsDone(t) \/ (pc = "insert" /\ t = Head(todo))
                 /\ UpsDone(t)' <=> UpsDone(t) \/ (pc = "upsert" /\ t = Head(todo))
                 /\ UpdDone(t)' <=> UpdDone(t) \/ (pc = "update" /\ t = Head(todo))
                 /\ DelDone(t)' <=> DelDone(t) \/ (pc = "delete" /\ t = Head(todo))
           /\ pc = "insert" => ~InsDone(Head(todo))
           /\ pc = "upsert" => ~UpsDone(Head(todo))
           /\ pc = "update" => ~UpdDone(Head(todo))
           /\ pc = "delete" => ~DelDone(Head(todo))
           /\ pc # "delete" => \A t \in Types : ~DelDone(t)
<1>1. /\ Head(todo) \in Types /\ ToCome(Head(todo))
      /\ \/ pc' = pc /\ \A t \in Types : ToCome(t)' <=> ToCome(t) /\ t # Head(todo)
         \/ /\ \A t \in Types : ToCome(t) <=> t = Head(todo)
            /\ \/ pc = "insert" /\ pc' = "upsert"
               \/ pc = "upsert" /\ pc' = "update"
               \/ pc = "update" /\ pc' = "set_null"
               \/ pc = "delete" /\ pc' = "prune"
            /\ pc # "delete" => \A t \in Types : ToCome(t)'
      /\ pc' # "prune" => EachOnce(todo')
  BY TurnIsOver
<1>2. pc \in {"insert", "upsert", "update", "delete"} BY DEF Sends
<1>3. Turns' BY <1>1, <1>2 DEF Turns, Drains, Writes
<1>4. pc' \in Saving \ Drains BY <1>1, <1>2 DEF Saving, Drains, Writes
<1>5. ASSUME NEW t \in Types
      PROVE  /\ InsDone(t)' <=> InsDone(t) \/ (pc = "insert" /\ t = Head(todo))
             /\ UpsDone(t)' <=> UpsDone(t) \/ (pc = "upsert" /\ t = Head(todo))
             /\ UpdDone(t)' <=> UpdDone(t) \/ (pc = "update" /\ t = Head(todo))
             /\ DelDone(t)' <=> DelDone(t) \/ (pc = "delete" /\ t = Head(todo))
  <2>1. CASE pc' = pc
    <3>1. ToCome(t)' <=> ToCome(t) /\ t # Head(todo) BY <1>1, <1>2, <2>1
    <3> QED BY <1>1, <1>2, <2>1, <3>1 DEF InsDone, UpsDone, UpdDone, DelDone, Finished
  <2>2. CASE pc' # pc
    BY <1>1, <1>2, <2>2 DEF InsDone, UpsDone, UpdDone, DelDone, Finished
  <2> QED BY <2>1, <2>2
<1>6. /\ pc = "insert" => ~InsDone(Head(todo))
      /\ pc = "upsert" => ~UpsDone(Head(todo))
      /\ pc = "update" => ~UpdDone(Head(todo))
      /\ pc = "delete" => ~DelDone(Head(todo))
      /\ pc # "delete" => \A t \in Types : ~DelDone(t)
  BY <1>1, <1>2 DEF InsDone, UpsDone, UpdDone, DelDone, Finished
<1> QED BY <1>1, <1>3, <1>4, <1>5, <1>6

\* The entities the statement for the first type is about.
SentIds ==
    LET t == Head(todo) IN
    IF pc = "insert" THEN ToInsert(t)
    ELSE IF pc = "upsert" THEN ToUpsert(t)
    ELSE IF pc = "update" THEN ToUpdate(t) ELSE {}

LEMMA DoneGrows ==
    ASSUME HasMany = {}, Turns, Sends, tracker' = tracker, DOMAIN entity' = DOMAIN entity,
           \A i \in DOMAIN entity : entity'[i].type = entity[i].type
    PROVE  /\ \A u \in Types :
                 /\ DoneIds(u)' = DoneIds(u) \cup (IF u = Head(todo) THEN SentIds ELSE {})
                 /\ GoneIds(u)' = GoneIds(u)
                       \cup (IF pc = "delete" /\ u = Head(todo) THEN ToDelete(u) ELSE {})
                 /\ pc # "delete" => GoneIds(u) = {}
           /\ DoneIds(Head(todo)) \cap SentIds = {}
           /\ SentIds \subseteq Live /\ \A i \in SentIds : entity[i].type = Head(todo)
<1> DEFINE t == Head(todo)
<1>1. /\ t \in Types
      /\ \A u \in Types :
            /\ InsDone(u)' <=> InsDone(u) \/ (pc = "insert" /\ u = t)
            /\ UpsDone(u)' <=> UpsDone(u) \/ (pc = "upsert" /\ u = t)
            /\ UpdDone(u)' <=> UpdDone(u) \/ (pc = "update" /\ u = t)
            /\ DelDone(u)' <=> DelDone(u) \/ (pc = "delete" /\ u = t)
      /\ pc = "insert" => ~InsDone(t)
      /\ pc = "upsert" => ~UpsDone(t)
      /\ pc = "update" => ~UpdDone(t)
      /\ pc # "delete" => \A u \in Types : ~DelDone(u)
  BY OnwardSends
<1>2. pc \in {"insert", "upsert", "update", "delete"} BY DEF Sends
<1>3. \A u : In(u)' = In(u) BY DEF In
<1>4. Live' = Live BY DEF Live
<1> DEFINE plain(i) == tracker[i].state = "Added" /\ ~tracker[i].upsert
           keyed(i) == tracker[i].state = "Added" /\ tracker[i].upsert
           edited(i) == tracker[i].state = "Modified"
<1>5. \A i : (Fresh(i) <=> plain(i)) /\ (Fresh(i)' <=> plain(i)) BY DEF Fresh, Assigned
<1>6. \A u : /\ ToInsert(u) = {i \in In(u) : i \in Live /\ plain(i)}
             /\ ToUpsert(u) = {i \in In(u) : i \in Live /\ keyed(i)}
             /\ ToUpdate(u) = {i \in In(u) : i \in Live /\ edited(i)}
  BY DEF ToInsert, ToUpsert, ToUpdate, StateOf, IsUpsert, Live, In
<1>7. \A u : ToDelete(u)' = ToDelete(u) BY <1>3 DEF ToDelete, StateOf
<1>8. \A u \in Types :
         /\ DoneIds(u) = {i \in In(u) : i \in Live /\ ((plain(i) /\ InsDone(u))
                             \/ (keyed(i) /\ UpsDone(u)) \/ (edited(i) /\ UpdDone(u)))}
         /\ DoneIds(u)' = {i \in In(u) : i \in Live /\ ((plain(i) /\ InsDone(u)')
                             \/ (keyed(i) /\ UpsDone(u)') \/ (edited(i) /\ UpdDone(u)'))}
  BY <1>3, <1>4, <1>5 DEF DoneIds
<1>9. SentIds = {i \in In(t) : i \in Live /\ ((plain(i) /\ pc = "insert")
                             \/ (keyed(i) /\ pc = "upsert") \/ (edited(i) /\ pc = "update"))}
  BY <1>2, <1>6 DEF SentIds
<1> HIDE DEF t, plain, keyed, edited
<1>10. \A u \in Types : DoneIds(u)' = DoneIds(u) \cup (IF u = t THEN SentIds ELSE {})
  BY <1>1, <1>8, <1>9
<1>11. \A u \in Types : GoneIds(u)' = GoneIds(u)
                          \cup (IF pc = "delete" /\ u = t THEN ToDelete(u) ELSE {})
  BY <1>1, <1>7 DEF GoneIds
<1>12. pc # "delete" => \A u \in Types : GoneIds(u) = {} BY <1>1 DEF GoneIds
<1>13. \A i : ~(plain(i) /\ keyed(i)) /\ ~(plain(i) /\ edited(i)) /\ ~(keyed(i) /\ edited(i))
  BY DEF plain, keyed, edited
<1>14. DoneIds(t) \cap SentIds = {} BY <1>1, <1>2, <1>8, <1>9, <1>13
<1>15. SentIds \subseteq Live /\ \A i \in SentIds : entity[i].type = t BY <1>9 DEF In
<1> QED BY <1>10, <1>11, <1>12, <1>14, <1>15 DEF t

(***************************************************************************)
(* The rows a statement leaves.                                            *)
(***************************************************************************)
\* The rows of the sent entities are added or replaced.
RowsWritten(t, ids) ==
    LET keys == {entity'[i].pk : i \in ids} IN
    /\ DOMAIN work'[t] = DOMAIN work[t] \cup keys
    /\ \A i \in ids : work'[t][entity'[i].pk] = entity'[i].cols
    /\ \A k \in DOMAIN work[t] : k \notin keys => work'[t][k] = work[t][k]

LEMMA WrittenIsExact ==
    ASSUME NEW t, NEW ids, WorkOf(t), GoneIds(t) = {}, GoneIds(t)' = {},
           DoneIds(t)' = DoneIds(t) \cup ids, db' = db, RowsWritten(t, ids),
           \A i \in DoneIds(t) : /\ entity'[i] = entity[i]
                                 /\ \A j \in ids : entity'[j].pk # entity[i].pk
    PROVE  WorkOf(t)'
<1> DEFINE keys == {entity'[i].pk : i \in ids}
<1>1. /\ DOMAIN work'[t] = DOMAIN work[t] \cup keys
      /\ \A i \in ids : work'[t][entity'[i].pk] = entity'[i].cols /\ entity'[i].pk \in keys
      /\ \A k \in DOMAIN work[t] : k \notin keys => work'[t][k] = work[t][k]
  BY DEF RowsWritten
<1>2. /\ DOMAIN work[t] = DOMAIN db[t] \cup Pks(DoneIds(t))
      /\ \A i \in DoneIds(t) :
            entity[i].pk \in DOMAIN work[t] /\ work[t][entity[i].pk] = entity[i].cols
      /\ \A k \in DOMAIN db[t] \ Pks(DoneIds(t)) : work[t][k] = db[t][k]
  BY DEF WorkOf, Pks
<1>3. Pks(DoneIds(t))' = Pks(DoneIds(t)) \cup keys BY DEF Pks
<1>4. Pks(GoneIds(t))' = {} BY DEF Pks
<1>5. \A i \in DoneIds(t) : entity[i].pk \notin keys OBVIOUS
<1> HIDE DEF keys
<1>6. \A i \in DoneIds(t)' :
         entity'[i].pk \in DOMAIN work'[t] /\ work'[t][entity'[i].pk] = entity'[i].cols
  BY <1>1, <1>2, <1>5
<1>7. \A k \in DOMAIN db'[t] \ (Pks(DoneIds(t))' \cup Pks(GoneIds(t))') : work'[t][k] = db'[t][k]
  BY <1>1, <1>2, <1>3
<1>8. DOMAIN work'[t] = (DOMAIN db'[t] \cup Pks(DoneIds(t))') \ Pks(GoneIds(t))'
  BY <1>1, <1>2, <1>3, <1>4
<1> QED BY <1>6, <1>7, <1>8 DEF WorkOf

SameTable(t) ==
    DOMAIN work'[t] = DOMAIN work[t] /\ \A k \in DOMAIN work[t] : work'[t][k] = work[t][k]

LEMMA SameIsExact ==
    ASSUME NEW t, WorkOf(t), SameTable(t), db' = db, DoneIds(t)' = DoneIds(t),
           GoneIds(t)' = GoneIds(t),
           \A i \in DoneIds(t) \cup GoneIds(t) : entity'[i] = entity[i]
    PROVE  WorkOf(t)'
<1>1. Pks(DoneIds(t))' = Pks(DoneIds(t)) /\ Pks(GoneIds(t))' = Pks(GoneIds(t)) BY DEF Pks
<1>2. /\ DOMAIN work'[t] = (DOMAIN db'[t] \cup Pks(DoneIds(t))') \ Pks(GoneIds(t))'
      /\ \A k \in DOMAIN db'[t] \ (Pks(DoneIds(t))' \cup Pks(GoneIds(t))') :
            work'[t][k] = db'[t][k]
  BY <1>1 DEF WorkOf, SameTable
<1>3. \A i \in DoneIds(t)' :
         entity'[i].pk \in DOMAIN work'[t] /\ work'[t][entity'[i].pk] = entity'[i].cols
  BY DEF WorkOf, SameTable
<1> QED BY <1>2, <1>3 DEF WorkOf

\* A statement changes no entity; the insertion gives them keys.
Rekeyed(i) ==
    /\ pc = "insert" /\ i \in SentIds /\ EntityPlain(entity'[i])
    /\ entity'[i].type = entity[i].type /\ entity'[i].cols = entity[i].cols

LEMMA PhaseIsExact ==
    ASSUME Exact, UNCHANGED <<tracker, nextId, db, links, directives>>,
           pc \in Saving, pc' \in Saving, Turns', WorkIs', KeysDiffer',
           DOMAIN entity' = DOMAIN entity,
           \A i \in DOMAIN entity : entity'[i] = entity[i] \/ Rekeyed(i)
    PROVE  Exact'
<1>1. Plain' BY DEF Exact, Plain, Rekeyed, RowsAre, RowsOk, TableOk
<1>2. pc # "accept" /\ pc # "idle" /\ pc' # "accept" /\ pc' # "idle"
  BY DEF Saving, Drains, Writes
<1>3. Live' = Live BY DEF Live
<1>4. ASSUME NEW i \in Live PROVE EntryGood(tracker[i], entity[i])'
  <2>1. EntryGood(tracker[i], entity[i]) /\ i \in DOMAIN entity
    BY <1>2 DEF Exact, Entries, Live
  <2>2. CASE entity'[i] = entity[i] BY <2>1, <2>2 DEF EntryGood, Has, Row
  <2>3. CASE Rekeyed(i)
    <3>1. i \in ToInsert(Head(todo)) BY <2>3 DEF Rekeyed, SentIds
    <3>2. Assigned(tracker[i]) /\ tracker[i].state = "Added" /\ ~tracker[i].upsert
      BY <3>1 DEF ToInsert, StateOf, IsUpsert, Assigned, Live
    <3>3. tracker[i].original = NoSnapshot BY <2>1, <3>2 DEF EntryGood
    <3>4. entity'[i].cols = entity[i].cols BY <2>3 DEF Rekeyed
    <3>5. EntryGood(tracker[i], entity'[i])
      BY <2>1, <3>2, <3>3, <3>4 DEF EntryGood
    <3> QED BY <3>5 DEF EntryGood, Has, Row
  <2> QED BY <2>1, <2>2, <2>3
<1>5. Entries' BY <1>3, <1>4 DEF Entries
<1>6. AllDetected'
  <2>1. \A i \in Live : entity'[i].cols = entity[i].cols BY DEF Live, Rekeyed
  <2> QED BY <1>3, <2>1 DEF Exact, AllDetected, Detected
<1>7. Calms' /\ AllStored' BY <1>2 DEF Calms, AllStored
<1> QED BY <1>1, <1>5, <1>6, <1>7 DEF Exact

LEMMA SentIsExact ==
    ASSUME HasMany = {}, Exact, Sends, pc # "delete", NEW t, t = Head(todo),
           NEW ids, ids = SentIds,
           UNCHANGED <<tracker, nextId, db, links, directives>>,
           DOMAIN entity' = DOMAIN entity,
           \A i \in DOMAIN entity : entity'[i] = entity[i] \/ Rekeyed(i),
           KeysDiffer', RowsAre(work'),
           \A u \in Types : u # t => work'[u] = work[u],
           RowsWritten(t, ids),
           \A i \in DoneIds(t) : \A j \in ids : entity'[j].pk # entity[i].pk
    PROVE  Exact'
<1>1. Turns /\ pc \in Saving BY DEF Exact, Sends, Saving, Writes
<1>2. t \in Types /\ Turns' /\ pc' \in Saving BY <1>1, OnwardSends
<1>3. \A i \in DOMAIN entity : entity'[i].type = entity[i].type BY DEF Rekeyed
<1>4. EntriesOk(tracker) BY DEF Exact, Plain
<1>5. /\ \A u \in Types : /\ DoneIds(u)' = DoneIds(u) \cup (IF u = t THEN ids ELSE {})
                          /\ GoneIds(u)' = GoneIds(u) /\ GoneIds(u) = {}
      /\ DoneIds(t) \cap ids = {} /\ \A i \in ids : entity[i].type = t
  BY <1>1, <1>3, <1>4, DoneGrows
<1>6. \A u \in Types : WorkOf(u) BY <1>1 DEF Exact, WorkIs
<1>7. \A u \in Types : \A i \in DoneIds(u) : i \in DOMAIN entity /\ entity[i].type = u
  BY DEF DoneIds, In
<1>8. \A u \in Types : \A i \in DoneIds(u) : entity'[i] = entity[i]
  BY <1>5, <1>7 DEF Rekeyed
<1>9. WorkOf(t)'
  <2>1. DoneIds(t)' = DoneIds(t) \cup ids /\ GoneIds(t)' = {} /\ GoneIds(t) = {}
    BY <1>2, <1>5
  <2> QED BY <1>2, <1>6, <1>8, <2>1, WrittenIsExact
<1>10. ASSUME NEW u \in Types, u # t PROVE WorkOf(u)'
  <2>1. DoneIds(u)' = DoneIds(u) /\ GoneIds(u)' = GoneIds(u) /\ GoneIds(u) = {}
    BY <1>5, <1>10
  <2> QED BY <1>6, <1>8, <1>10, <2>1, SameIsExact DEF SameTable
<1>11. WorkIs' BY <1>9, <1>10 DEF WorkIs
<1> QED BY <1>1, <1>2, <1>11, PhaseIsExact

LEMMA RowDomain ==
    ASSUME NEW t, NEW cols, IsRow(t, cols)
    PROVE  DOMAIN cols = Cols[t]
BY DEF IsRow

LEMMA TableIs ==
    ASSUME RowsAre(work), NEW t \in Types
    PROVE  TableOk(t, work[t]) /\ \A k \in DOMAIN work[t] : IsRow(t, work[t][k])
BY DEF RowsAre, RowsOk

LEMMA TableReplaced ==
    ASSUME RowsAre(work), NEW t \in Types, NEW new, work' = [work EXCEPT ![t] = new],
           TableOk(t, new), \A k \in DOMAIN new : IsRow(t, new[k])
    PROVE  /\ RowsAre(work') /\ work'[t] = new
           /\ \A u \in Types : u # t => work'[u] = work[u]
<1>1. work = [u \in Types |-> work[u]] BY DEF RowsAre, RowsOk
<1>2. work'[t] = new /\ (\A u \in Types : u # t => work'[u] = work[u])
      /\ work' = [u \in Types |-> work'[u]]
  BY <1>1
<1>3. \A u \in Types : TableOk(u, work'[u]) BY <1>2 DEF RowsAre, RowsOk
<1>4. \A u \in Types : \A k \in DOMAIN work'[u] : IsRow(u, work'[u][k]) BY <1>2 DEF RowsAre
<1> QED BY <1>2, <1>3, <1>4 DEF RowsAre, RowsOk

\* The statement puts the columns of each entity where its key is.
PutIn(new, t, ids, ents) ==
    /\ DOMAIN new = DOMAIN work[t] \cup {ents[i].pk : i \in ids}
    /\ \A k \in DOMAIN new :
          /\ (\E i \in ids : ents[i].pk = k) =>
                new[k] = ents[CHOOSE i \in ids : ents[i].pk = k].cols
          /\ ~(\E i \in ids : ents[i].pk = k) => new[k] = work[t][k]
OwnRows(t, ids, ents) ==
    /\ IsFiniteSet(ids)
    /\ \A i \in ids : ents[i].pk \in Nat \ {NoKey} /\ IsRow(t, ents[i].cols)
    /\ \A i, j \in ids : ents[i].pk = ents[j].pk => i = j

LEMMA RowsArePut ==
    ASSUME RowsAre(work), NEW t \in Types, NEW ids, OwnRows(t, ids, entity'),
           NEW new, PutIn(new, t, ids, entity'), work' = [work EXCEPT ![t] = new]
    PROVE  /\ RowsAre(work') /\ RowsWritten(t, ids)
           /\ \A u \in Types : u # t => work'[u] = work[u]
<1>0. PICK ents : ents = entity' OBVIOUS
<1>13. OwnRows(t, ids, ents) /\ PutIn(new, t, ids, ents) BY <1>0
<1> USE <1>13 DEF OwnRows, PutIn
<1> DEFINE keys == {ents[i].pk : i \in ids}
           f == [i \in ids |-> ents[i].pk]
<1>1. \A i \in ids : ents[i].pk \in keys /\ new[ents[i].pk] = ents[i].cols
  <2> SUFFICES ASSUME NEW i \in ids PROVE new[ents[i].pk] = ents[i].cols
    OBVIOUS
  <2> DEFINE j == CHOOSE h \in ids : ents[h].pk = ents[i].pk
  <2>1. j \in ids /\ ents[j].pk = ents[i].pk OBVIOUS
  <2>2. j = i BY <2>1
  <2>3. new[ents[i].pk] = ents[j].cols OBVIOUS
  <2> QED BY <2>2, <2>3
<1>2. IsFiniteSet(keys)
  <2>1. keys = {f[i] : i \in ids} /\ DOMAIN f = ids OBVIOUS
  <2> HIDE DEF f, keys
  <2> QED BY <2>1, ValuesFinite
<1>3. \A k \in DOMAIN work[t] : k \notin keys => k \in DOMAIN new /\ new[k] = work[t][k] OBVIOUS
<1>4. ASSUME NEW k \in DOMAIN new
      PROVE  \/ \E i \in ids : new[k] = ents[i].cols
             \/ k \in DOMAIN work[t] /\ new[k] = work[t][k]
  <2>1. CASE \E i \in ids : ents[i].pk = k BY <1>1, <2>1
  <2>2. CASE ~\E i \in ids : ents[i].pk = k
    <3>1. k \in DOMAIN work[t] /\ new[k] = work[t][k]
      <4> HIDE DEF OwnRows, keys, f
      <4> QED BY <2>2
    <3> QED BY <3>1
  <2> QED BY <2>1, <2>2
<1>5. keys \subseteq Nat \ {NoKey} /\ \A i \in ids : IsRow(t, ents[i].cols) OBVIOUS
<1>6. DOMAIN new = DOMAIN work[t] \cup keys OBVIOUS
<1> HIDE <1>13 DEF keys, OwnRows, PutIn
<1>7. TableOk(t, work[t]) /\ \A k \in DOMAIN work[t] : IsRow(t, work[t][k]) BY TableIs
<1>8. \A k \in DOMAIN new : IsRow(t, new[k]) BY <1>4, <1>5, <1>7
<1>9. KeysOk(DOMAIN new)
  <2>1. IsFiniteSet(DOMAIN work[t]) BY <1>7 DEF TableOk, KeysOk
  <2>2. IsFiniteSet(DOMAIN work[t] \cup keys) BY <1>2, <2>1, FS_Union
  <2> QED BY <1>5, <1>6, <1>7, <2>2 DEF TableOk, KeysOk
<1>10. TableOk(t, new)
  <2>1. \A k \in DOMAIN new : DOMAIN new[k] = Cols[t] BY <1>8, RowDomain
  <2> QED BY <1>9, <2>1 DEF TableOk
<1>11. RowsAre(work') /\ work'[t] = new /\ \A u \in Types : u # t => work'[u] = work[u]
  BY <1>8, <1>10, TableReplaced
<1>12. RowsWritten(t, ids) BY <1>0, <1>1, <1>3, <1>6, <1>11 DEF RowsWritten, keys
<1> QED BY <1>11, <1>12

\* Entities that are sent with the key they have differ in it, and from those
\* that were sent before.
LEMMA SentDiffer ==
    ASSUME HasMany = {}, Exact, Sends, pc \in {"upsert", "update"}, entity' = entity,
           tracker' = tracker, NEW ids, ids = SentIds, NEW t, t = Head(todo)
    PROVE  /\ KeysDiffer'
           /\ \A i \in ids : i \in Live /\ entity[i].type = t
           /\ OwnRows(t, ids, entity)
           /\ \A i \in DoneIds(t) : \A j \in ids : entity[j].pk # entity[i].pk
           /\ t \in Types
<1>1. Turns /\ EntriesOk(tracker) /\ RowsAre(db) BY DEF Exact, Plain
<1>2. t \in Types /\ \A u \in Types : InsDone(u)' <=> InsDone(u) BY <1>1, OnwardSends
<1>3. ids \subseteq Live /\ (\A i \in ids : entity[i].type = t) /\ DoneIds(t) \cap ids = {}
  BY <1>1, DoneGrows
<1>4. \A i \in DOMAIN entity : EntityPlain(entity[i]) BY DEF Exact, Plain
<1>5. \A i \in DOMAIN entity : Given(i)' <=> Given(i)
  BY <1>2, <1>4 DEF Given, Live, Fresh, EntityPlain
<1>6. KeysDiffer' BY <1>5 DEF Exact, KeysDiffer
<1>7. ASSUME NEW i \in ids
      PROVE  i \in DOMAIN entity /\ Given(i) /\ entity[i].pk \in Nat \ {NoKey}
  <2>1. i \in Live /\ i \in DOMAIN entity BY <1>3 DEF Live
  <2>2. EntryGood(tracker[i], entity[i]) BY <2>1 DEF Exact, Entries, Sends
  <2>3. \/ tracker[i].state = "Added" /\ tracker[i].upsert
        \/ tracker[i].state = "Modified"
    BY <1>7 DEF SentIds, ToUpsert, ToUpdate, StateOf, IsUpsert
  <2>4. Given(i) BY <2>1, <2>3 DEF Given, Fresh, Assigned
  <2>5. entity[i].pk # NoKey
    <3>1. entity[i].type \in Types BY <1>4, <2>1 DEF EntityPlain
    <3>2. Has(entity[i]) => entity[i].pk # NoKey
      BY <1>1, <3>1 DEF Has, RowsAre, RowsOk, TableOk, KeysOk
    <3> QED BY <2>2, <2>3, <3>2 DEF EntryGood
  <2> QED BY <1>4, <2>1, <2>4, <2>5 DEF EntityPlain
<1>8. \A i \in DoneIds(t) : i \in DOMAIN entity /\ Given(i) /\ entity[i].type = t
  BY DEF DoneIds, In, Given, Fresh, Assigned
<1>9. \A i, j \in DOMAIN entity : /\ Given(i) /\ Given(j) /\ entity[i].type = entity[j].type
                                  /\ entity[i].pk = entity[j].pk /\ entity[i].pk # NoKey
                                  => i = j
  BY DEF Exact, KeysDiffer
<1>10. \A i, j \in ids : entity[i].pk = entity[j].pk => i = j BY <1>3, <1>7, <1>9
<1>11. \A i \in DoneIds(t) : \A j \in ids : entity[j].pk # entity[i].pk
  BY <1>3, <1>7, <1>8, <1>9
<1>12. \A i \in ids : IsRow(t, entity[i].cols) BY <1>3, <1>4, <1>7 DEF EntityPlain
<1>13. IsFiniteSet(ids)
  <2>1. ids \subseteq DOMAIN entity BY <1>7
  <2>2. nextId \in Nat /\ \A i \in DOMAIN entity : i \in Nat /\ i < nextId BY DEF Exact, Plain
  <2> QED BY <2>1, <2>2, IdsFinite
<1>14. OwnRows(t, ids, entity) BY <1>7, <1>10, <1>12, <1>13 DEF OwnRows
<1> QED BY <1>2, <1>3, <1>6, <1>11, <1>14

LEMMA ExactOfUpsert ==
    ASSUME HasMany = {}, Exact, UpsertAdded
    PROVE  Exact'
<1>1. PICK t : t = Head(todo) OBVIOUS
<1>2. PICK ids : ids = ToUpsert(t) OBVIOUS
<1>3. /\ pc = "upsert" /\ Sends
      /\ UNCHANGED <<tracker, entity, nextId, db, links, directives>>
  BY DEF UpsertAdded, dbvars, Sends
<1>4. ids = SentIds BY <1>1, <1>2, <1>3 DEF SentIds
<1>5. /\ KeysDiffer'
      /\ OwnRows(t, ids, entity) /\ t \in Types
      /\ \A i \in DoneIds(t) : \A j \in ids : entity[j].pk # entity[i].pk
  BY <1>1, <1>3, <1>4, SentDiffer
<1>6. RowsAre(work) BY <1>3 DEF Exact, WorkIs, Saving, Writes
<1>7. PICK new : new = [k \in DOMAIN work[t] \cup {entity[i].pk : i \in ids} |->
                           IF \E i \in ids : entity[i].pk = k
                           THEN entity[CHOOSE i \in ids : entity[i].pk = k].cols
                           ELSE work[t][k]]
  OBVIOUS
<1>8. work' = [work EXCEPT ![t] = new] BY <1>1, <1>2, <1>7 DEF UpsertAdded
<1>9. PutIn(new, t, ids, entity) BY <1>7 DEF PutIn
<1>10. /\ RowsAre(work') /\ RowsWritten(t, ids)
       /\ \A u \in Types : u # t => work'[u] = work[u]
  BY <1>3, <1>5, <1>6, <1>8, <1>9, RowsArePut
<1> QED BY <1>1, <1>3, <1>4, <1>5, <1>10, SentIsExact

\* The columns an UPDATE does not set are those the entity never changed.
LEMMA UpdateSetsAll ==
    ASSUME Exact, pc = "update", NEW t \in Types, GoneIds(t) = {},
           NEW ids, ids = ToUpdate(t), NEW i \in ids, IsRow(t, entity[i].cols),
           \A j \in DoneIds(t) : entity[j].pk # entity[i].pk
    PROVE  /\ entity[i].pk \in DOMAIN work[t]
           /\ entity[i].cols = [c \in Cols[t] |->
                                  IF c \in SetColumns(t, ids) THEN entity[i].cols[c]
                                  ELSE work[t][entity[i].pk][c]]
<1> DEFINE e == tracker[i]
           x == entity[i]
           sets == SetColumns(t, ids)
<1>1. \A j \in ids : j \in Live /\ tracker[j].state = "Modified" /\ entity[j].type = t
  BY DEF ToUpdate, In, StateOf, Live
<1>2. \A j \in ids : EntryGood(tracker[j], entity[j]) BY <1>1 DEF Exact, Entries
<1>3. x.pk \in DOMAIN db[t] BY <1>1, <1>2 DEF EntryGood, Has
<1>4. WorkOf(t) BY DEF Exact, WorkIs, Saving, Writes
<1>5. x.pk \notin Pks(DoneIds(t)) /\ Pks(GoneIds(t)) = {} BY DEF Pks
<1>6. x.pk \in DOMAIN work[t] /\ work[t][x.pk] = db[t][x.pk] BY <1>3, <1>4, <1>5 DEF WorkOf
<1>7. ASSUME NEW c \in Cols[t], c \notin sets PROVE work[t][x.pk][c] = x.cols[c]
  <2>1. UNION {tracker[j].mods : j \in ids} # {} /\ c \notin e.mods
    BY <1>7 DEF SetColumns
  <2>2. "edit" \in Calls
    <3>1. PICK j \in ids : tracker[j].mods # {} BY <2>1
    <3> QED BY <1>2, <3>1 DEF EntryGood
  <2>3. e.mods = Differing(x.cols, e.original) /\ e.original = db[t][x.pk]
    BY <1>1, <1>2, <2>2 DEF EntryGood, Row
  <2>4. DOMAIN x.cols = Cols[t] BY RowDomain
  <2>5. c \notin Differing(x.cols, e.original) BY <2>1, <2>3
  <2>6. e.original[c] = x.cols[c] BY <2>4, <2>5 DEF Differing
  <2> QED BY <1>6, <2>3, <2>6
<1> HIDE DEF sets
<1>8. x.cols = [c \in Cols[t] |-> x.cols[c]] BY DEF IsRow
<1>9. [c \in Cols[t] |-> IF c \in sets THEN x.cols[c] ELSE work[t][x.pk][c]]
        = [c \in Cols[t] |-> x.cols[c]]
  BY <1>7
<1> QED BY <1>6, <1>8, <1>9 DEF sets

LEMMA ExactOfUpdate ==
    ASSUME HasMany = {}, Exact, UpdateModified
    PROVE  Exact'
<1>1. PICK t : t = Head(todo) OBVIOUS
<1>2. PICK ids : ids = ToUpdate(t) OBVIOUS
<1>3. /\ pc = "update" /\ Sends
      /\ UNCHANGED <<tracker, entity, nextId, db, links, directives>>
  BY DEF UpdateModified, dbvars, Sends
<1>4. ids = SentIds BY <1>1, <1>2, <1>3 DEF SentIds
<1>5. /\ KeysDiffer' /\ OwnRows(t, ids, entity) /\ t \in Types
      /\ \A i \in DoneIds(t) : \A j \in ids : entity[j].pk # entity[i].pk
  BY <1>1, <1>3, <1>4, SentDiffer
<1>6. RowsAre(work) BY <1>3 DEF Exact, WorkIs, Saving, Writes
<1>7. GoneIds(t) = {} BY <1>3 DEF GoneIds, DelDone, Finished
<1>8. PICK new : new = Updated(t, ids) OBVIOUS
<1>9. work' = [work EXCEPT ![t] = new] BY <1>1, <1>2, <1>8 DEF UpdateModified
<1>10. ASSUME NEW i \in ids
       PROVE  /\ entity[i].pk \in DOMAIN work[t]
              /\ entity[i].cols = [c \in Cols[t] |->
                                     IF c \in SetColumns(t, ids) THEN entity[i].cols[c]
                                     ELSE work[t][entity[i].pk][c]]
  BY <1>2, <1>3, <1>5, <1>7, UpdateSetsAll DEF OwnRows
<1>11. DOMAIN new = DOMAIN work[t] \cup {entity[i].pk : i \in ids}
  <2>1. DOMAIN new = DOMAIN work[t] BY <1>8 DEF Updated
  <2>2. \A i \in ids : entity[i].pk \in DOMAIN work[t] BY <1>10
  <2> QED BY <2>1, <2>2
<1>12. ASSUME NEW k \in DOMAIN new
       PROVE  /\ (\E i \in ids : entity[i].pk = k) =>
                    new[k] = entity[CHOOSE i \in ids : entity[i].pk = k].cols
              /\ ~(\E i \in ids : entity[i].pk = k) => new[k] = work[t][k]
  <2>1. k \in DOMAIN work[t] BY <1>8, <1>12 DEF Updated
  <2>2. CASE \E i \in ids : entity[i].pk = k
    <3> DEFINE i == CHOOSE j \in ids : entity[j].pk = k
    <3>1. i \in ids /\ entity[i].pk = k BY <2>2
    <3>2. new[k] = [c \in Cols[t] |-> IF c \in SetColumns(t, ids) THEN entity[i].cols[c]
                                                                  ELSE work[t][k][c]]
      BY <1>8, <2>1, <2>2 DEF Updated
    <3> HIDE DEF i
    <3>3. new[k] = entity[i].cols BY <1>10, <3>1, <3>2
    <3> QED BY <2>2, <3>3 DEF i
  <2>3. CASE ~\E i \in ids : entity[i].pk = k
    <3>1. new[k] = work[t][k] BY <1>8, <2>1, <2>3 DEF Updated
    <3> QED BY <2>3, <3>1
  <2> QED BY <2>2, <2>3
<1>13. PutIn(new, t, ids, entity) BY <1>11, <1>12 DEF PutIn
<1>14. /\ RowsAre(work') /\ RowsWritten(t, ids)
       /\ \A u \in Types : u # t => work'[u] = work[u]
  BY <1>3, <1>5, <1>6, <1>9, <1>13, RowsArePut
<1> QED BY <1>1, <1>3, <1>4, <1>5, <1>14, SentIsExact

\* The keys an INSERT assigns are new, and differ.
LEMMA NextKeyIsGreater ==
    ASSUME NEW rows, KeysOk(DOMAIN rows)
    PROVE  \A k \in DOMAIN rows : k < NextKey(rows)
<1> DEFINE keys == DOMAIN rows \cup {0}
           m == CHOOSE n \in keys : \A k \in DOMAIN rows : k <= n
<1>1. IsFiniteSet(keys) /\ keys \in SUBSET Nat /\ keys # {}
  BY FS_AddElement DEF KeysOk
<1>2. \E n \in keys : \A k \in keys : k <= n
  <2> HIDE DEF keys
  <2> QED BY <1>1, GreatestOfFinite
<1>3. \E n \in keys : \A k \in DOMAIN rows : k <= n BY <1>2
<1>4. m \in keys /\ \A k \in DOMAIN rows : k <= m BY <1>3
<1>5. NextKey(rows) = 1 + m BY DEF NextKey
<1> HIDE DEF m
<1>6. m \in Nat BY <1>1, <1>4
<1>7. \A k \in DOMAIN rows : k \in Nat BY <1>1
<1> QED BY <1>4, <1>5, <1>6, <1>7

LEMMA RanksDiffer ==
    ASSUME nextId \in Nat, \A i \in DOMAIN entity : i \in Nat /\ i < nextId,
           NEW ids \in SUBSET DOMAIN entity, NEW i \in ids, NEW j \in ids,
           Rank(i, ids) = Rank(j, ids)
    PROVE  i = j
<1> DEFINE S(n) == {h \in ids : h < n}
<1>1. \A h \in ids : h \in Nat OBVIOUS
<1>2. \A n \in ids : IsFiniteSet(S(n)) BY IdsFinite
<1>3. ASSUME NEW m \in ids, NEW n \in ids, m < n PROVE Rank(m, ids) # Rank(n, ids)
  <2>1. S(m) \subseteq S(n) /\ m \in S(n) /\ m \notin S(m) BY <1>1, <1>3
  <2>2. S(m) # S(n) BY <2>1
  <2>3. IsFiniteSet(S(n)) BY <1>2
  <2> HIDE DEF S
  <2>4. Cardinality(S(m)) # Cardinality(S(n)) BY <2>1, <2>2, <2>3, FS_Subset
  <2> QED BY <2>4 DEF Rank, S
<1>4. i < j \/ j < i \/ i = j BY <1>1
<1> QED BY <1>3, <1>4

\* Without links the insertion gives the new entities their keys, and stores
\* them.
LEMMA InsertGivesKeys ==
    ASSUME links = {}, InsertAdded, NEW t, t = Head(todo), NEW ids, ids = ToInsert(t)
    PROVE  /\ DOMAIN entity' = DOMAIN entity
           /\ \A i \in DOMAIN entity \ ids : entity'[i] = entity[i]
           /\ \A i \in ids : entity'[i] = [entity[i] EXCEPT !.pk = NextKey(work[t]) + Rank(i, ids)]
           /\ \E new : work' = [work EXCEPT ![t] = new] /\ PutIn(new, t, ids, entity')
<1> DEFINE ents == Backfilled(t, ids)
           fixed == FixedUp(t, ents)
           own == {l.child : l \in {k \in Linked(t) : entity[k.child].type = t}}
           keys == {ents[i].pk : i \in ids}
           new == Inserted(t, ids, ents, fixed)
<1>1. Linked(t) = {} BY DEF Linked
<1>2. fixed = ents BY <1>1 DEF FixedUp, Backfilled
<1>3. work' = [work EXCEPT ![t] = new] /\ entity' = fixed BY DEF InsertAdded
<1>4. own = {} BY <1>1
<1>5. new = [k \in DOMAIN work[t] \cup keys |->
                IF k \in keys THEN ents[CHOOSE i \in ids : ents[i].pk = k].cols
                ELSE work[t][k]]
  <2> HIDE DEF ents, fixed
  <2>1. new = [k \in DOMAIN work[t] \cup keys |->
                  IF \E i \in own : fixed[i].pk = k
                  THEN IF k \in keys
                       THEN fixed[CHOOSE i \in ids : ents[i].pk = k].cols
                       ELSE [work[t][k] EXCEPT !.fk =
                                fixed[CHOOSE i \in own : fixed[i].pk = k].cols.fk]
                  ELSE IF k \in keys THEN ents[CHOOSE i \in ids : ents[i].pk = k].cols
                       ELSE work[t][k]]
    BY DEF Inserted
  <2>2. \A k : ~\E i \in own : fixed[i].pk = k
    <3> HIDE DEF own
    <3> QED BY <1>4
  <2> HIDE DEF own, keys, new
  <2> QED BY <2>1, <2>2
<1>6. DOMAIN ents = DOMAIN entity
      /\ \A i \in DOMAIN entity :
            /\ i \notin ids => ents[i] = entity[i]
            /\ i \in ids => ents[i] = [entity[i] EXCEPT !.pk = NextKey(work[t]) + Rank(i, ids)]
  BY DEF Backfilled
<1>7. ids \subseteq DOMAIN entity BY DEF ToInsert, In
<1> HIDE DEF ents, fixed, new
<1>8. PutIn(new, t, ids, ents) BY <1>5 DEF PutIn
<1> QED BY <1>2, <1>3, <1>6, <1>7, <1>8

LEMMA ExactOfInsert ==
    ASSUME ExactSafe, Exact, others = 0, KeysApart, InsertAdded
    PROVE  Exact'
<1>1. PICK t : t = Head(todo) OBVIOUS
<1>2. PICK ids : ids = ToInsert(t) OBVIOUS
<1>3. /\ pc = "insert" /\ Sends /\ HasMany = {}
      /\ UNCHANGED <<tracker, nextId, db, links, directives>>
  BY DEF InsertAdded, dbvars, Sends, ExactSafe
<1>4. ids = SentIds BY <1>1, <1>2, <1>3 DEF SentIds
<1>5. /\ DOMAIN entity' = DOMAIN entity
      /\ \A i \in DOMAIN entity \ ids : entity'[i] = entity[i]
      /\ \A i \in ids : entity'[i] = [entity[i] EXCEPT !.pk = NextKey(work[t]) + Rank(i, ids)]
      /\ \E new : work' = [work EXCEPT ![t] = new] /\ PutIn(new, t, ids, entity')
  BY <1>1, <1>2, InsertGivesKeys DEF Exact, Plain
<1>6. Turns /\ nextId \in Nat /\ (\A i \in DOMAIN entity : i \in Nat /\ i < nextId)
      /\ \A i \in DOMAIN entity : EntityPlain(entity[i])
  BY DEF Exact, Plain
<1>7. /\ t \in Types /\ ~InsDone(t)
      /\ \A u \in Types : (InsDone(u)' <=> InsDone(u) \/ u = t) /\ ~DelDone(u)
  BY <1>1, <1>3, <1>6, OnwardSends
<1>8. RowsAre(work) BY <1>3 DEF Exact, WorkIs, Saving, Writes
<1>9. KeysOk(DOMAIN work[t]) BY <1>7, <1>8, TableIs DEF TableOk
<1>10. PICK next \in Nat \ {NoKey} : next = NextKey(work[t]) /\ \A k \in DOMAIN work[t] : k < next
  BY <1>9, NextKeyIsKey, NextKeyIsGreater
<1>11. \A i : i \in ids <=> i \in Live /\ Fresh(i) /\ entity[i].type = t
  BY <1>2 DEF ToInsert, In, StateOf, IsUpsert, Live, Fresh, Assigned
<1>12. ids \in SUBSET DOMAIN entity BY <1>11 DEF Live
<1>13. ASSUME NEW i \in ids
       PROVE  /\ EntityPlain(entity'[i]) /\ entity'[i].type = t
              /\ entity'[i].cols = entity[i].cols /\ IsRow(t, entity'[i].cols)
              /\ entity'[i].pk = next + Rank(i, ids) /\ Rank(i, ids) \in Nat
  <2>1. Rank(i, ids) \in Nat BY <1>6, <1>12, RankIsNat
  <2>2. EntityPlain(entity[i]) /\ entity[i].type = t BY <1>6, <1>11, <1>12
  <2> DEFINE x == entity[i] pk == next + Rank(i, ids)
  <2>3. pk \in Nat BY <2>1
  <2>4. entity'[i] = [x EXCEPT !.pk = pk] BY <1>5, <1>10
  <2> HIDE DEF x, pk
  <2>5. x = [type |-> x.type, pk |-> x.pk, cols |-> x.cols, kids |-> {}]
        /\ x.type = t /\ IsRow(t, x.cols)
    BY <2>2 DEF EntityPlain, x
  <2>6. entity'[i] = [type |-> t, pk |-> pk, cols |-> x.cols, kids |-> {}] BY <2>4, <2>5
  <2>7. EntityPlain(entity'[i]) BY <1>7, <2>3, <2>5, <2>6 DEF EntityPlain
  <2> QED BY <2>1, <2>5, <2>6, <2>7 DEF x, pk
<1>14. \A i \in DOMAIN entity : entity'[i] = entity[i] \/ Rekeyed(i)
  <2>1. \A i \in ids : entity[i].type = t BY <1>11
  <2> QED BY <1>3, <1>4, <1>5, <1>13, <2>1 DEF Rekeyed
<1>15. \A i, j \in ids : entity'[i].pk = entity'[j].pk => i = j
  <2> SUFFICES ASSUME NEW i \in ids, NEW j \in ids, entity'[i].pk = entity'[j].pk PROVE i = j
    OBVIOUS
  <2>1. Rank(i, ids) = Rank(j, ids)
    <3>1. next + Rank(i, ids) = next + Rank(j, ids) BY <1>13
    <3>2. Rank(i, ids) \in Nat /\ Rank(j, ids) \in Nat BY <1>13
    <3> QED BY <3>1, <3>2
  <2> QED BY <1>6, <1>12, <2>1, RanksDiffer
<1>16. ASSUME NEW i \in ids, NEW j \in DOMAIN entity, Given(j), entity[j].type = t
       PROVE  entity'[i].pk # entity[j].pk
  <2>1. j \in Live /\ ~Fresh(j) BY <1>7, <1>16 DEF Given
  <2>2. EntryGood(tracker[i], entity[i]) /\ EntryGood(tracker[j], entity[j])
    BY <1>3, <1>11, <2>1 DEF Exact, Entries
  <2>3. CASE tracker[j].upsert
    <3>1. i \in In(t) /\ j \in In(t) /\ IsUpsert(j)
      BY <1>11, <1>16, <2>1, <2>3 DEF In, Live, IsUpsert
    <3>2. NextKey(work[t]) + Rank(i, ids) # entity[j].pk
      BY <1>1, <1>2, <1>3, <3>1 DEF KeysApart
    <3> QED BY <1>10, <1>13, <3>2
  <2> SUFFICES ASSUME ~tracker[j].upsert PROVE entity'[i].pk # entity[j].pk BY <2>3
  <2>4. entity[j].pk = NoKey \/ entity[j].pk \in DOMAIN db[t]
    BY <1>16, <2>1, <2>2 DEF EntryGood, Has, Fresh
  <2>5. WorkOf(t) /\ GoneIds(t) = {}
    BY <1>3, <1>7 DEF Exact, WorkIs, Saving, Writes, GoneIds
  <2>6. DOMAIN db[t] \subseteq DOMAIN work[t] BY <2>5 DEF WorkOf, Pks
  <2>7. entity[j].pk = NoKey \/ entity[j].pk < next BY <1>10, <2>4, <2>6
  <2>8. entity[j].pk \in Nat BY <1>6 DEF EntityPlain
  <2> QED BY <1>13, <2>7, <2>8 DEF NoKey
<1>17. KeysDiffer'
  <2>1. Live' = Live /\ \A i : Fresh(i)' <=> Fresh(i) BY <1>3, <1>5 DEF Live, Fresh
  <2>2. \A i \in DOMAIN entity : entity'[i].type = entity[i].type /\ entity[i].type \in Types
    BY <1>6, <1>14 DEF Rekeyed, EntityPlain
  <2>3. ASSUME NEW i \in DOMAIN entity', Given(i)'
        PROVE  i \in DOMAIN entity /\ (i \in ids \/ (Given(i) /\ entity'[i] = entity[i]))
    <3>1. i \in DOMAIN entity /\ i \in Live /\ (Fresh(i) => InsDone(entity[i].type)')
      BY <1>5, <2>1, <2>2, <2>3 DEF Given
    <3>2. i \notin ids => Given(i) BY <1>7, <1>11, <2>2, <3>1 DEF Given
    <3> QED BY <1>5, <3>1, <3>2
  <2> SUFFICES ASSUME NEW i \in DOMAIN entity', NEW j \in DOMAIN entity', Given(i)', Given(j)',
                      entity'[i].type = entity'[j].type, entity'[i].pk = entity'[j].pk,
                      entity'[i].pk # NoKey
               PROVE  i = j
    BY DEF KeysDiffer
  <2>4. CASE i \in ids /\ j \in ids BY <1>15, <2>4
  <2>5. CASE i \in ids /\ j \notin ids
    <3>1. Given(j) /\ entity'[j] = entity[j] /\ j \in DOMAIN entity BY <2>3, <2>5
    <3>2. entity[j].type = t BY <1>13, <2>5, <3>1
    <3> QED BY <1>16, <2>5, <3>1, <3>2
  <2>6. CASE i \notin ids /\ j \in ids
    <3>1. Given(i) /\ entity'[i] = entity[i] /\ i \in DOMAIN entity BY <2>3, <2>6
    <3>2. entity[i].type = t BY <1>13, <2>6, <3>1
    <3> QED BY <1>16, <2>6, <3>1, <3>2
  <2>7. CASE i \notin ids /\ j \notin ids
    <3>1. Given(i) /\ entity'[i] = entity[i] /\ i \in DOMAIN entity BY <2>3, <2>7
    <3>2. Given(j) /\ entity'[j] = entity[j] /\ j \in DOMAIN entity BY <2>3, <2>7
    <3> QED BY <3>1, <3>2 DEF Exact, KeysDiffer
  <2> QED BY <2>4, <2>5, <2>6, <2>7
<1>18. OwnRows(t, ids, entity')
  <2>1. \A i \in ids : entity'[i].pk \in Nat \ {NoKey} BY <1>10, <1>13 DEF NoKey
  <2>2. IsFiniteSet(ids) BY <1>6, <1>12, IdsFinite
  <2> QED BY <1>13, <1>15, <2>1, <2>2 DEF OwnRows
<1>19. PICK new : work' = [work EXCEPT ![t] = new] /\ PutIn(new, t, ids, entity') BY <1>5
<1>20. /\ RowsAre(work') /\ RowsWritten(t, ids)
       /\ \A u \in Types : u # t => work'[u] = work[u]
  BY <1>7, <1>8, <1>18, <1>19, RowsArePut
<1>21. \A i \in DoneIds(t) : FALSE
  BY <1>3, <1>7 DEF DoneIds, UpsDone, UpdDone, Finished
<1> QED BY <1>1, <1>3, <1>4, <1>5, <1>14, <1>17, <1>20, <1>21, SentIsExact

\* Without navigations no directive is sent.
LEMMA ExactOfDirectives ==
    ASSUME Exact, SetNullDirectives \/ CascadeDirectives
    PROVE  Exact'
<1>1. PICK action : work' = Directed(work, action)
  BY DEF SetNullDirectives, CascadeDirectives
<1>2. /\ UNCHANGED <<entity, tracker, nextId, db, todo, links, directives>>
      /\ (pc = "set_null" /\ pc' = "delete") \/ (pc = "prune" /\ pc' = "commit")
  BY DEF SetNullDirectives, CascadeDirectives, dbvars
<1>3. RowsAre(work) /\ \A t \in Types : WorkOf(t)
  BY <1>2 DEF Exact, WorkIs, Saving, Writes
<1>4. \A t \in Types :
         \/ work'[t] = Drop(work[t], {})
         \/ work'[t] = [k \in DOMAIN work[t] |-> work[t][k]]
  <2>1. directives = {} BY DEF Exact, Plain
  <2>2. \A t \in Types : {k \in DOMAIN work[t] : \E d \in directives :
                             d.action = action /\ d.type = t /\ work[t][k].fk = d.key} = {}
    BY <2>1
  <2>3. \A t \in Types :
           work'[t] = IF action = "Cascade" THEN Drop(work[t], {})
                      ELSE [k \in DOMAIN work[t] |->
                               IF k \in {} THEN [work[t][k] EXCEPT !.fk = Null] ELSE work[t][k]]
    BY <1>1, <2>2 DEF Directed
  <2> QED BY <2>3
<1>5. \A t \in Types : SameTable(t) BY <1>4 DEF SameTable, Drop
<1>6. work' = [t \in Types |-> work'[t]] BY <1>1 DEF Directed
<1>7. RowsAre(work') BY <1>3, <1>5, <1>6 DEF RowsAre, RowsOk, TableOk, SameTable
<1>8. Turns BY DEF Exact
<1>9. \A t \in Types : /\ InsDone(t)' <=> InsDone(t)
                       /\ UpsDone(t)' <=> UpsDone(t)
                       /\ UpdDone(t)' <=> UpdDone(t)
                       /\ DelDone(t)' <=> DelDone(t)
  BY <1>2, <1>8 DEF InsDone, UpsDone, UpdDone, DelDone, Finished, Turns, ToCome
<1>10. \A t \in Types : DoneIds(t)' = DoneIds(t) /\ GoneIds(t)' = GoneIds(t)
  BY <1>2, <1>9 DEF DoneIds, GoneIds, In, Live, Fresh, ToDelete, StateOf
<1>11. WorkIs' BY <1>2, <1>3, <1>5, <1>7, <1>10, SameIsExact DEF WorkIs
<1>12. Turns' BY <1>2, <1>8 DEF Turns, Drains, Writes
<1>13. \A i \in DOMAIN entity : entity[i].type \in Types BY DEF Exact, Plain, EntityPlain
<1>14. KeysDiffer'
  BY <1>2, <1>9, <1>13 DEF Exact, KeysDiffer, Given, Live, Fresh
<1> QED BY <1>2, <1>11, <1>12, <1>14, PhaseIsExact DEF Saving, Writes

\* What was sent, or is deleted, has a key of its own.
LEMMA GoneDiffer ==
    ASSUME Exact, pc \in Saving, NEW t \in Types, NEW j \in ToDelete(t)
    PROVE  \A i \in DoneIds(t) : entity[i].pk # entity[j].pk
<1>1. RowsAre(work) /\ WorkOf(t) BY DEF Exact, WorkIs
<1>2. KeysOk(DOMAIN work[t]) BY <1>1, TableIs DEF TableOk
<1>3. j \in DOMAIN entity /\ entity[j].type = t /\ tracker[j].state = "Deleted" /\ Given(j)
  BY DEF ToDelete, In, StateOf, Given, Live, Fresh, Assigned
<1>4. ASSUME NEW i \in DoneIds(t)
      PROVE  /\ i \in DOMAIN entity /\ entity[i].type = t /\ Given(i) /\ i # j
             /\ entity[i].pk # NoKey
  <2>1. i \in DOMAIN entity /\ entity[i].type = t /\ Given(i)
    BY DEF DoneIds, In, Given, Fresh, Assigned
  <2>2. tracker[i].state # "Deleted" BY DEF DoneIds, Fresh, Assigned
  <2>3. entity[i].pk \in DOMAIN work[t] BY <1>1 DEF WorkOf
  <2> QED BY <1>2, <1>3, <2>1, <2>2, <2>3 DEF KeysOk
<1> QED BY <1>3, <1>4 DEF Exact, KeysDiffer

LEMMA ExactOfDelete ==
    ASSUME ExactSafe, Exact, DeleteDeleted
    PROVE  Exact'
<1>1. PICK t : t = Head(todo) OBVIOUS
<1>2. PICK ids : ids = ToDelete(t) OBVIOUS
<1>3. /\ pc = "delete" /\ Sends /\ HasMany = {}
      /\ UNCHANGED <<tracker, entity, nextId, db, links, directives>>
  BY DEF DeleteDeleted, dbvars, Sends, ExactSafe
<1>4. PICK keys : keys = Reached(t, ids) OBVIOUS
<1>5. PICK new : new = Drop(work[t], keys) OBVIOUS
<1>6. work' = [work EXCEPT ![t] = new]
  BY <1>1, <1>2, <1>4, <1>5, NoChildren DEF DeleteDeleted, AfterDelete
<1>7. Turns /\ EntriesOk(tracker) BY DEF Exact, Plain
<1>8. /\ t \in Types /\ Turns' /\ pc' \in Saving
      /\ ~DelDone(t) /\ \A u \in Types : InsDone(u)' <=> InsDone(u)
  BY <1>1, <1>3, <1>7, OnwardSends
<1>9. \A u \in Types : /\ DoneIds(u)' = DoneIds(u)
                       /\ GoneIds(u)' = GoneIds(u) \cup (IF u = t THEN ids ELSE {})
  BY <1>1, <1>2, <1>3, <1>7, DoneGrows DEF SentIds
<1>10. GoneIds(t) = {} BY <1>8 DEF GoneIds
<1>11. RowsAre(work) /\ \A u \in Types : WorkOf(u)
  BY <1>3 DEF Exact, WorkIs, Saving
<1>12. DOMAIN new = DOMAIN work[t] \ Pks(ids) /\ \A k \in DOMAIN new : new[k] = work[t][k]
  BY <1>4, <1>5 DEF Drop, Reached, Pks
<1>13. TableOk(t, new) /\ \A k \in DOMAIN new : IsRow(t, new[k])
  <2>1. TableOk(t, work[t]) /\ \A k \in DOMAIN work[t] : IsRow(t, work[t][k])
    BY <1>8, <1>11, TableIs
  <2>2. IsFiniteSet(DOMAIN work[t]) /\ DOMAIN new \subseteq DOMAIN work[t]
    BY <1>12, <2>1 DEF TableOk, KeysOk
  <2>3. IsFiniteSet(DOMAIN new) BY <2>2, FS_Subset
  <2> QED BY <1>12, <2>1, <2>2, <2>3 DEF TableOk, KeysOk
<1>14. RowsAre(work') /\ work'[t] = new /\ \A u \in Types : u # t => work'[u] = work[u]
  BY <1>6, <1>8, <1>11, <1>13, TableReplaced
<1>15. WorkOf(t)'
  <2>1. WorkOf(t) BY <1>8, <1>11
  <2>2. DoneIds(t)' = DoneIds(t) /\ GoneIds(t)' = ids BY <1>8, <1>9, <1>10
  <2>3. Pks(DoneIds(t))' = Pks(DoneIds(t)) /\ Pks(GoneIds(t))' = Pks(ids) /\ Pks(GoneIds(t)) = {}
    BY <1>3, <1>10, <2>2 DEF Pks
  <2>4. ASSUME NEW i \in DoneIds(t) PROVE entity[i].pk \notin Pks(ids)
    <3>1. ASSUME NEW j \in ids PROVE entity[i].pk # entity[j].pk
      BY <1>2, <1>3, <1>8, GoneDiffer DEF Saving
    <3> QED BY <3>1 DEF Pks
  <2>5. DOMAIN work[t] = DOMAIN db[t] \cup Pks(DoneIds(t))
        /\ (\A i \in DoneIds(t) :
               entity[i].pk \in DOMAIN work[t] /\ work[t][entity[i].pk] = entity[i].cols)
        /\ \A k \in DOMAIN db[t] \ Pks(DoneIds(t)) : work[t][k] = db[t][k]
    BY <2>1, <2>3 DEF WorkOf
  <2>6. DOMAIN work'[t] = (DOMAIN db'[t] \cup Pks(DoneIds(t))') \ Pks(GoneIds(t))'
    BY <1>3, <1>12, <1>14, <2>3, <2>5
  <2>7. \A i \in DoneIds(t)' :
           entity'[i].pk \in DOMAIN work'[t] /\ work'[t][entity'[i].pk] = entity'[i].cols
    BY <1>3, <1>12, <1>14, <2>2, <2>4, <2>5
  <2>8. \A k \in DOMAIN db'[t] \ (Pks(DoneIds(t))' \cup Pks(GoneIds(t))') : work'[t][k] = db'[t][k]
    BY <1>3, <1>12, <1>14, <2>3, <2>5
  <2> QED BY <2>6, <2>7, <2>8 DEF WorkOf
<1>16. ASSUME NEW u \in Types, u # t PROVE WorkOf(u)'
  <2>1. DoneIds(u)' = DoneIds(u) /\ GoneIds(u)' = GoneIds(u) BY <1>9, <1>16
  <2>2. SameTable(u) BY <1>14, <1>16 DEF SameTable
  <2> QED BY <1>3, <1>11, <2>1, <2>2, SameIsExact
<1>17. WorkIs' BY <1>14, <1>15, <1>16 DEF WorkIs
<1>18. \A i \in DOMAIN entity : entity[i].type \in Types BY DEF Exact, Plain, EntityPlain
<1>19. KeysDiffer' BY <1>3, <1>8, <1>18 DEF Exact, KeysDiffer, Given, Live, Fresh
<1> QED BY <1>3, <1>8, <1>17, <1>19, PhaseIsExact DEF Saving

(***************************************************************************)
(* The commit, and what follows it.                                        *)
(***************************************************************************)
\* When every statement was sent, the work is the unit of work.
LEMMA AllAreSent ==
    ASSUME pc = "commit", NEW t
    PROVE  /\ DoneIds(t) = ToInsert(t) \cup ToUpsert(t) \cup ToUpdate(t)
           /\ GoneIds(t) = ToDelete(t)
<1>1. InsDone(t) /\ UpsDone(t) /\ UpdDone(t) /\ DelDone(t)
  BY DEF InsDone, UpsDone, UpdDone, DelDone, Finished
<1>2. GoneIds(t) = ToDelete(t) BY <1>1 DEF GoneIds
<1>3. \A i \in In(t) : i \in Live /\ (Fresh(i) \/ (tracker[i].state = "Added" /\ tracker[i].upsert)
                                       \/ tracker[i].state = "Modified")
                       <=> i \in ToInsert(t) \cup ToUpsert(t) \cup ToUpdate(t)
  BY DEF Live, In, Fresh, Assigned, ToInsert, ToUpsert, ToUpdate, StateOf, IsUpsert
<1>4. ToInsert(t) \cup ToUpsert(t) \cup ToUpdate(t) \subseteq In(t)
  BY DEF ToInsert, ToUpsert, ToUpdate
<1>5. DoneIds(t) = ToInsert(t) \cup ToUpsert(t) \cup ToUpdate(t)
  BY <1>1, <1>3, <1>4 DEF DoneIds
<1> QED BY <1>2, <1>5

LEMMA AllAreDone ==
    ASSUME Exact, pc = "commit", NEW t \in Types
    PROVE  /\ DoneIds(t) = ToInsert(t) \cup ToUpsert(t) \cup ToUpdate(t)
           /\ GoneIds(t) = ToDelete(t) /\ WorkOf(t)
BY AllAreSent DEF Exact, WorkIs, Saving

\* The acceptance visits every type once.
LEMMA AcceptTurns ==
    ASSUME pc' = "accept", todo' = InsertOrder
    PROVE  Turns'
<1>1. EachOnce(InsertOrder) BY OrderIsEachOnce
<1>2. OneType => Len(InsertOrder) = 1 BY OneSet
<1> QED BY <1>1, <1>2 DEF Turns, EachOnce, Drains, Writes

LEMMA AcceptTurnsOn ==
    ASSUME Turns, Accept
    PROVE  Turns' /\ pc' \in {"idle", "accept"} /\ (pc' = "accept" => ~OneType)
<1>1. PICK n \in DOMAIN todo :
          IF Len(todo) = 1
          THEN SaveReturns
          ELSE /\ todo' = [m \in 1..(Len(todo) - 1) |->
                              IF m < n THEN todo[m] ELSE todo[m + 1]]
               /\ UNCHANGED pc
  BY DEF Accept
<1>2. pc = "accept" BY DEF Accept
<1>3. todo # <<>> /\ todo \in Seq(Types) /\ (OneType => Len(todo) = 1) BY <1>2 DEF Turns
<1>4. CASE Len(todo) = 1
  <2>1. pc' = "idle" BY <1>1, <1>4 DEF SaveReturns
  <2> QED BY <2>1 DEF Turns, Drains, Writes
<1>5. CASE Len(todo) # 1
  <2>1. todo' = [m \in 1..(Len(todo) - 1) |-> IF m < n THEN todo[m] ELSE todo[m + 1]]
        /\ pc' = "accept"
    BY <1>1, <1>2, <1>5
  <2>2. todo' # <<>> /\ todo' \in Seq(Types)
    <3>0. Len(todo) \in Nat /\ DOMAIN todo = 1..Len(todo) BY <1>3
    <3>1. Len(todo) \in Nat /\ Len(todo) > 1 /\ DOMAIN todo = 1..Len(todo) /\ n \in Nat
      BY <1>5, <3>0
    <3>2. PICK len \in Nat : len = Len(todo) - 1 /\ len > 0
      <4>1. Len(todo) - 1 \in Nat /\ Len(todo) - 1 > 0 BY <3>1
      <4> QED BY <4>1
    <3>3. \A m \in 1..len : m \in 1..Len(todo) /\ m + 1 \in 1..Len(todo) BY <3>1, <3>2
    <3>4. \A m \in 1..Len(todo) : todo[m] \in Types BY <1>3
    <3>5. todo' = [m \in 1..len |-> IF m < n THEN todo[m] ELSE todo[m + 1]] BY <2>1, <3>2
    <3>6. todo' \in [1..len -> Types] BY <3>3, <3>4, <3>5
    <3>7. todo' \in Seq(Types) /\ Len(todo') = len BY <3>2, <3>6
    <3> QED BY <3>2, <3>7
  <2>3. ~OneType BY <1>3, <1>5
  <2> QED BY <2>1, <2>2, <2>3 DEF Turns, Drains, Writes
<1> QED BY <1>4, <1>5

LEMMA ExactOfCommit ==
    ASSUME Exact, Commit
    PROVE  Exact'
<1>1. /\ pc = "commit" /\ pc' = "accept" /\ db' = work /\ todo' = InsertOrder
      /\ UNCHANGED <<entity, tracker, nextId, links, directives>>
  BY DEF Commit
<1>2. RowsAre(work) /\ RowsAre(db) BY <1>1 DEF Exact, Plain, WorkIs, Saving
<1>3. Plain' BY <1>1, <1>2 DEF Exact, Plain, RowsAre, RowsOk, TableOk
<1>4. Entries' /\ Calms' /\ AllDetected' /\ WorkIs'
  BY <1>1 DEF Entries, Calms, AllDetected, WorkIs, Saving, Drains, Writes
<1>5. \A t : InsDone(t) /\ InsDone(t)' BY <1>1 DEF InsDone, Finished
<1>6. KeysDiffer' BY <1>1, <1>5 DEF Exact, KeysDiffer, Given, Live, Fresh
<1>7. Turns' BY <1>1, AcceptTurns
<1>8. ASSUME NEW i \in Live PROVE Stored(tracker[i], entity[i])'
  <2> DEFINE e == tracker[i]
             x == entity[i]
  <2>1. EntryGood(e, x) BY <1>1 DEF Exact, Entries
  <2>2. PICK t \in Types : t = x.type /\ i \in In(t)
    BY DEF Exact, Plain, EntityPlain, Live, In
  <2>3. /\ DoneIds(t) = ToInsert(t) \cup ToUpsert(t) \cup ToUpdate(t)
        /\ GoneIds(t) = ToDelete(t) /\ WorkOf(t)
    BY <1>1, AllAreDone
  <2>4. Has(x)' <=> x.pk \in DOMAIN work[t] BY <1>1, <2>2 DEF Has
  <2>5. Row(x)' = work[t][x.pk] BY <1>1, <2>2 DEF Row
  <2>6. e.state \in {"Added", "Modified"} => i \in DoneIds(t)
    BY <2>2, <2>3 DEF ToInsert, ToUpsert, ToUpdate, StateOf, IsUpsert, Live
  <2>7. e.state \in {"Added", "Modified"} => x.pk \in DOMAIN work[t] /\ work[t][x.pk] = x.cols
    BY <2>3, <2>6 DEF WorkOf
  <2>8. ASSUME Has(x), ~Assigned(e), NEW j \in DoneIds(t) \cup GoneIds(t), entity[j].pk = x.pk
        PROVE  i = j
    <3>1. j \in DOMAIN entity /\ Given(j) /\ entity[j].type = t
      BY <1>5 DEF DoneIds, GoneIds, ToDelete, In, Given, StateOf, Live
    <3>2. i \in DOMAIN entity /\ Given(i) BY <1>5 DEF Given, Live
    <3>3. x.pk # NoKey BY <1>2, <2>2, <2>8 DEF Has, RowsAre, RowsOk, TableOk, KeysOk
    <3> QED BY <2>2, <2>8, <3>1, <3>2, <3>3 DEF Exact, KeysDiffer
  <2>9. ASSUME Has(x), ~Assigned(e), e.state # "Deleted" PROVE x.pk \in DOMAIN work[t]
    <3>1. i \notin GoneIds(t) BY <2>3, <2>9 DEF ToDelete, StateOf, Live
    <3>2. x.pk \notin Pks(GoneIds(t)) BY <2>8, <2>9, <3>1 DEF Pks
    <3>3. x.pk \in DOMAIN db[t] BY <2>2, <2>9 DEF Has
    <3> QED BY <2>3, <3>2, <3>3 DEF WorkOf
  <2>10. ASSUME Has(x), e.state \notin PendingStates PROVE work[t][x.pk] = Row(x)
    <3>1. ~Assigned(e) BY <2>10 DEF Assigned, PendingStates
    <3>2. i \notin DoneIds(t) \cup GoneIds(t)
      BY <2>3, <2>10 DEF ToInsert, ToUpsert, ToUpdate, ToDelete, StateOf, Live, PendingStates
    <3>3. x.pk \notin Pks(DoneIds(t)) \cup Pks(GoneIds(t))
      BY <2>8, <2>10, <3>1, <3>2 DEF Pks
    <3>4. x.pk \in DOMAIN db[t] /\ Row(x) = db[t][x.pk] BY <2>2, <2>10 DEF Has, Row
    <3> QED BY <2>3, <3>3, <3>4 DEF WorkOf
  <2> HIDE DEF e, x
  <2>11. ASSUME e.state # "Deleted"
         PROVE  /\ x.pk = NoKey \/ x.pk \in DOMAIN work[t] \/ e.upsert
                /\ e.original # NoSnapshot => x.pk \in DOMAIN work[t]
                /\ e.state \in {"Added", "Modified"} =>
                      x.pk \in DOMAIN work[t] /\ work[t][x.pk] = x.cols
                /\ "edit" \in Calls /\ e.state \notin PendingStates /\ e.original # NoSnapshot =>
                      e.original = work[t][x.pk]
    <3>1. Assigned(e) => e.state = "Added" BY DEF Assigned
    <3>2. e.original # NoSnapshot => Has(x) /\ ~Assigned(e) BY <2>1, <3>1 DEF EntryGood
    <3>3. x.pk = NoKey \/ x.pk \in DOMAIN work[t] \/ e.upsert
      BY <2>1, <2>7, <2>9, <2>11, <3>1 DEF EntryGood
    <3>4. e.original # NoSnapshot => x.pk \in DOMAIN work[t] BY <2>9, <2>11, <3>2
    <3>5. "edit" \in Calls /\ e.original # NoSnapshot => e.original = Row(x)
      BY <2>1 DEF EntryGood
    <3> QED BY <2>7, <2>10, <3>2, <3>3, <3>4, <3>5
  <2>12. Stored(e, x)'
    <3>1. e' = e /\ x' = x BY <1>1 DEF e, x
    <3> QED BY <2>1, <2>4, <2>5, <2>11, <3>1 DEF Stored, EntryGood
  <2> QED BY <2>12 DEF e, x
<1>9. AllStored' BY <1>1, <1>8 DEF AllStored, Live
<1> QED BY <1>3, <1>4, <1>6, <1>7, <1>9 DEF Exact

\* Acceptance of a set: what is left is Unchanged, with the columns of its row
\* or the original it had.
Accepted(old, new, x) ==
    \/ old.state \notin PendingStates /\ new = old
    \/ /\ old.state \in {"Added", "Modified"}
       /\ \E o \in {old.original, x.cols} :
             /\ OneType => o = x.cols
             /\ new = [old EXCEPT !.state = "Unchanged", !.mods = {}, !.original = o]

LEMMA AcceptedIsGood ==
    ASSUME ExactSafe, NEW old, EntryOk(old), NEW x, Stored(old, x), NEW new, Accepted(old, new, x)
    PROVE  EntryGood(new, x) /\ Calm(new, x) /\ Stored(new, x) /\ ~Assigned(new)
<1>1. CASE old.state \notin PendingStates /\ new = old
  <2>1. ~Assigned(new) /\ new.state \notin PendingStates BY <1>1 DEF Assigned, PendingStates
  <2> QED BY <1>1, <2>1 DEF Stored, EntryGood, Calm, ExactSafe, PendingStates
<1>2. CASE old.state \in {"Added", "Modified"}
           /\ \E o \in {old.original, x.cols} :
                 /\ OneType => o = x.cols
                 /\ new = [old EXCEPT !.state = "Unchanged", !.mods = {}, !.original = o]
  <2>1. PICK o \in {old.original, x.cols} :
           /\ OneType => o = x.cols
           /\ new = [old EXCEPT !.state = "Unchanged", !.mods = {}, !.original = o]
    BY <1>2
  <2>2. /\ new.state = "Unchanged" /\ new.mods = {} /\ new.original = o
        /\ new.upsert = old.upsert
    BY <2>1 DEF EntryOk
  <2>3. ~Assigned(new) BY <2>2 DEF Assigned
  <2>4. /\ x.pk = NoKey \/ Has(x) \/ old.upsert
        /\ Has(x) /\ Row(x) = x.cols
        /\ "upsert" \notin Calls => ~old.upsert
        /\ "edit" \notin Calls => old.original \in {NoSnapshot, x.cols}
    BY <1>2 DEF Stored
  <2>5. "edit" \in Calls => o = x.cols BY <2>1 DEF ExactSafe
  <2>6. "edit" \notin Calls => o \in {NoSnapshot, x.cols} BY <2>1, <2>4
  <2> HIDE <2>1
  <2>7. Stored(new, x) BY <2>2, <2>4, <2>5, <2>6 DEF Stored
  <2>8. EntryGood(new, x) BY <2>2, <2>3, <2>4, <2>5, <2>6 DEF EntryGood
  <2>9. Calm(new, x) BY <2>2, <2>3 DEF Calm
  <2> QED BY <2>3, <2>7, <2>8, <2>9
<1> QED BY <1>1, <1>2 DEF Accepted

LEMMA AcceptSetIs ==
    ASSUME EntriesOk(tracker), NEW t \in Types, AcceptSet(t),
           \A i \in DOMAIN entity : entity[i].type \in Types
    PROVE  /\ EntriesOk(tracker')
           /\ \A i \in DOMAIN entity' : i \in DOMAIN entity /\ entity'[i] = entity[i]
           /\ \A i \in Live' : i \in Live /\ tracker[i].state # "Deleted"
                               /\ Accepted(tracker[i], tracker'[i], entity[i])
<1> DEFINE gone == ToDelete(t)
           snaps == Snapshots(In(t) \ gone)
<1>1. entity' = Drop(entity, gone) /\ tracker' = AcceptAllChanges(tracker, snaps)
  BY DEF AcceptSet
<1>2. \A i \in DOMAIN entity' : i \in DOMAIN entity /\ entity'[i] = entity[i] /\ i \notin gone
  BY <1>1 DEF Drop
<1>3. DOMAIN snaps = In(t) \ gone /\ \A i \in DOMAIN snaps : snaps[i] = entity[i].cols
  BY DEF Snapshots
<1> HIDE DEF snaps
<1>4. EntriesOk(tracker') BY <1>1, AcceptIsOk
<1>5. ASSUME NEW i \in Live'
      PROVE  /\ i \in Live /\ tracker[i].state # "Deleted"
             /\ Accepted(tracker[i], tracker'[i], entity[i])
  <2> DEFINE e == tracker[i]
  <2>1. i \in DOMAIN tracker /\ e.state # "Deleted" /\ i \in Live
        /\ tracker'[i] = IF e.state \in {"Added", "Modified"}
                         THEN [e EXCEPT !.state = "Unchanged", !.mods = {},
                                        !.original = IF i \in DOMAIN snaps THEN snaps[i] ELSE @]
                         ELSE e
    BY <1>1, <1>2 DEF Live, AcceptAllChanges
  <2>2. EntryOk(e) BY <2>1 DEF EntriesOk
  <2>3. e.state \in {"Added", "Modified"} \/ e.state \notin PendingStates
    BY <2>1 DEF PendingStates
  <2>4. CASE e.state \in {"Added", "Modified"}
    <3> DEFINE o == IF i \in DOMAIN snaps THEN snaps[i] ELSE e.original
    <3>1. tracker'[i] = [e EXCEPT !.state = "Unchanged", !.mods = {}, !.original = o]
      BY <2>1, <2>4
    <3>2. i \in DOMAIN snaps => o = entity[i].cols BY <1>3
    <3>3. OneType => i \in DOMAIN snaps
      <4>1. i \in DOMAIN entity /\ i \notin gone BY <1>2, <2>1 DEF Live
      <4>2. OneType => entity[i].type = t BY <4>1 DEF OneType
      <4> QED BY <1>3, <4>1, <4>2 DEF In
    <3>4. o \in {e.original, entity[i].cols} /\ (OneType => o = entity[i].cols) BY <3>2, <3>3
    <3> HIDE DEF o
    <3> QED BY <2>1, <2>4, <3>1, <3>4 DEF Accepted
  <2>5. CASE e.state \notin PendingStates BY <2>1, <2>5 DEF Accepted, PendingStates
  <2> QED BY <2>1, <2>3, <2>4, <2>5
<1> QED BY <1>2, <1>4, <1>5

LEMMA ExactOfAccept ==
    ASSUME ExactSafe, Exact, Accept
    PROVE  Exact'
<1>1. PICK n \in DOMAIN todo :
          /\ AcceptSet(todo[n])
          /\ IF Len(todo) = 1
             THEN SaveReturns
             ELSE /\ todo' = [m \in 1..(Len(todo) - 1) |->
                                 IF m < n THEN todo[m] ELSE todo[m + 1]]
                  /\ result' = result
                  /\ NoFault
                  /\ UNCHANGED <<work, pc, links, directives, processed>>
  BY DEF Accept
<1>2. pc = "accept" /\ UNCHANGED <<nextId, db>> BY DEF Accept
<1>3. todo # <<>> /\ todo \in Seq(Types) /\ (OneType => Len(todo) = 1)
  BY <1>2 DEF Exact, Turns
<1>4. PICK t \in Types : t = todo[n] BY <1>1, <1>3
<1>5. EntriesOk(tracker) /\ (\A i \in DOMAIN entity : EntityPlain(entity[i]))
      /\ nextId \in Nat /\ (\A i \in DOMAIN entity : i \in Nat /\ i < nextId)
      /\ links = {} /\ directives = {} /\ RowsAre(db)
  BY DEF Exact, Plain
<1>6. /\ EntriesOk(tracker')
      /\ \A i \in DOMAIN entity' : i \in DOMAIN entity /\ entity'[i] = entity[i]
      /\ \A i \in Live' : i \in Live /\ tracker[i].state # "Deleted"
                          /\ Accepted(tracker[i], tracker'[i], entity[i])
  BY <1>1, <1>4, <1>5, AcceptSetIs DEF EntityPlain
<1>7. ASSUME NEW i \in Live'
      PROVE  /\ EntryGood(tracker'[i], entity[i]) /\ Calm(tracker'[i], entity[i])
             /\ Stored(tracker'[i], entity[i]) /\ ~Assigned(tracker'[i])
             /\ entity'[i] = entity[i] /\ i \in Live
  <2>1. i \in Live /\ Accepted(tracker[i], tracker'[i], entity[i]) BY <1>6
  <2>2. EntryOk(tracker[i]) BY <1>5, <2>1 DEF EntriesOk, Live
  <2>3. Stored(tracker[i], entity[i]) BY <1>2, <2>1 DEF Exact, AllStored
  <2>4. entity'[i] = entity[i] BY <1>6 DEF Live
  <2> QED BY <2>1, <2>2, <2>3, <2>4, AcceptedIsGood
<1>8. (\A i \in Live : EntryGood(tracker[i], entity[i]))'
      /\ (\A i \in Live : Calm(tracker[i], entity[i]))'
      /\ (\A i \in Live : Stored(tracker[i], entity[i]))'
  BY <1>2, <1>7 DEF EntryGood, Calm, Stored, Has, Row
<1>9. \A i, j \in Live' : Alone(i, j)'
  <2>1. \A i : InsDone(entity[i].type) BY <1>2 DEF InsDone
  <2>2. \A i \in Live' : i \in DOMAIN entity /\ Given(i) BY <1>7, <2>1 DEF Given, Live
  <2> QED BY <1>7, <2>2 DEF Exact, KeysDiffer, Alone
<1>10. links' = {} /\ directives' = {} /\ (pc' = "idle" \/ pc' = "accept")
  BY <1>1, <1>2, <1>5 DEF SaveReturns
<1>11. Plain' BY <1>2, <1>5, <1>6, <1>10 DEF Plain, RowsAre, RowsOk, TableOk
<1>12. CASE pc' = "idle"
  <2>1. Calms' BY <1>8 DEF Calms
  <2> QED BY <1>8, <1>9, <1>11, <1>12, <2>1, IdleIsExact
<1>13. CASE pc' = "accept"
  <2>5. Turns' BY AcceptTurnsOn DEF Exact
  <2>6. KeysDiffer'
    <3>1. \A i : Given(i)' => i \in Live' BY DEF Given
    <3>2. \A i \in Live' : ~Fresh(i)' BY <1>7 DEF Fresh
    <3> QED BY <1>9, <3>1, <3>2 DEF KeysDiffer, Alone
  <2>7. Entries' /\ Calms' /\ AllDetected' /\ WorkIs' /\ AllStored'
    BY <1>8, <1>13 DEF Entries, Calms, AllDetected, WorkIs, AllStored, Saving, Drains, Writes
  <2> QED BY <1>11, <2>5, <2>6, <2>7 DEF Exact
<1> QED BY <1>10, <1>12, <1>13

LEMMA FailuresFail ==
    ASSUME StatementRefused \/ SaveFails
    PROVE  FailSave /\ pc # "accept"
BY DEF StatementRefused, SaveFails, StatementFails

(***************************************************************************)
(* Whoever writes.  Once another connection has written, the keys of the   *)
(* context say nothing about the rows; what still holds is that a save     *)
(* touches the rows of the pending entities alone.                         *)
(***************************************************************************)
WithinOf(t) ==
    /\ DOMAIN work[t] \subseteq DOMAIN db[t] \cup Pks(DoneIds(t))
    /\ \A k \in DOMAIN db[t] \ (Pks(DoneIds(t)) \cup Pks(GoneIds(t))) :
          k \in DOMAIN work[t] /\ work[t][k] = db[t][k]

Bare ==
    /\ EntitiesOk(entity) /\ links = {} /\ directives = {}
    /\ Turns /\ DOMAIN db = Types

Within ==
    /\ Bare
    /\ pc \in Saving => DOMAIN work = Types /\ \A t \in Types : WithinOf(t)

LEMMA EntitiesOfCalls ==
    ASSUME EntitiesOk(entity), CallStep
    PROVE  EntitiesOk(entity')
<1>1. ASSUME NEW t \in Types,
             Add(t) \/ AddOver(t) \/ Attach(t) \/ AttachIncluded(t) \/ Update(t) \/ Upsert(t)
      PROVE  EntitiesOk(entity')
  <2>1. \E pk, cols, kids, state, original, upsert :
           Push(t, pk, cols, kids, state, original, upsert) /\ (kids # {} => HasChildren(t))
    <3>1. CASE Add(t)
      <4>1. PICK cols \in Columns(t),
                 kids \in IF HasChildren(t) THEN {{}} \cup {{kid} : kid \in NewChild(t)}
                          ELSE {{}} :
                 Push(t, NoKey, cols, kids, "Added", NoSnapshot, FALSE)
        BY <3>1 DEF Add
      <4>2. kids # {} => HasChildren(t) BY <4>1
      <4> QED BY <4>1, <4>2
    <3>2. CASE AddOver(t)
      <4>1. HasChildren(t)
            /\ \E cols, kids : Push(t, NoKey, cols, kids, "Added", NoSnapshot, FALSE)
        BY <3>2 DEF AddOver
      <4> QED BY <4>1
    <3>3. CASE AttachIncluded(t)
      <4>1. HasChildren(t)
            /\ \E pk, cols, kids, original :
                  Push(t, pk, cols, kids, "Unchanged", original, FALSE)
        BY <3>3 DEF AttachIncluded
      <4> QED BY <4>1
    <3>4. CASE Attach(t) \/ Update(t) \/ Upsert(t)
      <4>1. \E pk, cols, state, original, upsert : Push(t, pk, cols, {}, state, original, upsert)
        <5>1. CASE Attach(t) BY <5>1 DEF Attach
        <5>2. CASE Update(t) BY <5>2 DEF Update
        <5>3. CASE Upsert(t) BY <5>3 DEF Upsert
        <5> QED BY <3>4, <5>1, <5>2, <5>3
      <4> QED BY <4>1
    <3> QED BY <1>1, <3>1, <3>2, <3>3, <3>4
  <2>2. PICK pk, cols, kids, state, original, upsert :
           Push(t, pk, cols, kids, state, original, upsert) /\ (kids # {} => HasChildren(t))
    BY <2>1
  <2> DEFINE e == [type |-> t, pk |-> pk, cols |-> cols, kids |-> kids]
  <2>3. entity' = Put(entity, nextId, e) BY <2>2 DEF Push
  <2>4. EntityOk(e) BY <2>2 DEF EntityOk
  <2> HIDE DEF e
  <2>5. EntitiesOk(Put(entity, nextId, e)) BY <2>4, PutIsOk
  <2> QED BY <2>3, <2>5
<1>2. ASSUME NEW t \in Types, LoadAll(t) PROVE EntitiesOk(entity')
  <2> DEFINE keys  == DOMAIN db[t]
             id(k) == nextId + Cardinality({j \in keys : j < k})
             new   == {id(k) : k \in keys}
             key(i) == CHOOSE k \in keys : id(k) = i
             rest  == Drop(entity, In(t))
  <2>1. entity' = [i \in DOMAIN rest \cup new |->
                      IF i \in new
                      THEN [type |-> t, pk |-> key(i), cols |-> db[t][key(i)], kids |-> {}]
                      ELSE rest[i]]
    BY <1>2 DEF LoadAll
  <2>2. EntitiesOk(rest) BY DropIsOk
  <2> HIDE DEF new, key, rest
  <2> QED BY <2>1, <2>2 DEF EntitiesOk, EntityOk
<1>3. ASSUME NEW t \in Types, Retain(t) PROVE EntitiesOk(entity')
  BY <1>3, DropIsOk DEF Retain
<1>4. ASSUME NEW i \in DOMAIN entity, Edit(i) PROVE EntitiesOk(entity')
  <2>1. PICK c, v : entity' = [entity EXCEPT ![i].cols[c] = v] BY <1>4 DEF Edit
  <2>2. DOMAIN entity' = DOMAIN entity BY <2>1
  <2>3. ASSUME NEW j \in DOMAIN entity PROVE EntityOk(entity'[j])
    <3>1. EntityOk(entity[j]) BY DEF EntitiesOk
    <3> DEFINE cs == [entity[j].cols EXCEPT ![c] = v]
    <3>2. entity'[j] = entity[j] \/ entity'[j] = [entity[j] EXCEPT !.cols = cs] BY <2>1
    <3> HIDE DEF cs
    <3> QED BY <3>1, <3>2 DEF EntityOk
  <2> QED BY <2>2, <2>3 DEF EntitiesOk
<1>5. CASE ClearTracking BY <1>5 DEF ClearTracking, EntitiesOk
<1>6. ASSUME entity' = entity PROVE EntitiesOk(entity') BY <1>6
<1> QED BY <1>1, <1>2, <1>3, <1>4, <1>5, <1>6
    DEF CallStep, RemoveAll, RemoveAt, DetachEntry, RejectAll, DetectNow

\* A statement keeps within the rows of the entities whose turn it is.
LEMMA WithinGrows ==
    ASSUME NEW t, WithinOf(t), db' = db,
           NEW done, done = Pks(DoneIds(t))', Pks(DoneIds(t)) \subseteq done,
           NEW gone, gone = Pks(GoneIds(t))', Pks(GoneIds(t)) \subseteq gone,
           DOMAIN work'[t] \subseteq DOMAIN work[t] \cup done,
           \A k \in DOMAIN work[t] \ (done \cup gone) :
              k \in DOMAIN work'[t] /\ work'[t][k] = work[t][k]
    PROVE  WithinOf(t)'
<1>1. DOMAIN work'[t] \subseteq DOMAIN db'[t] \cup done BY DEF WithinOf
<1>2. \A k \in DOMAIN db'[t] \ (done \cup gone) :
         k \in DOMAIN work'[t] /\ work'[t][k] = db'[t][k]
  BY DEF WithinOf
<1> QED BY <1>1, <1>2 DEF WithinOf

SentKeys == {entity'[i].pk : i \in SentIds}
Erasing(t) == IF pc = "delete" THEN Pks(ToDelete(t)) ELSE {}

\* The statement for type t leaves the rows `new`.
Leaves(t, new) ==
    /\ work' = [work EXCEPT ![t] = new]
    /\ DOMAIN new \subseteq DOMAIN work[t] \cup SentKeys
    /\ \A k \in DOMAIN work[t] \ (SentKeys \cup Erasing(t)) :
          k \in DOMAIN new /\ new[k] = work[t][k]

LEMMA SentStaysWithin ==
    ASSUME HasMany = {}, Within, Sends, NEW t, t = Head(todo),
           tracker' = tracker, db' = db, links' = links, directives' = directives,
           EntitiesOk(entity'), DOMAIN entity' = DOMAIN entity,
           \A i \in DOMAIN entity \ SentIds : entity'[i] = entity[i],
           \A i \in DOMAIN entity : entity'[i].type = entity[i].type,
           NEW new, Leaves(t, new)
    PROVE  Within'
<1>0. PICK sent, gone : sent = SentKeys /\ gone = Erasing(t) OBVIOUS
<1>1. Turns /\ pc \in Saving BY DEF Within, Bare, Sends, Saving, Writes
<1>2. t \in Types /\ Turns' /\ pc' \in Saving BY <1>1, OnwardSends
<1>3. DOMAIN work = Types /\ \A u \in Types : WithinOf(u) BY <1>1 DEF Within
<1>4. DOMAIN work' = Types /\ work'[t] = new /\ \A u \in Types : u # t => work'[u] = work[u]
  BY <1>2, <1>3 DEF Leaves
<1>5. /\ \A u \in Types :
            /\ DoneIds(u)' = DoneIds(u) \cup (IF u = t THEN SentIds ELSE {})
            /\ GoneIds(u)' = GoneIds(u) \cup (IF pc = "delete" /\ u = t THEN ToDelete(u) ELSE {})
      /\ DoneIds(t) \cap SentIds = {}
      /\ \A i \in SentIds : entity[i].type = t
  BY <1>1, DoneGrows
<1>6. SentIds \subseteq DOMAIN entity
  BY DEF SentIds, ToInsert, ToUpsert, ToUpdate, In
<1>7. \A u \in Types : \A i \in DoneIds(u) : entity'[i] = entity[i]
  <2>1. \A u \in Types : \A i \in DoneIds(u) : i \in DOMAIN entity /\ entity[i].type = u
    BY DEF DoneIds, In
  <2> QED BY <1>5, <2>1
<1>8. pc = "delete" => SentIds = {} BY DEF SentIds
<1>9. pc # "delete" => \A u \in Types : GoneIds(u) = {}
  BY <1>1, OnwardSends DEF GoneIds
<1>10. \A u \in Types : Pks(DoneIds(u)) \subseteq Pks(DoneIds(u))'
  BY <1>5, <1>7 DEF Pks
<1>11. \A u \in Types : Pks(GoneIds(u)) \subseteq Pks(GoneIds(u))'
  <2>1. CASE pc = "delete"
    <3>1. \A i \in DOMAIN entity : entity'[i] = entity[i] BY <1>8, <2>1
    <3>2. \A u \in Types : GoneIds(u) \subseteq DOMAIN entity BY DEF GoneIds, ToDelete, In
    <3> QED BY <1>5, <3>1, <3>2 DEF Pks
  <2>2. CASE pc # "delete" BY <1>9, <2>2 DEF Pks
  <2> QED BY <2>1, <2>2
<1>12. sent \subseteq Pks(DoneIds(t))' BY <1>0, <1>2, <1>5 DEF Pks, SentKeys
<1>13. gone \subseteq Pks(GoneIds(t))'
  <2>1. CASE pc = "delete"
    <3>1. \A i \in DOMAIN entity : entity'[i] = entity[i] BY <1>8, <2>1
    <3>2. ToDelete(t) \subseteq DOMAIN entity BY DEF ToDelete, In
    <3>3. gone = {entity[i].pk : i \in ToDelete(t)} BY <1>0, <2>1 DEF Pks, Erasing
    <3> QED BY <1>2, <1>5, <2>1, <3>1, <3>2, <3>3 DEF Pks
  <2>2. CASE pc # "delete" BY <1>0, <2>2 DEF Erasing
  <2> QED BY <2>1, <2>2
<1>14. WithinOf(t)'
  <2>1. PICK done : done = Pks(DoneIds(t))' OBVIOUS
  <2>2. PICK lost : lost = Pks(GoneIds(t))' OBVIOUS
  <2>3. sent \subseteq done /\ gone \subseteq lost BY <1>12, <1>13, <2>1, <2>2
  <2>4. Pks(DoneIds(t)) \subseteq done /\ Pks(GoneIds(t)) \subseteq lost
    BY <1>2, <1>10, <1>11, <2>1, <2>2
  <2>5. DOMAIN work'[t] \subseteq DOMAIN work[t] \cup done BY <1>0, <1>4, <2>3 DEF Leaves
  <2>6. \A k \in DOMAIN work[t] \ (done \cup lost) :
           k \in DOMAIN work'[t] /\ work'[t][k] = work[t][k]
    BY <1>0, <1>4, <2>3 DEF Leaves
  <2> QED BY <1>2, <1>3, <2>1, <2>2, <2>4, <2>5, <2>6, WithinGrows
<1>15. ASSUME NEW u \in Types, u # t PROVE WithinOf(u)'
  <2>1. PICK done : done = Pks(DoneIds(u))' OBVIOUS
  <2>2. PICK lost : lost = Pks(GoneIds(u))' OBVIOUS
  <2> QED BY <1>3, <1>4, <1>10, <1>11, <1>15, <2>1, <2>2, WithinGrows
<1>16. Bare' BY <1>2 DEF Within, Bare
<1> QED BY <1>4, <1>14, <1>15, <1>16 DEF Within

LEMMA WithinOfStatements ==
    ASSUME ExactSafe, Within, InsertAdded \/ UpsertAdded \/ UpdateModified \/ DeleteDeleted
    PROVE  Within'
<1>1. PICK t : t = Head(todo) OBVIOUS
<1>2. HasMany = {} /\ EntitiesOk(entity) /\ links = {} BY DEF ExactSafe, Within, Bare
<1>3. /\ Sends /\ tracker' = tracker /\ db' = db
      /\ links' = links /\ directives' = directives
  BY DEF InsertAdded, UpsertAdded, UpdateModified, DeleteDeleted, dbvars, Sends
<1>4. ASSUME entity' = entity, NEW new, Leaves(t, new) PROVE Within'
  <2>1. EntitiesOk(entity') BY <1>2, <1>4
  <2> QED BY <1>1, <1>2, <1>3, <1>4, <2>1, SentStaysWithin
<1>5. CASE InsertAdded
  <2>1. PICK ids : ids = ToInsert(t) OBVIOUS
  <2>2. /\ DOMAIN entity' = DOMAIN entity
        /\ \A i \in DOMAIN entity \ ids : entity'[i] = entity[i]
        /\ \A i \in ids : entity'[i] = [entity[i] EXCEPT !.pk = NextKey(work[t]) + Rank(i, ids)]
        /\ \E new : work' = [work EXCEPT ![t] = new] /\ PutIn(new, t, ids, entity')
    BY <1>1, <1>2, <1>5, <2>1, InsertGivesKeys
  <2>3. PICK new : work' = [work EXCEPT ![t] = new] /\ PutIn(new, t, ids, entity') BY <2>2
  <2>4. ids = SentIds BY <1>1, <1>5, <2>1 DEF InsertAdded, SentIds
  <2>5. EntitiesOk(entity')
    <3>1. PICK f, g : entity' = FixedUp(f, Backfilled(f, g)) BY <1>5 DEF InsertAdded
    <3> QED BY <1>2, <3>1, FixedUpIsOk
  <2>6. \A i \in DOMAIN entity : entity'[i].type = entity[i].type
    <3> SUFFICES ASSUME NEW i \in DOMAIN entity PROVE entity'[i].type = entity[i].type OBVIOUS
    <3>1. EntityOk(entity[i]) BY <1>2 DEF EntitiesOk
    <3> QED BY <2>2, <3>1 DEF EntityOk
  <2>7. Leaves(t, new)
    <3>1. SentKeys = {entity'[i].pk : i \in ids} BY <2>4 DEF SentKeys
    <3> QED BY <2>3, <3>1 DEF Leaves, PutIn
  <2> QED BY <1>1, <1>2, <1>3, <2>2, <2>4, <2>5, <2>6, <2>7, SentStaysWithin
<1>6. CASE UpsertAdded
  <2>1. PICK ids : ids = ToUpsert(t) OBVIOUS
  <2>2. PICK new :
           /\ work' = [work EXCEPT ![t] = new]
           /\ new = [k \in DOMAIN work[t] \cup {entity[i].pk : i \in ids} |->
                       IF \E i \in ids : entity[i].pk = k
                       THEN entity[CHOOSE i \in ids : entity[i].pk = k].cols
                       ELSE work[t][k]]
    BY <1>1, <1>6, <2>1 DEF UpsertAdded
  <2>3. entity' = entity /\ ids = SentIds BY <1>1, <1>6, <2>1 DEF UpsertAdded, SentIds
  <2>4. SentKeys = {entity[i].pk : i \in ids} BY <2>3 DEF SentKeys
  <2>5. Leaves(t, new) BY <2>2, <2>4 DEF Leaves
  <2> QED BY <1>4, <2>3, <2>5
<1>7. CASE UpdateModified
  <2>1. PICK ids : ids = ToUpdate(t) OBVIOUS
  <2>2. PICK new : work' = [work EXCEPT ![t] = new] /\ new = Updated(t, ids)
    BY <1>1, <1>7, <2>1 DEF UpdateModified
  <2>3. entity' = entity /\ ids = SentIds BY <1>1, <1>7, <2>1 DEF UpdateModified, SentIds
  <2>4. SentKeys = {entity[i].pk : i \in ids} BY <2>3 DEF SentKeys
  <2>5. DOMAIN new = DOMAIN work[t] /\ \A k \in DOMAIN work[t] \ SentKeys : new[k] = work[t][k]
    BY <2>2, <2>4 DEF Updated
  <2>6. Leaves(t, new) BY <2>2, <2>5 DEF Leaves
  <2> QED BY <1>4, <2>3, <2>6
<1>8. CASE DeleteDeleted
  <2>1. PICK keys : keys = Reached(t, ToDelete(t)) OBVIOUS
  <2>2. PICK new : work' = [work EXCEPT ![t] = new] /\ new = Drop(work[t], keys)
    BY <1>1, <1>8, <2>1, NoChildren DEF DeleteDeleted, AfterDelete
  <2>3. entity' = entity /\ pc = "delete" BY <1>8 DEF DeleteDeleted
  <2>4. keys \subseteq Erasing(t) BY <2>1, <2>3 DEF Reached, Pks, Erasing
  <2>5. Leaves(t, new) BY <2>2, <2>4 DEF Leaves, Drop
  <2> QED BY <1>4, <2>3, <2>5
<1> QED BY <1>5, <1>6, <1>7, <1>8

LEMMA WithinOfDirectives ==
    ASSUME Within, SetNullDirectives \/ CascadeDirectives
    PROVE  Within'
<1>1. /\ UNCHANGED <<entity, tracker, db, todo, links, directives>>
      /\ (pc = "set_null" /\ pc' = "delete") \/ (pc = "prune" /\ pc' = "commit")
  BY DEF SetNullDirectives, CascadeDirectives, dbvars
<1>2. DOMAIN work = Types /\ Turns /\ \A t \in Types : WithinOf(t)
  BY <1>1 DEF Within, Bare, Saving, Writes
<1>3. DOMAIN work' = Types /\ \A t \in Types : SameTable(t)
  <2>1. PICK action : work' = Directed(work, action)
    BY DEF SetNullDirectives, CascadeDirectives
  <2>2. \A t \in Types : {k \in DOMAIN work[t] : \E d \in directives :
                             d.action = action /\ d.type = t /\ work[t][k].fk = d.key} = {}
    BY DEF Within, Bare
  <2>3. \A t \in Types :
           work'[t] = IF action = "Cascade" THEN Drop(work[t], {})
                      ELSE [k \in DOMAIN work[t] |->
                               IF k \in {} THEN [work[t][k] EXCEPT !.fk = Null] ELSE work[t][k]]
    BY <2>1, <2>2 DEF Directed
  <2>4. DOMAIN work' = Types BY <2>1 DEF Directed
  <2> QED BY <2>3, <2>4 DEF SameTable, Drop
<1>4. \A t \in Types : /\ InsDone(t)' <=> InsDone(t)
                       /\ UpsDone(t)' <=> UpsDone(t)
                       /\ UpdDone(t)' <=> UpdDone(t)
                       /\ DelDone(t)' <=> DelDone(t)
  BY <1>1, <1>2 DEF InsDone, UpsDone, UpdDone, DelDone, Finished, Turns, ToCome
<1>5. \A t \in Types : DoneIds(t)' = DoneIds(t) /\ GoneIds(t)' = GoneIds(t)
  BY <1>1, <1>4 DEF DoneIds, GoneIds, In, Live, Fresh, ToDelete, StateOf
<1>6. ASSUME NEW t \in Types PROVE WithinOf(t)'
  <2>1. Pks(DoneIds(t))' = Pks(DoneIds(t)) /\ Pks(GoneIds(t))' = Pks(GoneIds(t))
    BY <1>1, <1>5 DEF Pks
  <2> QED BY <1>1, <1>2, <1>3, <2>1 DEF WithinOf, SameTable
<1>7. Bare' BY <1>1, <1>2 DEF Within, Bare, Turns, Drains, Writes
<1> QED BY <1>3, <1>6, <1>7 DEF Within

LEMMA WithinOfSaves ==
    ASSUME ExactSafe, Within, SaveStep
    PROVE  Within'
<1>1. \A i \in DOMAIN entity : entity[i].kids = {}
  BY NoChildren DEF Within, Bare, EntitiesOk, EntityOk
<1>2. ASSUME pc' = "idle", db' = db, EntitiesOk(entity'), links' = {}, directives' = {}
      PROVE  Within'
  <2>1. Turns' BY <1>2 DEF Turns, Drains, Writes
  <2> QED BY <1>2, <2>1 DEF Within, Bare, Saving, Drains, Writes
<1>3. ASSUME work' = db, db' = db, UNCHANGED <<entity, links, directives>>,
             pc' \in Drains \/ (pc' = "insert" /\ todo' = InsertOrder)
      PROVE  Within'
  <2>1. Turns' BY <1>3, OrderIsEachOnce DEF Turns, Drains, Writes
  <2>2. Bare' BY <1>3, <2>1 DEF Within, Bare
  <2>3. \A t \in Types : WithinOf(t)' BY <1>3 DEF WithinOf
  <2> QED BY <1>3, <2>2, <2>3 DEF Within, Bare
<1>4. CASE StatementRefused \/ SaveFails
  <2>1. FailSave BY <1>4, FailuresFail
  <2> QED BY <1>2, <2>1 DEF FailSave, SaveIdle, Within, Bare
<1>5. CASE SaveBegin
  <2>1. UNCHANGED <<entity, db>> BY <1>5 DEF SaveBegin
  <2>2. \/ pc' = "drain_adds" /\ work' = db /\ UNCHANGED <<links, directives>>
        \/ SaveIdle
    BY <1>5 DEF SaveBegin
  <2> QED BY <1>2, <1>3, <2>1, <2>2 DEF SaveIdle, Drains, Within, Bare
<1>6. CASE DrainAdds \/ DrainAddsDone \/ DrainDeletes \/ DrainDeletesDone
  <2>1. ~DrainAdds BY <1>1 DEF DrainAdds
  <2>2. \A i : DirectiveOf(i) = {} BY NoChildren DEF DirectiveOf
  <2>3. DrainDeletes => UNCHANGED <<entity, directives, db, work, pc, todo, links>>
    BY <1>1, <2>2 DEF DrainDeletes, ToDrain, dbvars
  <2>4. UNCHANGED <<entity, directives, db, work, links>> /\ pc \in Drains
        /\ (pc' \in Drains \/ (pc' = "insert" /\ todo' = InsertOrder))
    BY <1>6, <2>1, <2>3 DEF DrainAddsDone, DrainDeletesDone, DrainDeletes, Drains, dbvars
  <2>5. work = db BY <2>4 DEF Within, Bare, Turns
  <2> QED BY <1>3, <2>4, <2>5
<1>7. CASE InsertAdded \/ UpsertAdded \/ UpdateModified \/ DeleteDeleted
  BY <1>7, WithinOfStatements
<1>8. CASE SetNullDirectives \/ CascadeDirectives BY <1>8, WithinOfDirectives
<1>9. CASE Commit
  <2>1. /\ pc = "commit" /\ pc' = "accept" /\ db' = work /\ todo' = InsertOrder
        /\ UNCHANGED <<entity, links, directives>>
    BY <1>9 DEF Commit
  <2>2. DOMAIN db' = Types BY <2>1 DEF Within, Saving
  <2>3. Turns' BY <2>1, AcceptTurns
  <2> QED BY <2>1, <2>2, <2>3 DEF Within, Bare, Saving, Drains, Writes
<1>10. CASE Accept
  <2>1. Turns' /\ pc' \in {"idle", "accept"} BY <1>10, AcceptTurnsOn DEF Within, Bare
  <2>2. EntitiesOk(entity') BY <1>10, DropIsOk DEF Accept, AcceptSet, Within, Bare
  <2>3. db' = db /\ links' = {} /\ directives' = {}
    BY <1>10 DEF Accept, SaveReturns, Within, Bare
  <2> QED BY <2>1, <2>2, <2>3 DEF Within, Bare, Saving, Drains, Writes
<1> QED BY <1>4, <1>5, <1>6, <1>7, <1>8, <1>9, <1>10 DEF SaveStep

LEMMA WithinOfSteps ==
    ASSUME ExactSafe, Within, [Next]_vars
    PROVE  Within'
<1>1. CASE CallStep
  <2>1. EntitiesOk(entity') BY <1>1, EntitiesOfCalls DEF Within, Bare
  <2>2. pc = "idle" /\ pc' = "idle" /\ UNCHANGED <<db, links, directives>>
    BY <1>1 DEF CallStep, Call, Allowed, Add, AddOver, Attach, AttachIncluded, Update, Upsert,
                RemoveAll, LoadAll, Retain, Edit, RemoveAt, DetachEntry, RejectAll, DetectNow,
                ClearTracking, dbvars, savevars
  <2>3. Turns' BY <2>2 DEF Turns, Drains, Writes
  <2> QED BY <2>1, <2>2, <2>3 DEF Within, Bare, Saving, Drains, Writes
<1>2. CASE SaveStep BY <1>2, WithinOfSaves
<1>3. CASE OtherWrites
  <2>1. pc = "idle" /\ pc' = "idle" /\ UNCHANGED <<entity, links, directives>>
    BY <1>3 DEF OtherWrites
  <2>2. DOMAIN db' = DOMAIN db BY <1>3 DEF OtherWrites
  <2>3. Turns' BY <2>1 DEF Turns, Drains, Writes
  <2> QED BY <2>1, <2>2, <2>3 DEF Within, Bare, Saving, Drains, Writes
<1>4. CASE UNCHANGED vars
  <2>1. Turns' BY <1>4 DEF vars, Within, Bare, Turns, ToCome, EachOnce
  <2>2. \A t : DoneIds(t)' = DoneIds(t) /\ GoneIds(t)' = GoneIds(t)
    BY <1>4 DEF vars, DoneIds, GoneIds, In, Live, Fresh, ToDelete, StateOf, InsDone, UpsDone,
                UpdDone, DelDone, ToCome
  <2>3. \A t : WithinOf(t) => WithinOf(t)' BY <1>4, <2>2 DEF vars, WithinOf, Pks
  <2> QED BY <1>4, <2>1, <2>3 DEF vars, Within, Bare
<1> QED BY <1>1, <1>2, <1>3, <1>4 DEF Next

\* The commit makes the work durable.
LEMMA CommitOfWork ==
    ASSUME ExactInv, Within, Commit
    PROVE  ExactCommit
<1>1. pc = "commit" /\ db' = work /\ UNCHANGED <<entity, tracker>> BY DEF Commit
<1>2. ASSUME NEW t \in Types, others = 0
      PROVE  /\ DOMAIN work[t] = (DOMAIN db[t] \cup Written(t)) \ Erased(t)
             /\ \A i \in In(t) \cap Pending : StateOf(i) # "Deleted" =>
                   entity[i].pk \in DOMAIN work[t] /\ work[t][entity[i].pk] = entity[i].cols
  <2>1. /\ DoneIds(t) = ToInsert(t) \cup ToUpsert(t) \cup ToUpdate(t)
        /\ GoneIds(t) = ToDelete(t) /\ WorkOf(t)
    BY <1>1, <1>2, AllAreDone DEF ExactInv
  <2>2. Written(t) = Pks(DoneIds(t)) /\ Erased(t) = Pks(GoneIds(t))
    BY <2>1 DEF Written, Erased, Pks
  <2>3. \A i \in In(t) \cap Pending : StateOf(i) # "Deleted" => i \in DoneIds(t)
    BY <2>1 DEF Pending, PendingStates, ToInsert, ToUpsert, ToUpdate
  <2> QED BY <2>1, <2>2, <2>3 DEF WorkOf
<1>3. ASSUME NEW t \in Types
      PROVE  /\ DOMAIN work[t] \subseteq DOMAIN db[t] \cup Written(t)
             /\ \A k \in DOMAIN db[t] \ (Written(t) \cup Erased(t)) :
                   k \in DOMAIN work[t] /\ work[t][k] = db[t][k]
  <2>1. /\ DoneIds(t) = ToInsert(t) \cup ToUpsert(t) \cup ToUpdate(t)
        /\ GoneIds(t) = ToDelete(t)
    BY <1>1, AllAreSent
  <2>2. Written(t) = Pks(DoneIds(t)) /\ Erased(t) = Pks(GoneIds(t))
    BY <2>1 DEF Written, Erased, Pks
  <2>3. WithinOf(t) BY <1>1 DEF Within, Saving
  <2> QED BY <2>2, <2>3 DEF WithinOf
<1> QED BY <1>1, <1>2, <1>3 DEF ExactCommit

(***************************************************************************)
(* The theorem.                                                            *)
(***************************************************************************)
LEMMA ExactOfInit ==
    ASSUME Init
    PROVE  ExactInv
<1>1. /\ tracker = EmptyTracker /\ entity = <<>> /\ nextId = 0 /\ db = Seeds
      /\ pc = "idle" /\ links = {} /\ directives = {} /\ others = 0
  BY DEF Init
<1>2. DOMAIN entity = {} /\ DOMAIN tracker = {} BY <1>1 DEF EmptyTracker
<1>3. RowsAre(db)
  <2>1. RowsOk(db) BY <1>1, RowsAssumption DEF RowsOk, TableOk, KeysOk
  <2> QED BY <1>1, <2>1, RowsAssumption DEF RowsAre, IsRow
<1>4. Plain BY <1>1, <1>2, <1>3 DEF Plain, EntriesOk
<1>5. Entries /\ Calms /\ KeysDiffer BY <1>2 DEF Entries, Calms, KeysDiffer, Live
<1>6. AllDetected /\ Turns /\ WorkIs /\ AllStored
  BY <1>1 DEF AllDetected, Turns, WorkIs, AllStored, Saving, Drains, Writes
<1> QED BY <1>1, <1>4, <1>5, <1>6 DEF ExactInv, Exact

LEMMA SameOthers ==
    ASSUME CallStep \/ SaveStep
    PROVE  others' = others
<1>1. CASE CallStep
  BY <1>1 DEF CallStep, Call, Add, AddOver, Attach, AttachIncluded, Update, Upsert, RemoveAll,
              LoadAll, Retain, Edit, RemoveAt, DetachEntry, RejectAll, DetectNow, ClearTracking,
              dbvars, savevars
<1>2. CASE SaveStep
  <2>1. CASE StatementRefused \/ SaveFails BY <2>1, FailuresFail DEF FailSave
  <2>2. CASE SaveBegin BY <2>2 DEF SaveBegin
  <2>3. CASE DrainAdds \/ DrainAddsDone \/ DrainDeletes \/ DrainDeletesDone
    BY <2>3 DEF DrainAdds, DrainAddsDone, DrainDeletes, DrainDeletesDone, dbvars
  <2>4. CASE InsertAdded \/ UpsertAdded \/ UpdateModified \/ DeleteDeleted
    BY <2>4 DEF InsertAdded, UpsertAdded, UpdateModified, DeleteDeleted, dbvars
  <2>5. CASE SetNullDirectives \/ CascadeDirectives
    BY <2>5 DEF SetNullDirectives, CascadeDirectives, dbvars
  <2>6. CASE Commit \/ Accept BY <2>6 DEF Commit, Accept
  <2> QED BY <1>2, <2>1, <2>2, <2>3, <2>4, <2>5, <2>6 DEF SaveStep
<1> QED BY <1>1, <1>2

LEMMA ExactOfSave ==
    ASSUME ExactSafe, Exact, others = 0, KeysApart, SaveStep
    PROVE  Exact'
<1>1. HasMany = {} BY DEF ExactSafe
<1>2. CASE StatementRefused \/ SaveFails BY <1>2, FailuresFail, FailIsExact
<1>3. CASE SaveBegin BY <1>3, ExactOfBegin
<1>4. CASE DrainAdds \/ DrainAddsDone \/ DrainDeletes \/ DrainDeletesDone BY <1>4, ExactOfDrains
<1>5. CASE InsertAdded BY <1>5, ExactOfInsert
<1>6. CASE UpsertAdded BY <1>1, <1>6, ExactOfUpsert
<1>7. CASE UpdateModified BY <1>1, <1>7, ExactOfUpdate
<1>8. CASE SetNullDirectives \/ CascadeDirectives BY <1>8, ExactOfDirectives
<1>9. CASE DeleteDeleted BY <1>9, ExactOfDelete
<1>10. CASE Commit BY <1>10, ExactOfCommit
<1>11. CASE Accept BY <1>11, ExactOfAccept
<1> QED BY <1>2, <1>3, <1>4, <1>5, <1>6, <1>7, <1>8, <1>9, <1>10, <1>11 DEF SaveStep

LEMMA ExactStutters ==
    ASSUME Exact, UNCHANGED vars
    PROVE  Exact'
<1>1. Plain' BY DEF vars, Exact, Plain, RowsAre, RowsOk, TableOk, EntriesOk
<1>2. Entries' /\ Calms' BY DEF vars, Exact, Entries, Calms, Live, EntryGood, Has, Row
<1>3. \A i : (Given(i) <=> Given(i)') BY DEF vars, Given, Live, Fresh, InsDone, ToCome
<1>4. KeysDiffer' BY <1>3 DEF vars, Exact, KeysDiffer
<1>5. AllDetected' BY DEF vars, Exact, AllDetected, Live
<1>6. Turns' BY DEF vars, Exact, Turns, ToCome, EachOnce
<1>7. \A t : DoneIds(t)' = DoneIds(t) /\ GoneIds(t)' = GoneIds(t)
  BY DEF vars, DoneIds, GoneIds, In, Live, Fresh, ToDelete, StateOf, InsDone, UpsDone, UpdDone,
         DelDone, ToCome
<1>8. \A t : WorkOf(t) => WorkOf(t)'
  BY <1>7 DEF vars, WorkOf, Pks
<1>9. WorkIs' BY <1>8 DEF vars, Exact, WorkIs, RowsAre, RowsOk, TableOk
<1>10. AllStored' BY DEF vars, Exact, AllStored, Live, Stored, Has, Row
<1> QED BY <1>1, <1>2, <1>4, <1>5, <1>6, <1>9, <1>10 DEF Exact

LEMMA ExactOfSteps ==
    ASSUME ExactSafe, ExactInv, KeysApart, [Next]_vars
    PROVE  ExactInv'
<1>1. others \in Nat BY DEF ExactInv
<1>2. CASE CallStep
  BY <1>1, <1>2, SameOthers, ExactOfCalls DEF ExactInv
<1>3. CASE SaveStep
  BY <1>1, <1>3, SameOthers, ExactOfSave DEF ExactInv
<1>4. CASE OtherWrites
  <2>1. others' = others + 1 BY <1>4 DEF OtherWrites
  <2>2. others' \in Nat /\ others' # 0 BY <1>1, <2>1
  <2> QED BY <2>2 DEF ExactInv
<1>5. CASE UNCHANGED vars
  <2>1. others' = others BY <1>5 DEF vars
  <2> QED BY <1>1, <1>5, <2>1, ExactStutters DEF ExactInv
<1> QED BY <1>2, <1>3, <1>4, <1>5 DEF Next

\* The only step from the commit to the acceptance is the commit.
LEMMA OnlyCommitAccepts ==
    ASSUME [Next]_vars, pc = "commit", pc' = "accept"
    PROVE  Commit
<1>1. ~CallStep
  BY DEF CallStep, Call, Allowed, Add, AddOver, Attach, AttachIncluded, Update, Upsert, RemoveAll,
         LoadAll, Retain, Edit, RemoveAt, DetachEntry, RejectAll, DetectNow, ClearTracking
<1>2. ~OtherWrites BY DEF OtherWrites
<1>3. pc' # pc OBVIOUS
<1>4. SaveStep BY <1>1, <1>2, <1>3 DEF Next, vars
<1>5. ~(StatementRefused \/ SaveFails) BY FailuresFail DEF FailSave, SaveIdle
<1>6. ~SaveBegin BY DEF SaveBegin
<1>7. ~(DrainAdds \/ DrainAddsDone \/ DrainDeletes \/ DrainDeletesDone)
  BY DEF DrainAdds, DrainAddsDone, DrainDeletes, DrainDeletesDone
<1>8. ~(InsertAdded \/ UpsertAdded \/ UpdateModified \/ DeleteDeleted)
  BY DEF InsertAdded, UpsertAdded, UpdateModified, DeleteDeleted
<1>9. ~(SetNullDirectives \/ CascadeDirectives \/ Accept)
  BY DEF SetNullDirectives, CascadeDirectives, Accept
<1> QED BY <1>4, <1>5, <1>6, <1>7, <1>8, <1>9 DEF SaveStep

\* What a commit of save_changes makes durable is the unit of work and
\* nothing else, whatever was called before, however many saves failed and
\* wherever, and whatever the orders of the statements and of the entities,
\* as long as no assigned key is one the caller chose for another entity; and
\* once another connection has written, rows of other entities stay as they were
\* and no other row is made (db_context/save_pipeline.rs:73-600, change_executor).
THEOREM CommitStaysExact == ExactSafe => (Spec /\ []KeysApart => CommitIsExact)
<1> SUFFICES ASSUME ExactSafe PROVE Spec /\ []KeysApart => CommitIsExact OBVIOUS
<1>1. Init => ExactInv BY ExactOfInit
<1>2. ExactInv /\ KeysApart /\ [Next]_vars => ExactInv' BY ExactOfSteps
<1>3. Init => Within
  <2> SUFFICES ASSUME Init PROVE Within OBVIOUS
  <2>1. pc = "idle" /\ links = {} /\ directives = {} /\ entity = <<>> /\ db = Seeds
    BY DEF Init
  <2>2. DOMAIN db = Types BY <2>1, RowsAssumption
  <2>3. EntitiesOk(entity) /\ Turns BY <2>1 DEF EntitiesOk, Turns, Drains, Writes
  <2> QED BY <2>1, <2>2, <2>3 DEF Within, Bare, Saving, Drains, Writes
<1>4. Within /\ [Next]_vars => Within' BY WithinOfSteps
<1>5. ExactInv /\ Within /\ [Next]_vars => [ExactCommit]_vars
  <2> SUFFICES ASSUME ExactInv, Within, [Next]_vars, pc = "commit", pc' = "accept"
               PROVE  ExactCommit
    BY DEF ExactCommit
  <2>1. Commit BY OnlyCommitAccepts
  <2> QED BY <2>1, CommitOfWork
<1> QED BY <1>1, <1>2, <1>3, <1>4, <1>5, PTL DEF Spec, CommitIsExact

\* A caller who only adds, or only upserts, keeps the keys apart: every key
\* that execute_inserts assigns is one no entity of the context has
\* (change_executor/executor.rs).
THEOREM KeysStayApart ==
    ExactSafe /\ ~({"add", "upsert"} \subseteq Calls) => (Spec => []KeysApart)
<1> SUFFICES ASSUME ExactSafe, ~({"add", "upsert"} \subseteq Calls)
             PROVE  Spec => []KeysApart
    OBVIOUS
<1>1. Init => ExactInv BY ExactOfInit
<1>2. ExactInv => KeysApart
  <2> SUFFICES ASSUME ExactInv, others = 0, pc = "insert", NEW t, t = Head(todo),
                      NEW i \in In(t), NEW j \in In(t), i \in ToInsert(t), IsUpsert(j)
               PROVE  FALSE
    BY DEF KeysApart
  <2>1. Exact BY DEF ExactInv
  <2>2. i \in Live /\ j \in Live /\ Assigned(tracker[i]) /\ tracker[j].upsert
    BY DEF ToInsert, In, StateOf, IsUpsert, Live, Assigned
  <2>3. EntryGood(tracker[i], entity[i]) /\ EntryGood(tracker[j], entity[j])
    BY <2>1, <2>2 DEF Exact, Entries
  <2> QED BY <2>2, <2>3 DEF EntryGood
<1>3. ExactInv /\ [Next]_vars => ExactInv' BY <1>2, ExactOfSteps
<1> QED BY <1>1, <1>2, <1>3, PTL DEF Spec

(***************************************************************************)
(* What was saved is stored.                                               *)
(***************************************************************************)
\* Entities that have columns are edited, no entity of the set loses its entry,
\* and no other connection writes.
StoredSafe ==
    /\ ExactSafe /\ "edit" \in Calls /\ Calls \cap {"reject", "detach"} = {}
    /\ MaxOther = 0
    /\ \A t \in Types : Cols[t] # {}

\* What is Unchanged has an original to compare with.
SnapOf(e) == e.state \in EntityState /\ (e.state = "Unchanged" => e.original # NoSnapshot)
Snapped == \A i \in Live : SnapOf(tracker[i])

\* The commit wrote every edit.
Unedited == pc = "accept" => \A i \in Live : Detected(tracker[i], entity[i])

Tracked == DOMAIN entity \subseteq DOMAIN tracker

StoredInv == /\ Tracked /\ ExactInv /\ others = 0 /\ Snapped /\ Unedited
             /\ result = "ok" => pc = "idle"
             /\ SavedMeansStored

LEMMA RowIsSnapshot ==
    ASSUME NEW t, Cols[t] # {}, NEW cols, IsRow(t, cols)
    PROVE  cols # NoSnapshot
<1>1. DOMAIN cols = Cols[t] BY DEF IsRow
<1>2. DOMAIN NoSnapshot = {} BY DEF NoSnapshot
<1> QED BY <1>1, <1>2

LEMMA PushIsSnapped ==
    ASSUME Snapped, NEW t, NEW pk, NEW cols, NEW kids, NEW state, NEW original, NEW upsert,
           state \in EntityState, state = "Unchanged" => original # NoSnapshot,
           Push(t, pk, cols, kids, state, original, upsert)
    PROVE  Snapped'
<1>1. tracker' = Put(tracker, nextId, [type |-> t, state |-> state, original |-> original,
                                       mods |-> {}, upsert |-> upsert])
  BY DEF Push, Track
<1>2. DOMAIN tracker' = DOMAIN tracker \cup {nextId}
      /\ tracker'[nextId].state = state /\ tracker'[nextId].original = original
      /\ \A i \in DOMAIN tracker : i # nextId => tracker'[i] = tracker[i]
  BY <1>1 DEF Put
<1>3. DOMAIN entity' = DOMAIN entity \cup {nextId} BY DEF Push, Put
<1>4. \A i \in Live' : i = nextId \/ (i # nextId /\ i \in Live /\ tracker'[i] = tracker[i])
  BY <1>2, <1>3 DEF Live
<1> QED BY <1>2, <1>4 DEF Snapped, SnapOf

LEMMA KeptIsSnapped ==
    ASSUME Snapped,
           \A i \in Live' : /\ i \in Live
                            /\ tracker'[i].state \in EntityState
                            /\ tracker'[i].state = "Unchanged" =>
                                  /\ tracker[i].state = "Unchanged"
                                  /\ tracker'[i].original = tracker[i].original
    PROVE  Snapped'
BY DEF Snapped, SnapOf

LEMMA SnappedOfCalls ==
    ASSUME StoredSafe, StoredInv, CallStep
    PROVE  Snapped'
<1>1. Snapped /\ EntriesOk(tracker) /\ RowsAre(db) /\ ExactSafe
  BY DEF StoredInv, StoredSafe, ExactInv, Exact, Plain
<1>2. ASSUME NEW t \in Types, NEW k \in DOMAIN db[t]
      PROVE  db[t][k] # NoSnapshot
  BY <1>1, RowIsSnapshot DEF StoredSafe, RowsAre
<1>3. ASSUME NEW t \in Types,
             Add(t) \/ AddOver(t) \/ Attach(t) \/ AttachIncluded(t) \/ Update(t) \/ Upsert(t)
      PROVE  Snapped'
  <2>0. /\ "Added" \in EntityState /\ "Modified" \in EntityState /\ "Unchanged" \in EntityState
        /\ "Added" # "Unchanged" /\ "Modified" # "Unchanged"
    BY DEF EntityState
  <2>1. CASE Add(t) BY <1>1, <2>0, <2>1, PushIsSnapped DEF Add
  <2>2. CASE Attach(t)
    <3>1. PICK k \in Untracked(t) : Push(t, k, db[t][k], {}, "Unchanged", db[t][k], FALSE)
      BY <2>2 DEF Attach
    <3>2. k \in DOMAIN db[t] BY DEF Untracked
    <3> QED BY <1>1, <1>2, <2>0, <3>1, <3>2, PushIsSnapped
  <2>3. CASE Update(t) BY <1>1, <2>0, <2>3, PushIsSnapped DEF Update
  <2>4. CASE Upsert(t) BY <1>1, <2>0, <2>4, PushIsSnapped DEF Upsert
  <2> QED BY <1>1, <1>3, <2>1, <2>2, <2>3, <2>4, NoChildren DEF AddOver, AttachIncluded
<1>4. ASSUME NEW ids, tracker' = SetState(tracker, ids, "Deleted"), entity' = entity
      PROVE  Snapped'
  <2>1. DOMAIN tracker' = DOMAIN tracker BY <1>4 DEF SetState
  <2>2. ASSUME NEW i \in DOMAIN tracker
        PROVE  tracker'[i] = tracker[i] \/ tracker'[i].state = "Deleted"
    <3>1. EntryOk(tracker[i]) BY <1>1 DEF EntriesOk
    <3> QED BY <1>4, <3>1 DEF SetState, EntryOk
  <2> QED BY <1>1, <1>4, <2>1, <2>2 DEF Snapped, SnapOf, Live, EntityState
<1>5. ASSUME NEW t \in Types, LoadAll(t)
      PROVE  Snapped'
  <2> DEFINE keys  == DOMAIN db[t]
             id(k) == nextId + Cardinality({j \in keys : j < k})
             new   == {id(k) : k \in keys}
             key(i) == CHOOSE k \in keys : id(k) = i
             kept  == ClearByType(tracker, t)
  <2>1. tracker' = [i \in DOMAIN kept \cup new |->
                      IF i \in new
                      THEN [type |-> t, state |-> "Unchanged", original |-> db[t][key(i)],
                            mods |-> {}, upsert |-> FALSE]
                      ELSE kept[i]]
    BY <1>5 DEF LoadAll
  <2>2. \A i \in DOMAIN tracker : tracker[i].type = t
    BY <1>1 DEF EntriesOk, EntryOk, StoredSafe, ExactSafe, OneType
  <2>3. DOMAIN kept = {} BY <2>2 DEF ClearByType, Drop
  <2>4. \A i \in new : key(i) \in keys OBVIOUS
  <2> HIDE DEF new, key, kept
  <2>5. \A i \in DOMAIN tracker' : /\ i \in new /\ tracker'[i].original = db[t][key(i)]
                                    /\ tracker'[i].state = "Unchanged"
    BY <2>1, <2>3
  <2> QED BY <1>2, <2>4, <2>5 DEF Snapped, SnapOf, Live, EntityState
<1>6. ASSUME NEW i, Edit(i)
      PROVE  Snapped'
  <2>1. tracker' = tracker /\ DOMAIN entity' = DOMAIN entity BY <1>6 DEF Edit
  <2> QED BY <1>1, <2>1 DEF Snapped, Live
<1>7. CASE ClearTracking BY <1>7 DEF ClearTracking, Snapped, SnapOf, Live
<1>8. ASSUME NEW t, Retain(t)
      PROVE  Snapped'
  <2>1. tracker' = tracker /\ DOMAIN entity' \subseteq DOMAIN entity BY <1>8 DEF Retain, Drop
  <2> QED BY <1>1, <2>1 DEF Snapped, Live
<1>9. ~DetectNow /\ ~RejectAll /\ (\A i : ~DetachEntry(i))
  BY DEF DetectNow, RejectAll, DetachEntry, Call, StoredSafe, ExactSafe
<1> QED BY <1>3, <1>4, <1>5, <1>6, <1>7, <1>8, <1>9 DEF CallStep, RemoveAll, RemoveAt

\* An entity has its entry as long as it is in its set.
LEMMA TrackedByCalls ==
    ASSUME StoredSafe, StoredInv, CallStep
    PROVE  Tracked'
<1>1. Tracked /\ EntriesOk(tracker) /\ (\A i \in DOMAIN entity : EntityPlain(entity[i])) /\ OneType
  BY DEF StoredInv, StoredSafe, ExactSafe, ExactInv, Exact, Plain
<1>2. ASSUME NEW t, NEW pk, NEW cols, NEW kids, NEW state, NEW original, NEW upsert,
             Push(t, pk, cols, kids, state, original, upsert)
      PROVE  Tracked'
  <2>1. DOMAIN entity' = DOMAIN entity \cup {nextId} BY <1>2 DEF Push, Put
  <2>2. DOMAIN tracker' = DOMAIN tracker \cup {nextId} BY <1>2 DEF Push, Track, Put
  <2> QED BY <1>1, <2>1, <2>2 DEF Tracked
<1>3. ASSUME NEW t \in Types,
             Add(t) \/ AddOver(t) \/ Attach(t) \/ AttachIncluded(t) \/ Update(t) \/ Upsert(t)
      PROVE  Tracked'
  BY <1>2, <1>3 DEF Add, AddOver, Attach, AttachIncluded, Update, Upsert
<1>4. ASSUME DOMAIN entity' \subseteq DOMAIN entity, DOMAIN tracker' = DOMAIN tracker
      PROVE  Tracked'
  BY <1>1, <1>4 DEF Tracked
<1>5. ASSUME NEW t \in Types, LoadAll(t)
      PROVE  Tracked'
  <2> DEFINE keys  == DOMAIN db[t]
             new   == {nextId + Cardinality({j \in keys : j < k}) : k \in keys}
             rest  == Drop(entity, In(t))
  <2>1. DOMAIN entity' = DOMAIN rest \cup new BY <1>5 DEF LoadAll
  <2>2. new \subseteq DOMAIN tracker' BY <1>5 DEF LoadAll
  <2>3. \A i \in DOMAIN entity : entity[i].type = t BY <1>1 DEF EntityPlain, OneType
  <2>4. DOMAIN rest = {} BY <2>3 DEF Drop, In
  <2> QED BY <2>1, <2>2, <2>4 DEF Tracked
<1>6. CASE ClearTracking
  <2>1. DOMAIN entity' = {} BY <1>6 DEF ClearTracking
  <2> QED BY <2>1 DEF Tracked
<1>7. ~DetectNow /\ ~RejectAll /\ (\A i : ~DetachEntry(i))
  BY DEF DetectNow, RejectAll, DetachEntry, Call, StoredSafe, ExactSafe
<1>8. ASSUME NEW t, RemoveAll(t) \/ Retain(t)
      PROVE  Tracked'
  BY <1>4, <1>8 DEF RemoveAll, Retain, SetState, Drop
<1>9. ASSUME NEW i, RemoveAt(i) \/ Edit(i)
      PROVE  Tracked'
  BY <1>4, <1>9 DEF RemoveAt, Edit, SetState
<1> QED BY <1>3, <1>5, <1>6, <1>7, <1>8, <1>9 DEF CallStep

LEMMA TrackedBySaves ==
    ASSUME StoredSafe, StoredInv, SaveStep
    PROVE  Tracked'
<1>1. Tracked /\ Exact /\ OneType BY DEF StoredInv, ExactInv, StoredSafe, ExactSafe
<1>2. ASSUME DOMAIN entity' = DOMAIN entity, DOMAIN tracker' = DOMAIN tracker
      PROVE  Tracked'
  BY <1>1, <1>2 DEF Tracked
<1>3. CASE SaveBegin BY <1>2, <1>3 DEF SaveBegin, DetectChanges
<1>4. CASE StatementRefused \/ SaveFails BY <1>2, <1>4, FailuresFail DEF FailSave
<1>5. CASE DrainAdds \/ DrainAddsDone \/ DrainDeletes \/ DrainDeletesDone
  <2>1. \A i \in DOMAIN entity : entity[i].kids = {}
    BY <1>1 DEF Exact, Plain, EntityPlain
  <2> QED BY <1>2, <1>5, <2>1 DEF DrainAdds, DrainAddsDone, DrainDeletes, DrainDeletesDone, ToDrain
<1>6. CASE InsertAdded
  <2>1. tracker' = tracker BY <1>6 DEF InsertAdded
  <2>2. DOMAIN entity' = DOMAIN entity BY <1>6 DEF InsertAdded, FixedUp, Backfilled
  <2> QED BY <1>2, <2>1, <2>2
<1>7. CASE UpsertAdded \/ UpdateModified \/ DeleteDeleted \/ SetNullDirectives
           \/ CascadeDirectives \/ Commit
  BY <1>2, <1>7 DEF UpsertAdded, UpdateModified, DeleteDeleted, SetNullDirectives,
                    CascadeDirectives, Commit
<1>8. CASE Accept
  <2>1. PICK n \in DOMAIN todo : AcceptSet(todo[n]) BY <1>8 DEF Accept
  <2>2. PICK t \in Types : t = todo[n] BY <1>1, <1>8 DEF Exact, Turns, Accept
  <2>3. /\ entity' = Drop(entity, ToDelete(t))
        /\ DOMAIN tracker' = {i \in DOMAIN tracker : tracker[i].state # "Deleted"}
    BY <2>1, <2>2 DEF AcceptSet, AcceptAllChanges
  <2>4. \A i \in DOMAIN entity : entity[i].type = t
    BY <1>1 DEF Exact, Plain, EntityPlain, OneType
  <2>5. \A i \in DOMAIN entity' : i \in DOMAIN entity /\ i \notin ToDelete(t)
    BY <2>3 DEF Drop
  <2> QED BY <1>1, <2>3, <2>4, <2>5 DEF Tracked, ToDelete, In, StateOf
<1> QED BY <1>3, <1>4, <1>5, <1>6, <1>7, <1>8 DEF SaveStep

\* Detection, the statements and the commit leave what is Unchanged its original.
LEMMA SnappedOfSaves ==
    ASSUME StoredSafe, StoredInv, SaveStep, ~Accept
    PROVE  Snapped'
<1>1. Snapped /\ EntriesOk(tracker) /\ ExactSafe /\ Exact
  BY DEF StoredInv, StoredSafe, ExactInv, Exact, Plain
<1>2. CASE SaveBegin
  <2>1. entity' = entity /\ tracker' = DetectChanges(tracker, Snapshots(DOMAIN entity))
    BY <1>2 DEF SaveBegin
  <2>2. DOMAIN tracker' = DOMAIN tracker BY <2>1 DEF DetectChanges
  <2>3. ASSUME NEW i \in DOMAIN tracker
        PROVE  /\ tracker'[i].original = tracker[i].original
               /\ tracker'[i].state = "Unchanged" => tracker[i].state = "Unchanged"
               /\ tracker'[i].state \in {tracker[i].state, "Modified"}
    <3>1. EntryOk(tracker[i]) BY <1>1 DEF EntriesOk
    <3>2. \/ tracker'[i] = tracker[i]
          \/ /\ tracker[i].state = "Unchanged"
             /\ \E s \in {tracker[i].state, "Modified"} : \E m :
                   tracker'[i] = [tracker[i] EXCEPT !.state = s, !.mods = m]
      BY <2>1 DEF DetectChanges
    <3> QED BY <3>1, <3>2 DEF EntryOk
  <2>4. \A i \in Live' : i \in Live /\ tracker[i].state \in EntityState
    BY <1>1, <2>1, <2>2 DEF Live, Snapped, SnapOf
  <2>5. "Modified" \in EntityState BY DEF EntityState
  <2> QED BY <1>1, <2>1, <2>2, <2>3, <2>4, <2>5, KeptIsSnapped DEF Live
<1>3. ASSUME DOMAIN entity' = DOMAIN entity, tracker' = tracker
      PROVE  Snapped'
  BY <1>1, <1>3 DEF Snapped, Live
<1>4. CASE StatementRefused \/ SaveFails BY <1>3, <1>4, FailuresFail DEF FailSave
<1>5. CASE DrainAdds \/ DrainAddsDone \/ DrainDeletes \/ DrainDeletesDone
  <2>1. \A i \in DOMAIN entity : entity[i].kids = {}
    BY <1>1 DEF Exact, Plain, EntityPlain
  <2> QED BY <1>3, <1>5, <2>1 DEF DrainAdds, DrainAddsDone, DrainDeletes, DrainDeletesDone, ToDrain
<1>6. CASE InsertAdded
  <2>1. tracker' = tracker BY <1>6 DEF InsertAdded
  <2>2. DOMAIN entity' = DOMAIN entity BY <1>6 DEF InsertAdded, FixedUp, Backfilled
  <2> QED BY <1>3, <2>1, <2>2
<1>7. CASE UpsertAdded \/ UpdateModified \/ DeleteDeleted \/ SetNullDirectives
           \/ CascadeDirectives \/ Commit
  BY <1>3, <1>7 DEF UpsertAdded, UpdateModified, DeleteDeleted, SetNullDirectives,
                    CascadeDirectives, Commit
<1> QED BY <1>2, <1>4, <1>5, <1>6, <1>7 DEF SaveStep

LEMMA UneditedOfSteps ==
    ASSUME StoredSafe, StoredInv, SaveStep, ~Accept
    PROVE  Unedited'
<1>1. SUFFICES ASSUME pc' = "accept" PROVE Unedited' BY DEF Unedited
<1>2. CASE pc = "commit"
  <2>1. Commit BY <1>1, <1>2, OnlyCommitAccepts DEF Next
  <2>2. UNCHANGED <<entity, tracker>> BY <2>1 DEF Commit
  <2>3. AllDetected BY DEF StoredInv, ExactInv, Exact
  <2>4. \A i \in Live : Detected(tracker[i], entity[i])
    BY <1>2, <2>3 DEF AllDetected, StoredSafe, Saving
  <2> QED BY <2>2, <2>4 DEF Unedited, Live, Detected
<1>3. CASE pc # "commit"
  <2>1. ~(StatementRefused \/ SaveFails) BY <1>1, FailuresFail DEF FailSave, SaveIdle
  <2>2. ~SaveBegin BY <1>1 DEF SaveBegin, SaveIdle
  <2>3. ~(DrainAdds \/ DrainAddsDone \/ DrainDeletes \/ DrainDeletesDone)
    BY <1>1 DEF DrainAdds, DrainAddsDone, DrainDeletes, DrainDeletesDone
  <2>4. ~(InsertAdded \/ UpsertAdded \/ UpdateModified \/ DeleteDeleted)
    BY <1>1 DEF InsertAdded, UpsertAdded, UpdateModified, DeleteDeleted, Onward
  <2>5. ~(SetNullDirectives \/ CascadeDirectives \/ Commit)
    BY <1>1, <1>3 DEF SetNullDirectives, CascadeDirectives, Commit
  <2> QED BY <2>1, <2>2, <2>3, <2>4, <2>5 DEF SaveStep
<1> QED BY <1>2, <1>3

\* A save with nothing to write found nothing to write.
LEMMA BeginIsStored ==
    ASSUME StoredSafe, StoredInv, SaveBegin, result' = "ok", Tracked', Snapped'
    PROVE  SavedMeansStored'
<1>1. /\ UNCHANGED <<entity, db>> /\ tracker' = DetectChanges(tracker, Snapshots(DOMAIN entity))
      /\ \A i \in DOMAIN entity : i \in DOMAIN tracker' => tracker'[i].state \notin PendingStates
  BY DEF SaveBegin
<1>2. Tracked /\ Exact BY DEF StoredInv, ExactInv
<1>3. DOMAIN entity \subseteq DOMAIN tracker /\ DOMAIN entity \subseteq DOMAIN tracker'
  BY <1>1, <1>2 DEF Tracked
<1>4. ASSUME NEW i \in DOMAIN entity
      PROVE  Has(entity[i]) /\ Row(entity[i]) = entity[i].cols
  <2>1. i \in Live /\ i \in Live' BY <1>1, <1>3 DEF Live
  <2>2. SnapOf(tracker'[i]) /\ tracker'[i].state \notin PendingStates
    BY <1>1, <1>3, <2>1 DEF Snapped
  <2>3. tracker'[i].state = "Unchanged" BY <2>2 DEF SnapOf, EntityState, PendingStates
  <2>4. tracker'[i].original # NoSnapshot BY <2>2, <2>3 DEF SnapOf
  <2>5. pc = "idle" /\ EntriesOk(tracker) /\ RowsAre(db) /\ EntityPlain(entity[i])
    BY <1>2 DEF SaveBegin, Exact, Plain
  <2>6. EntryGood(tracker[i], entity[i]) BY <1>2, <2>1, <2>5 DEF Exact, Entries
  <2>7. EntryGood(tracker'[i], entity[i]) /\ Detected(tracker'[i], entity[i])
    BY <1>1, <2>1, <2>5, <2>6, DetectIsGood
  <2> QED BY <2>3, <2>4, <2>7 DEF StoredSafe, EntryGood, Detected
<1> QED BY <1>1, <1>4 DEF SavedMeansStored, Has, Row

LEMMA AcceptIsStored ==
    ASSUME StoredSafe, StoredInv, Accept, Tracked', Exact'
    PROVE  Snapped' /\ Unedited' /\ SavedMeansStored'
<1>1. Exact /\ OneType /\ Unedited /\ Snapped /\ pc = "accept"
  BY DEF StoredInv, ExactInv, StoredSafe, ExactSafe, Accept
<1>2. PICK n \in DOMAIN todo : AcceptSet(todo[n]) /\ (Len(todo) = 1 => SaveReturns)
  BY DEF Accept
<1>3. todo \in Seq(Types) /\ Len(todo) = 1 BY <1>1 DEF Exact, Turns
<1>4. PICK t \in Types : t = todo[n] BY <1>2, <1>3
<1>5. EntriesOk(tracker) /\ \A i \in DOMAIN entity : EntityPlain(entity[i])
  BY <1>1 DEF Exact, Plain
<1>6. /\ EntriesOk(tracker')
      /\ \A i \in DOMAIN entity' : i \in DOMAIN entity /\ entity'[i] = entity[i]
      /\ \A i \in Live' : i \in Live /\ tracker[i].state # "Deleted"
                          /\ Accepted(tracker[i], tracker'[i], entity[i])
  BY <1>2, <1>4, <1>5, AcceptSetIs DEF EntityPlain
<1>7. pc' = "idle" BY <1>2, <1>3 DEF SaveReturns
<1>8. ASSUME NEW i \in Live'
      PROVE  /\ tracker'[i].state = "Unchanged" /\ tracker'[i].original # NoSnapshot
             /\ entity'[i].cols = tracker'[i].original
  <2>1. /\ i \in Live /\ Accepted(tracker[i], tracker'[i], entity[i])
        /\ entity'[i] = entity[i]
    BY <1>6 DEF Live
  <2>2. EntryOk(tracker[i]) /\ EntityPlain(entity[i]) BY <1>5, <2>1 DEF EntriesOk, Live
  <2>3. CASE tracker[i].state \notin PendingStates /\ tracker'[i] = tracker[i]
    <3>0. SnapOf(tracker[i]) BY <1>1, <2>1 DEF Snapped
    <3>1. tracker[i].state = "Unchanged" BY <2>3, <3>0 DEF SnapOf, EntityState, PendingStates
    <3>2. tracker[i].original # NoSnapshot BY <3>0, <3>1 DEF SnapOf
    <3>3. Detected(tracker[i], entity[i]) BY <1>1, <2>1 DEF Unedited
    <3> QED BY <2>1, <2>3, <3>1, <3>2, <3>3 DEF Detected
  <2>4. CASE tracker'[i] = [tracker[i] EXCEPT !.state = "Unchanged", !.mods = {},
                                              !.original = entity[i].cols]
    <3>1. tracker'[i].state = "Unchanged" /\ tracker'[i].original = entity[i].cols
      BY <2>2, <2>4 DEF EntryOk
    <3>2. entity[i].cols # NoSnapshot
      BY <2>2, RowIsSnapshot DEF EntityPlain, StoredSafe
    <3> QED BY <2>1, <3>1, <3>2
  <2> QED BY <1>1, <2>1, <2>3, <2>4 DEF Accepted
<1>9. Snapped' /\ Unedited' BY <1>7, <1>8 DEF Snapped, SnapOf, EntityState, Unedited
<1>10. ASSUME NEW i \in DOMAIN entity'
       PROVE  (entity[i].pk \in DOMAIN db[entity[i].type]
               /\ db[entity[i].type][entity[i].pk] = entity[i].cols)'
  <2>1. i \in Live' BY DEF Tracked, Live
  <2>2. EntryGood(tracker[i], entity[i])' BY <1>7, <2>1 DEF Exact, Entries
  <2> QED BY <1>8, <2>1, <2>2 DEF EntryGood, Has, Row, StoredSafe
<1> QED BY <1>9, <1>10 DEF SavedMeansStored

LEMMA StoredOfSteps ==
    ASSUME StoredSafe, StoredInv, KeysApart, [Next]_vars
    PROVE  StoredInv'
<1>1. ExactSafe /\ OneType /\ ExactInv /\ others = 0
  BY DEF StoredSafe, ExactSafe, StoredInv
<1>2. ExactInv' BY <1>1, ExactOfSteps
<1>3. ~OtherWrites BY <1>1 DEF OtherWrites, StoredSafe
<1>4. CASE CallStep
  <2>1. Tracked' BY <1>4, TrackedByCalls
  <2>2. others' = 0 BY <1>1, <1>4, SameOthers
  <2>3. Snapped' BY <1>4, SnappedOfCalls
  <2>4. result' = "none" /\ pc' = "idle"
    BY <1>4 DEF CallStep, Call, Allowed, Add, AddOver, Attach, AttachIncluded, Update, Upsert,
                RemoveAll, LoadAll, Retain, Edit, RemoveAt, DetachEntry, RejectAll, DetectNow,
                ClearTracking, savevars
  <2>5. Unedited' /\ SavedMeansStored' BY <2>4 DEF Unedited, SavedMeansStored
  <2> QED BY <1>2, <2>1, <2>2, <2>3, <2>4, <2>5 DEF StoredInv
<1>5. CASE SaveStep /\ ~Accept
  <2>1. Tracked' BY <1>5, TrackedBySaves
  <2>2. others' = 0 BY <1>1, <1>5, SameOthers
  <2>3. Snapped' BY <1>5, SnappedOfSaves
  <2>4. Unedited' BY <1>5, UneditedOfSteps
  <2>5. CASE SaveBegin
    <3>1. result' = "ok" => pc' = "idle" BY <2>5 DEF SaveBegin, SaveIdle
    <3>2. SavedMeansStored' BY <2>1, <2>3, <2>5, BeginIsStored DEF SavedMeansStored
    <3> QED BY <1>2, <2>1, <2>2, <2>3, <2>4, <3>1, <3>2 DEF StoredInv
  <2>6. CASE ~SaveBegin
    <3>1. pc # "idle"
      BY <1>5, <2>6 DEF SaveStep, DrainAdds, DrainAddsDone, DrainDeletes, DrainDeletesDone,
         InsertAdded, UpsertAdded, UpdateModified, SetNullDirectives, DeleteDeleted,
         CascadeDirectives, StatementRefused, SaveFails, StatementFails, Commit
    <3>2. result # "ok" BY <3>1 DEF StoredInv
    <3>3. result' = result \/ result' = "failed"
      BY <1>5, <2>6 DEF SaveStep, DrainAdds, DrainAddsDone, DrainDeletes, DrainDeletesDone,
         InsertAdded, UpsertAdded, UpdateModified, SetNullDirectives, DeleteDeleted,
         CascadeDirectives, StatementRefused, SaveFails, StatementFails, Commit, FailSave
    <3>4. SavedMeansStored' BY <3>2, <3>3 DEF SavedMeansStored
    <3> QED BY <1>2, <2>1, <2>2, <2>3, <2>4, <3>2, <3>3, <3>4 DEF StoredInv
  <2> QED BY <2>5, <2>6
<1>6. CASE Accept
  <2>1. Tracked' BY <1>6, TrackedBySaves DEF SaveStep
  <2>2. others' = 0 BY <1>1, <1>6 DEF Accept
  <2>3. Exact' BY <1>2, <2>2 DEF ExactInv
  <2>4. Snapped' /\ Unedited' /\ SavedMeansStored' BY <1>6, <2>1, <2>3, AcceptIsStored
  <2>5. pc' = "idle"
    <3>1. todo \in Seq(Types) /\ (OneType => Len(todo) = 1)
      BY <1>1, <1>6 DEF ExactInv, Exact, Turns, Accept
    <3> QED BY <1>1, <1>6, <3>1 DEF Accept, SaveReturns
  <2> QED BY <1>2, <2>1, <2>2, <2>4, <2>5 DEF StoredInv
<1>7. CASE UNCHANGED vars
  <2>1. Tracked' BY <1>7 DEF vars, StoredInv, Tracked
  <2>2. Snapped' /\ Unedited' /\ SavedMeansStored' /\ (result' = "ok" => pc' = "idle")
    BY <1>7 DEF vars, StoredInv, Snapped, Unedited, SavedMeansStored, Live, Detected
  <2> QED BY <1>1, <1>2, <1>7, <2>1, <2>2 DEF StoredInv, vars
<1> QED BY <1>3, <1>4, <1>5, <1>6, <1>7 DEF Next, SaveStep

\* After save_changes returned Ok every entity in the DbSet has the columns of
\* its row, whatever was added, attached, loaded, edited and removed before
\* and however many saves failed: detection finds every edit, the statements
\* write it under a key that is the entity's alone, and the acceptance
\* pretends nothing (db_context/save_pipeline.rs:73-600, tracking.rs:107-198).
THEOREM SavedIsStored == StoredSafe => (Spec /\ []KeysApart => []SavedMeansStored)
<1> SUFFICES ASSUME StoredSafe PROVE Spec /\ []KeysApart => []SavedMeansStored OBVIOUS
<1>1. Init => StoredInv
  <2> SUFFICES ASSUME Init PROVE StoredInv OBVIOUS
  <2>1. DOMAIN entity = {} /\ DOMAIN tracker = {} /\ pc = "idle" /\ result = "none" /\ others = 0
    BY DEF Init, EmptyTracker
  <2>2. Tracked BY <2>1 DEF Tracked
  <2>3. Snapped /\ Unedited /\ SavedMeansStored
    BY <2>1 DEF Snapped, Unedited, SavedMeansStored, Live
  <2> QED BY <2>1, <2>2, <2>3, ExactOfInit DEF StoredInv
<1>2. StoredInv /\ KeysApart /\ [Next]_vars => StoredInv' BY StoredOfSteps
<1>3. StoredInv => SavedMeansStored BY DEF StoredInv
<1> QED BY <1>1, <1>2, <1>3, PTL DEF Spec
=============================================================================
