-------------------------- MODULE TxnSessionProofs --------------------------
(* Type correctness of TxnSession for every set of connections, statements, *)
(* saves and handles, every set of faults and cancellations; that the pool  *)
(* stays clean, a handle owns the session, abandoned work is gone and what  *)
(* was acknowledged in a transaction is durable after its commit, for the   *)
(* faults and cancellations the code guards.                                *)
EXTENDS TxnSession, SequenceTheorems, TLAPS

-----------------------------------------------------------------------------
(* What the database operations preserve.                                   *)

(* The stacks of savepoints stay sequences of their entries.                *)
LEMMA Stacks ==
  ASSUME NEW R, NEW q \in Seq(R), NEW i \in DOMAIN q
  PROVE  /\ q[i] \in R
         /\ SubSeq(q, 1, i) \in Seq(R)
         /\ SubSeq(q, 1, i - 1) \in Seq(R)
         /\ Without(q, i) \in Seq(R)
<1>1. Len(q) \in Nat /\ DOMAIN q = 1 .. Len(q) /\ i \in 1 .. Len(q) BY LenProperties
<1>2. \A j \in 1 .. Len(q) : q[j] \in R BY ElementOfSeq
<1>3. SubSeq(q, 1, i) \in Seq(R) BY <1>1, <1>2, SubSeqProperties
<1>4. SubSeq(q, 1, i - 1) \in Seq(R)
  <2>1. \A j \in 1 .. i - 1 : q[j] \in R BY <1>1, <1>2
  <2> QED BY <1>1, <2>1, SubSeqProperties
<1>5. SubSeq(q, i + 1, Len(q)) \in Seq(R)
  <2>1. \A j \in i + 1 .. Len(q) : q[j] \in R BY <1>1, <1>2
  <2> QED BY <1>1, <2>1, SubSeqProperties
<1>6. Without(q, i) \in Seq(R) BY <1>4, <1>5, ConcatProperties DEF Without
<1> QED BY <1>1, <1>2, <1>3, <1>4, <1>6

MarkEntry == [name : Points \cup Saves, work : SUBSET Work]

(* A new stack for one connection, which is empty outside a transaction.    *)
LEMMA MarkType ==
  ASSUME DbType, NEW c \in Conns, NEW q \in Seq(MarkEntry), mark' = [mark EXCEPT ![c] = q],
         txs' \in [Conns -> {"none", "open", "aborted"}],
         pending' \in [Conns -> SUBSET Work], durable' \subseteq Work,
         \A d \in Conns \ {c} : txs'[d] = txs[d],
         txs'[c] = "none" => q = <<>>
  PROVE  DbType'
<1>1. mark \in [Conns -> Seq(MarkEntry)] BY DEF DbType, MarkEntry
<1>2. mark' \in [Conns -> Seq(MarkEntry)] BY <1>1
<1>3. \A d \in Conns : txs'[d] = "none" => mark'[d] = <<>> BY <1>1 DEF DbType
<1> QED BY <1>2, <1>3 DEF DbType, MarkEntry

LEMMA DbEffect ==
  ASSUME DbType, NEW c \in Conns,
         \/ (\E w \in Work : RunOk(c, w)) \/ RunFails(c)
         \/ (\E a : EndTxn(c, a)) \/ CommitOk(c) \/ CommitFails(c)
         \/ OpenTxn(c) \/ OpenFails(c) \/ UNCHANGED db
  PROVE  DbType'
<1>0. /\ mark \in [Conns -> Seq(MarkEntry)] /\ mark[c] \in Seq(MarkEntry)
      /\ txs \in [Conns -> {"none", "open", "aborted"}]
      /\ pending \in [Conns -> SUBSET Work] /\ durable \subseteq Work
  BY DEF DbType, MarkEntry
<1>1. ASSUME NEW a, EndTxn(c, a) PROVE DbType'
  <2>1. <<>> \in Seq(MarkEntry) BY EmptySeq
  <2> QED BY <1>0, <1>1, <2>1, MarkType DEF EndTxn
<1>2. ASSUME NEW w \in Work, RunOk(c, w) PROVE DbType'
  BY <1>2 DEF DbType, RunOk
<1>3. CASE RunFails(c) BY <1>1, <1>3 DEF DbType, RunFails, AbortsOnError
<1>4. CASE CommitOk(c) BY <1>4, <1>1 DEF CommitOk
<1>5. CASE CommitFails(c) BY <1>5, <1>1 DEF CommitFails
<1>6. CASE OpenTxn(c)
  <2>1. CASE Provider = "mysql"
    <3>1. <<>> \in Seq(MarkEntry) BY EmptySeq
    <3>2. /\ txs' \in [Conns -> {"none", "open", "aborted"}]
          /\ pending' \in [Conns -> SUBSET Work] /\ durable' \subseteq Work
          /\ \A d \in Conns \ {c} : txs'[d] = txs[d]
          /\ mark' = [mark EXCEPT ![c] = <<>>]
      BY <1>0, <1>6, <2>1 DEF OpenTxn
    <3> QED BY <3>1, <3>2, MarkType
  <2>2. CASE Provider # "mysql" BY <1>6, <2>2 DEF DbType, OpenTxn
  <2> QED BY <2>1, <2>2
<1>7. CASE UNCHANGED db \/ OpenFails(c) BY <1>7 DEF DbType, OpenFails, db
<1> QED BY <1>1, <1>2, <1>3, <1>4, <1>5, <1>6, <1>7

LEMMA MarkEffect ==
  ASSUME DbType, NEW c \in Conns, NEW n \in Points \cup Saves,
         \/ SetMark(c, n) \/ RollbackToMark(c, n) \/ ReleaseMark(c, n)
         \/ \E f : PointFails(c, n, f)
  PROVE  DbType'
<1>0. /\ mark \in [Conns -> Seq(MarkEntry)] /\ mark[c] \in Seq(MarkEntry)
      /\ txs \in [Conns -> {"none", "open", "aborted"}]
      /\ pending \in [Conns -> SUBSET Work] /\ durable \subseteq Work
  BY DEF DbType, MarkEntry
<1>1. CASE SetMark(c, n)
  <2>1. CASE UNCHANGED db BY <2>1, DbEffect
  <2>2. ASSUME NEW q \in Seq(MarkEntry), AddMark(c, q, n),
               txs' = [txs EXCEPT ![c] = "open"], UNCHANGED <<pending, durable>>
        PROVE  DbType'
    <3>1. [name |-> n, work |-> pending[c]] \in MarkEntry BY <1>0 DEF MarkEntry
    <3>2. Append(q, [name |-> n, work |-> pending[c]]) \in Seq(MarkEntry)
      BY <3>1, AppendProperties
    <3> QED BY <1>0, <2>2, <3>2, MarkType DEF AddMark
  <2>3. \A i \in DOMAIN mark[c] : Without(mark[c], i) \in Seq(MarkEntry) BY <1>0, Stacks
  <2> QED BY <1>0, <1>1, <2>1, <2>2, <2>3 DEF SetMark
<1>2. CASE RollbackToMark(c, n)
  <2> PICK i \in DOMAIN mark[c] : /\ pending' = [pending EXCEPT ![c] = mark[c][i].work]
                                  /\ mark' = [mark EXCEPT ![c] = SubSeq(@, 1, i)]
    BY <1>2 DEF RollbackToMark
  <2>1. mark[c][i] \in MarkEntry /\ SubSeq(mark[c], 1, i) \in Seq(MarkEntry) BY <1>0, Stacks
  <2>2. mark[c][i].work \in SUBSET Work BY <2>1 DEF MarkEntry
  <2> QED BY <1>0, <1>2, <2>1, <2>2, MarkType DEF RollbackToMark
<1>3. CASE ReleaseMark(c, n)
  <2> PICK i \in DOMAIN mark[c] :
        \/ EndTxn(c, TRUE)
        \/ mark' = [mark EXCEPT ![c] = SubSeq(@, 1, i - 1)] /\ UNCHANGED <<txs, pending, durable>>
    BY <1>3 DEF ReleaseMark
  <2>1. CASE EndTxn(c, TRUE) BY <2>1, DbEffect
  <2>2. CASE mark' = [mark EXCEPT ![c] = SubSeq(@, 1, i - 1)] /\ UNCHANGED <<txs, pending, durable>>
    <3>1. SubSeq(mark[c], 1, i - 1) \in Seq(MarkEntry) BY <1>0, Stacks
    <3>2. txs[c] # "none" BY <1>3 DEF ReleaseMark
    <3> QED BY <1>0, <2>2, <3>1, <3>2, MarkType
  <2> QED BY <2>1, <2>2
<1>4. ASSUME NEW f, PointFails(c, n, f) PROVE DbType'
  BY <1>4 DEF DbType, PointFails, AbortsOnError
<1> QED BY <1>1, <1>2, <1>3, <1>4

(* A connection goes from one holder to another.                            *)
Moves == UNCHANGED holder \/ \E c \in Conns, h \in Holders : holder' = [holder EXCEPT ![c] = h]

LEMMA HolderNames ==
  /\ Pool \in Holders /\ Owner \in Holders
  /\ \A t \in Handles : Slot(t) \in Holders /\ Taker(t) \in Holders
  /\ \A k \in Stmts : User(k) \in Holders
  BY DEF Holders

LEMMA MovesType ==
  ASSUME holder \in [Conns -> Holders], Moves
  PROVE  holder' \in [Conns -> Holders]
  BY DEF Moves

-----------------------------------------------------------------------------
(* The type invariant.                                                      *)

LEMMA TypeInit == Init => TypeOK
<1> SUFFICES ASSUME Init PROVE TypeOK OBVIOUS
<1>1. holder \in [Conns -> Holders] BY HolderNames DEF Init
<1>2. DbType BY DEF Init, DbType
<1>3. OwnerType BY DEF Init, OwnerType
<1>4. HandleType BY DEF Init, HandleType
<1>5. WorkType BY DEF Init, WorkType
<1> QED BY <1>1, <1>2, <1>3, <1>4, <1>5 DEF Init, TypeOK

LEMMA TypeStmt ==
  ASSUME TypeOK, NEW k \in Stmts, StmtStart(k) \/ StmtStep(k) \/ StmtCancel(k)
  PROVE  TypeOK'
<1>0. k \in Work BY DEF Work
<1>1. UNCHANGED <<owner, handle, active>>
  BY DEF StmtStart, StmtStep, StmtRoute, StmtAcquire, StmtLockSlot, StmtRun, StmtCancel
<1>2. OwnerType' /\ HandleType' /\ active' \in Handles \cup {NoHandle}
  BY <1>1 DEF TypeOK, OwnerType, HandleType, owner, handle
<1>3. WorkType'
  BY <1>0 DEF TypeOK, WorkType, StmtStart, StmtStep, StmtRoute, StmtAcquire, StmtLockSlot,
              StmtRun, StmtCancel, StmtEnds
<1>4. Moves
  BY HolderNames DEF Moves, StmtStart, StmtStep, StmtRoute, StmtAcquire, StmtLockSlot,
              StmtRun, StmtCancel, GiveBack
<1>5. DbType'
  <2>1. CASE StmtRun(k) \/ StmtCancel(k)
    BY <1>0, <2>1, DbEffect DEF TypeOK, StmtRun, StmtCancel
  <2>2. CASE UNCHANGED db BY <2>2 DEF TypeOK, DbType, db
  <2> QED BY <2>1, <2>2 DEF StmtStart, StmtStep, StmtRoute, StmtAcquire, StmtLockSlot
<1> QED BY <1>2, <1>3, <1>4, <1>5, MovesType DEF TypeOK

LEMMA TypeBegin ==
  ASSUME TypeOK, BeginLock \/ BeginStep \/ BeginCancel
  PROVE  TypeOK'
<1>1. UNCHANGED <<hop, hres, bg, points, tpc, via, res, osave, scoped>>
  BY DEF BeginLock, BeginStep, BeginAcquire, BeginOk, BeginFails, BeginCancel, handle
<1>2. WorkType' BY <1>1 DEF TypeOK, WorkType
<1>3. HandleType'
  BY <1>1 DEF TypeOK, HandleType, BeginLock, BeginStep, BeginAcquire, BeginOk, BeginFails,
              BeginCancel, handle
<1>4. OwnerType'
  BY <1>1 DEF TypeOK, OwnerType, BeginLock, BeginStep, BeginAcquire, BeginOk, BeginFails,
              BeginCancel
<1>5. active' \in Handles \cup {NoHandle}
  BY DEF TypeOK, BeginLock, BeginStep, BeginAcquire, BeginOk, BeginFails, BeginCancel
<1>6. Moves
  BY HolderNames DEF Moves, BeginLock, BeginStep, BeginAcquire, BeginOk, BeginFails,
              BeginCancel, GiveBack
<1>7. DbType'
  <2>1. CASE UNCHANGED db BY <2>1 DEF TypeOK, DbType, db
  <2>2. ASSUME NEW c \in Conns, OpenTxn(c) \/ EndTxn(c, FALSE) PROVE DbType'
    BY <2>2, DbEffect DEF TypeOK
  <2>3. ASSUME NEW c \in Conns, txs' = [txs EXCEPT ![c] = "aborted"],
               UNCHANGED <<pending, mark, durable>>
        PROVE  DbType'
    BY <2>3 DEF TypeOK, DbType
  <2> QED BY <2>1, <2>2, <2>3 DEF BeginLock, BeginStep, BeginAcquire, BeginOk, BeginFails,
              BeginCancel, OpenFails
<1> QED BY <1>2, <1>3, <1>4, <1>5, <1>6, <1>7, MovesType DEF TypeOK

LEMMA TypeSave ==
  ASSUME TypeOK, NEW s \in Saves, SaveStart(s) \/ SaveStep(s) \/ SaveCancel(s)
  PROVE  TypeOK'
<1>0. s \in Work /\ s \in Points \cup Saves BY DEF Work
<1>1. UNCHANGED <<handle, tpc, active>>
  BY DEF SaveStart, SaveStep, SaveRoute, SaveAcquire, SaveBegin, SavePoint, SaveDml,
         SaveManagedEnd, SaveRollbackTo, SaveRelease, SaveCancel
<1>2. HandleType' /\ active' \in Handles \cup {NoHandle}
  BY <1>1 DEF TypeOK, HandleType, handle
<1>3. WorkType'
  BY <1>0, <1>1 DEF TypeOK, WorkType, SaveStart, SaveStep, SaveRoute, SaveAcquire, SaveBegin,
         SavePoint, SaveDml, SaveManagedEnd, SaveRollbackTo, SaveRelease, SaveCancel, SaveEnds
<1>4. OwnerType'
  <2>1. CASE SaveStart(s) BY <2>1 DEF TypeOK, OwnerType, SaveStart
  <2>2. CASE SaveStep(s) \/ SaveCancel(s)
    BY <2>2 DEF TypeOK, OwnerType, SaveStep, SaveRoute, SaveAcquire, SaveBegin, SavePoint,
         SaveDml, SaveManagedEnd, SaveRollbackTo, SaveRelease, SaveCancel, SaveEnds
  <2> QED BY <2>1, <2>2
<1>5. Moves
  BY HolderNames DEF Moves, SaveStart, SaveStep, SaveRoute, SaveAcquire, SaveBegin, SavePoint,
         SaveDml, SaveManagedEnd, SaveRollbackTo, SaveRelease, SaveCancel, GiveBack
<1>6. DbType'
  <2>1. CASE UNCHANGED db BY <2>1 DEF TypeOK, DbType, db
  <2>2. ASSUME NEW c \in Conns, InFlight(s, c) PROVE DbType'
    BY <1>0, <2>2, DbEffect, MarkEffect DEF TypeOK, InFlight
  <2>3. CASE SaveCancel(s) BY <1>0, <2>1, <2>2, <2>3, DbEffect DEF TypeOK, SaveCancel
  <2>4. CASE SaveBegin(s) \/ SavePoint(s)
    BY <1>0, <2>1, <2>4, DbEffect, MarkEffect DEF TypeOK, SaveBegin, SavePoint
  <2>5. CASE SaveDml(s) \/ SaveManagedEnd(s)
    BY <1>0, <2>1, <2>5, DbEffect DEF TypeOK, SaveDml, SaveManagedEnd
  <2>6. CASE SaveRollbackTo(s) \/ SaveRelease(s)
    BY <1>0, <2>1, <2>6, MarkEffect DEF TypeOK, SaveRollbackTo, SaveRelease
  <2> QED BY <2>1, <2>3, <2>4, <2>5, <2>6 DEF SaveStart, SaveStep, SaveRoute, SaveAcquire
<1> QED BY <1>2, <1>3, <1>4, <1>5, <1>6, MovesType DEF TypeOK

HandleCall(t) == HandleCommit(t) \/ HandleRollback(t) \/ HandleDrop(t) \/ HandleCancel(t)

LEMMA TypeHandle ==
  ASSUME TypeOK, NEW t \in Handles, HandleCall(t) \/ HandleStep(t) \/ BackgroundStep(t)
  PROVE  TypeOK'
<1> USE DEF HandleCall, HandleCommit, HandleRollback, HandleDrop, HandleTake, HandleCancel,
            HandleStep, TakeConn, Finish, ClearSession, DropClearNow, DropTryTake,
            BackgroundStep, BackgroundRollback, BackgroundClear, SharedTxnDrop, Discard
<1>1. UNCHANGED <<owner, tpc, via, res>> OBVIOUS
<1>2. OwnerType' /\ WorkType' BY <1>1 DEF TypeOK, OwnerType, WorkType, owner
<1>3. HandleType'
  <2>1. points' = points \/ points' = [points EXCEPT ![t] = <<>>] BY DEF handle
  <2>2. points' \in [Handles -> Seq([name : Points, done : SUBSET Work])]
    BY <2>1, EmptySeq DEF TypeOK, HandleType
  <2> QED BY <2>2 DEF TypeOK, HandleType, handle
<1>4. active' \in Handles \cup {NoHandle} BY DEF TypeOK
<1>5. Moves BY HolderNames DEF Moves, GiveBack
<1>6. DbType'
  <2>1. CASE UNCHANGED db BY <2>1 DEF TypeOK, DbType, db
  <2>2. ASSUME NEW c \in Conns, CommitOk(c) \/ CommitFails(c) \/ EndTxn(c, FALSE) PROVE DbType'
    BY <2>2, DbEffect DEF TypeOK
  <2> QED BY <2>1, <2>2
<1> QED BY <1>2, <1>3, <1>4, <1>5, <1>6, MovesType DEF TypeOK

PointStep(t) == SetIsolation(t) \/ \E n \in Points :
  CreatePoint(t, n) \/ RollbackPoint(t, n) \/ ReleasePoint(t, n)

LEMMA TypePoint ==
  ASSUME TypeOK, NEW t \in Handles, PointStep(t)
  PROVE  TypeOK'
<1> DEFINE E == [name : Points, done : SUBSET Work]
<1>0. points \in [Handles -> Seq(E)] /\ points[t] \in Seq(E) BY DEF TypeOK, HandleType
<1>1. UNCHANGED <<holder, active, owner, hpc, hop, hres, bg, tpc, via>>
  BY DEF PointStep, SetIsolation, CreatePoint, RollbackPoint, ReleasePoint, handle
<1>2. OwnerType' BY <1>1 DEF TypeOK, OwnerType, owner
<1>3. res' \in [Work -> {"none", "ok", "err", "cancelled", "undone"}]
  <2>1. CASE res' = res BY <2>1 DEF TypeOK, WorkType
  <2>2. ASSUME NEW u, res' = [w \in Work |-> IF w \in u THEN "undone" ELSE res[w]]
        PROVE  res' \in [Work -> {"none", "ok", "err", "cancelled", "undone"}]
    BY <2>2 DEF TypeOK, WorkType
  <2> QED BY <2>1, <2>2 DEF PointStep, SetIsolation, CreatePoint, RollbackPoint, ReleasePoint
<1>4. WorkType' BY <1>1, <1>3 DEF TypeOK, WorkType
<1>5. points' \in [Handles -> Seq(E)]
  <2>1. CASE UNCHANGED points BY <1>0, <2>1
  <2>2. ASSUME NEW n \in Points,
               points' = [points EXCEPT ![t] = Append(@, [name |-> n, done |-> Acknowledged(t)])]
        PROVE  points' \in [Handles -> Seq(E)]
    <3>1. [name |-> n, done |-> Acknowledged(t)] \in E BY DEF Acknowledged
    <3>2. Append(points[t], [name |-> n, done |-> Acknowledged(t)]) \in Seq(E)
      BY <1>0, <3>1, AppendProperties
    <3> QED BY <1>0, <2>2, <3>2
  <2>3. ASSUME NEW i \in DOMAIN points[t],
               \/ points' = [points EXCEPT ![t] = SubSeq(@, 1, i)]
               \/ points' = [points EXCEPT ![t] = SubSeq(@, 1, i - 1)]
        PROVE  points' \in [Handles -> Seq(E)]
    <3>1. SubSeq(points[t], 1, i) \in Seq(E) /\ SubSeq(points[t], 1, i - 1) \in Seq(E)
      BY <1>0, Stacks
    <3> QED BY <1>0, <2>3, <3>1
  <2> QED BY <2>1, <2>2, <2>3
          DEF PointStep, SetIsolation, CreatePoint, RollbackPoint, ReleasePoint, handle
<1>6. HandleType' BY <1>1, <1>5 DEF TypeOK, HandleType
<1>7. DbType'
  <2>1. CASE SetIsolation(t) BY <2>1 DEF SetIsolation, TypeOK, DbType, AbortsOnError
  <2>2. ASSUME NEW n \in Points, CreatePoint(t, n) \/ RollbackPoint(t, n) \/ ReleasePoint(t, n)
        PROVE  DbType'
    BY <2>2, MarkEffect DEF TypeOK, CreatePoint, RollbackPoint, ReleasePoint
  <2> QED BY <2>1, <2>2 DEF PointStep
<1> QED BY <1>1, <1>2, <1>4, <1>6, <1>7 DEF TypeOK

(* The type invariant holds in every behaviour of the session.              *)
THEOREM TypeCorrect == Spec => []TypeOK
<1>1. TypeOK /\ [Next]_vars => TypeOK'
  <2> SUFFICES ASSUME TypeOK, [Next]_vars PROVE TypeOK' OBVIOUS
  <2>1. CASE Next
    BY <2>1, TypeStmt, TypeBegin, TypeSave, TypeHandle, TypePoint
       DEF Next, CallerStep, HandleCall, PointStep
  <2>2. CASE UNCHANGED vars
    BY <2>2 DEF TypeOK, DbType, OwnerType, HandleType, WorkType, vars, owner, handle, db
  <2> QED BY <2>1, <2>2
<1> QED BY TypeInit, <1>1, PTL DEF Spec

-----------------------------------------------------------------------------
(* The pool stays clean.  Three things are left out, because each makes it  *)
(* fail: a begin (or the BEGIN of a managed save) that is cancelled, an     *)
(* isolation level whose ROLLBACK may fail as well, and, in SQLite, any     *)
(* cancelled statement and a failing RELEASE on a connection that came from *)
(* the pool.                                                                *)
SafeUse ==
  /\ "begin" \notin Cancels
  /\ ~({"isolation", "rollback"} \subseteq Faults)
  /\ Provider = "sqlite" => Cancels = {} /\ "release" \notin Faults

IsClean(c) == txs[c] = "none" /\ pending[c] = {}

(* PoolIsClean is not inductive: it depends on what the futures that give a *)
(* connection back hold.  The owner holds at most one, only where it is     *)
(* about to use it, and a clean one until BEGIN or SAVEPOINT; a statement   *)
(* outside a transaction holds a clean one; a save that joined no slot has  *)
(* a savepoint only in SQLite, where it is still there for the RELEASE that *)
(* commits it, and in MySQL runs in autocommit mode, so its connection stays*)
(* clean; and SQLite never aborts a transaction.                            *)
OwnerHolds == {"b_exec", "s_begin", "s_point", "s_dml", "s_more", "s_end", "s_undo", "s_undone"}

OneSave == \A r, s \in osave : r = s
OwnerHasOne == \A c, d \in Conns : holder[c] = Owner /\ holder[d] = Owner => c = d
OwnerUses == \A c \in Conns :
  holder[c] = Owner => opc \in OwnerHolds /\ \A s \in osave : via[s] = NoHandle
OwnerIsClean == \A c \in Conns :
  /\ holder[c] = Owner
  /\ opc \in {"b_exec", "s_begin", "s_point"} \/ (scoped /\ Provider = "mysql")
  => IsClean(c)
StmtIsClean == \A c \in Conns, k \in Stmts : holder[c] = User(k) => IsClean(c)
RawNotPostgres ==
  scoped /\ opc \in {"s_dml", "s_more", "s_end", "s_undo", "s_undone"}
    => \A s \in osave : via[s] = NoHandle => Provider # "postgres"
UnjoinedUsesPool == opc = "s_pool" => \A s \in osave : via[s] = NoHandle
BeginIsManaged == opc = "s_begin" => ~scoped
RawHasMark ==
  scoped /\ Provider = "sqlite" /\ opc \in {"s_dml", "s_more", "s_end", "s_undo", "s_undone"}
    => \A c \in Conns, s \in osave : holder[c] = Owner => HasMark(c, s)
SqliteNeverAborts == Provider = "sqlite" => \A c \in Conns : txs[c] # "aborted"

PoolInv ==
  /\ TypeOK /\ PoolIsClean
  /\ OneSave /\ OwnerHasOne /\ OwnerUses /\ OwnerIsClean
  /\ StmtIsClean /\ RawNotPostgres /\ SqliteNeverAborts
  /\ UnjoinedUsesPool /\ BeginIsManaged /\ RawHasMark

LEMMA HoldersDiffer ==
  /\ Pool # Owner
  /\ \A t \in Handles : /\ Pool # Slot(t) /\ Pool # Taker(t)
                        /\ Owner # Slot(t) /\ Owner # Taker(t)
  /\ \A k \in Stmts : Pool # User(k) /\ Owner # User(k)
  /\ \A t \in Handles, k \in Stmts : Slot(t) # User(k) /\ Taker(t) # User(k)
  BY DEF Pool, Owner, Slot, Taker, User

LEMMA PoolInit == Init => PoolInv
<1> SUFFICES ASSUME Init PROVE PoolInv OBVIOUS
<1>1. PoolIsClean BY DEF Init, PoolIsClean
<1>2. OneSave /\ OwnerHasOne /\ OwnerUses /\ OwnerIsClean
  BY HoldersDiffer DEF Init, OneSave, OwnerHasOne, OwnerUses, OwnerIsClean
<1>3. StmtIsClean BY HoldersDiffer DEF Init, StmtIsClean
<1>4. RawNotPostgres /\ SqliteNeverAborts /\ UnjoinedUsesPool /\ BeginIsManaged /\ RawHasMark
  BY DEF Init, RawNotPostgres, SqliteNeverAborts, UnjoinedUsesPool, BeginIsManaged, RawHasMark
<1> QED BY <1>1, <1>2, <1>3, <1>4, TypeInit DEF PoolInv

(* What happened in the database happened on one connection.               *)
SameButFor(c) ==
  \A d \in Conns \ {c} : txs'[d] = txs[d] /\ pending'[d] = pending[d] /\ mark'[d] = mark[d]

(* A step of a statement, a handle or a background task changes one         *)
(* connection, leaves the owner and the routes of the saves alone, and      *)
(* neither takes from nor gives to the owner.                               *)
LEMMA OthersKeep ==
  ASSUME PoolInv, UNCHANGED <<opc, osave, scoped>>,
         \A s \in Saves : via'[s] = via[s],
         \/ UNCHANGED <<holder, txs, pending, mark>>
         \/ \E c \in Conns, h \in Holders :
              /\ holder[c] # Owner /\ h # Owner
              /\ holder' = [holder EXCEPT ![c] = h]
              /\ SameButFor(c)
              /\ (h = Pool \/ \E k \in Stmts : h = User(k)) => txs'[c] = "none" /\ pending'[c] = {}
              /\ Provider = "sqlite" => txs'[c] # "aborted"
  PROVE  /\ PoolIsClean' /\ OneSave' /\ OwnerHasOne' /\ OwnerUses' /\ OwnerIsClean'
         /\ StmtIsClean' /\ RawNotPostgres' /\ SqliteNeverAborts'
         /\ UnjoinedUsesPool' /\ BeginIsManaged' /\ RawHasMark'
<1> USE DEF SameButFor
<1>0. osave \subseteq Saves /\ holder \in [Conns -> Holders] BY DEF PoolInv, TypeOK, OwnerType
<1>1. PoolIsClean' BY <1>0 DEF PoolInv, PoolIsClean
<1>2. OneSave' BY DEF PoolInv, OneSave
<1>3. OwnerHasOne' BY <1>0 DEF PoolInv, OwnerHasOne
<1>4. OwnerUses' BY <1>0 DEF PoolInv, OwnerUses
<1>5. OwnerIsClean' BY <1>0 DEF PoolInv, OwnerIsClean, IsClean
<1>6. StmtIsClean' BY <1>0 DEF PoolInv, StmtIsClean, IsClean
<1>7. RawNotPostgres' BY <1>0 DEF PoolInv, RawNotPostgres
<1>8. SqliteNeverAborts' BY <1>0 DEF PoolInv, SqliteNeverAborts
<1>9. UnjoinedUsesPool' /\ BeginIsManaged'
  BY <1>0 DEF PoolInv, UnjoinedUsesPool, BeginIsManaged
<1>10. RawHasMark' BY <1>0 DEF PoolInv, RawHasMark, HasMark
<1> QED BY <1>1, <1>2, <1>3, <1>4, <1>5, <1>6, <1>7, <1>8, <1>9, <1>10

LEMMA PoolStmt ==
  ASSUME PoolInv, SafeUse, NEW k \in Stmts, StmtStart(k) \/ StmtStep(k) \/ StmtCancel(k)
  PROVE  PoolInv'
<1>0. /\ k \in Work /\ k \notin Saves /\ holder \in [Conns -> Holders]
      /\ mark \in [Conns -> Seq(MarkEntry)]
      /\ txs \in [Conns -> {"none", "open", "aborted"}] /\ pending \in [Conns -> SUBSET Work]
      /\ via \in [Work -> Handles \cup {NoHandle}]
  BY NamesAssumption DEF Work, PoolInv, TypeOK, DbType, WorkType, MarkEntry
<1>1. TypeOK' BY TypeStmt DEF PoolInv
<1>2. UNCHANGED <<opc, osave, scoped>>
  BY DEF StmtStart, StmtStep, StmtRoute, StmtAcquire, StmtLockSlot, StmtRun, StmtCancel, owner
<1>3. \A s \in Saves : via'[s] = via[s]
  <2>1. via' = via \/ via' = [via EXCEPT ![k] = active]
    BY DEF StmtStart, StmtStep, StmtRoute, StmtAcquire, StmtLockSlot, StmtRun, StmtCancel
  <2>2. Saves \subseteq Work BY DEF Work
  <2> QED BY <1>0, <2>1, <2>2
<1>4. CASE StmtStart(k) \/ StmtRoute(k) \/ StmtLockSlot(k)
  <2>1. UNCHANGED <<holder, txs, pending, mark>> BY <1>4 DEF StmtStart, StmtRoute, StmtLockSlot, db
  <2> QED BY <1>1, <1>2, <1>3, <2>1, OthersKeep DEF PoolInv
<1>5. CASE StmtAcquire(k)
  <2>1. CASE UNCHANGED holder
    BY <1>1, <1>2, <1>3, <1>5, <2>1, OthersKeep DEF PoolInv, StmtAcquire, db
  <2>2. ASSUME NEW c \in Conns, holder[c] = Pool, holder' = [holder EXCEPT ![c] = User(k)]
        PROVE  PoolInv'
    <3>1. txs[c] = "none" /\ pending[c] = {} /\ UNCHANGED <<txs, pending, mark>>
      BY <1>5, <2>2 DEF PoolInv, PoolIsClean, StmtAcquire, db
    <3>2. holder[c] # Owner /\ User(k) # Owner /\ User(k) \in Holders
      BY <2>2, HoldersDiffer, HolderNames
    <3> QED BY <1>1, <1>2, <1>3, <2>2, <3>1, <3>2, OthersKeep DEF PoolInv, SameButFor
  <2> QED BY <1>5, <2>1, <2>2 DEF StmtAcquire
<1>6. CASE StmtRun(k) \/ StmtCancel(k)
  <2> PICK c \in Conns :
        /\ StmtConn(k, c)
        /\ RunOk(c, k) \/ RunFails(c) \/ UNCHANGED db
        /\ UNCHANGED holder \/ GiveBack(c)
        /\ via[k] # NoHandle => UNCHANGED holder
        /\ via[k] = NoHandle => GiveBack(c)
    <3>1. CASE StmtRun(k) BY <3>1 DEF StmtRun
    <3>2. CASE StmtCancel(k)
      <4>1. Provider # "sqlite" BY <3>2 DEF StmtCancel, SafeUse
      <4> QED BY <3>2, <4>1 DEF StmtCancel
    <3> QED BY <1>6, <3>1, <3>2
  <2>1. holder[c] # Owner BY <1>0, HoldersDiffer DEF StmtConn
  <2>2. SameButFor(c)
    BY <1>0 DEF SameButFor, RunOk, RunFails, EndTxn, AbortsOnError, db
  <2>3. Provider = "sqlite" => txs'[c] # "aborted"
    BY <1>0 DEF PoolInv, SqliteNeverAborts, RunOk, RunFails, EndTxn, AbortsOnError, db
  <2>4. CASE via[k] = NoHandle
    <3>1. txs[c] = "none" /\ pending[c] = {}
      BY <2>4 DEF StmtConn, PoolInv, StmtIsClean, IsClean
    <3>2. txs'[c] = "none" /\ pending'[c] = {}
      BY <1>0, <3>1 DEF RunOk, RunFails, AbortsOnError, db
    <3> QED BY <1>1, <1>2, <1>3, <2>1, <2>2, <2>3, <2>4, <3>2, OthersKeep, HoldersDiffer,
              HolderNames DEF PoolInv, GiveBack
  <2>5. CASE via[k] # NoHandle
    <3>1. /\ holder' = [holder EXCEPT ![c] = Slot(via[k])]
          /\ Slot(via[k]) \in Holders /\ Slot(via[k]) # Owner /\ Slot(via[k]) # Pool
          /\ \A j \in Stmts : Slot(via[k]) # User(j)
      BY <1>0, <2>5, HoldersDiffer, HolderNames DEF StmtConn
    <3> HIDE DEF Slot
    <3> DEFINE h == Slot(via[k])
    <3>2. h \in Holders /\ h # Owner /\ h # Pool /\ \A j \in Stmts : h # User(j) BY <3>1
    <3>3. holder' = [holder EXCEPT ![c] = h] BY <3>1
    <3> HIDE DEF h
    <3> QED BY <1>1, <1>2, <1>3, <2>1, <2>2, <2>3, <3>2, <3>3, OthersKeep DEF PoolInv
  <2> QED BY <2>4, <2>5
<1> QED BY <1>4, <1>5, <1>6 DEF StmtStep

LEMMA PoolHandle ==
  ASSUME PoolInv, SafeUse, NEW t \in Handles, HandleCall(t) \/ HandleStep(t) \/ BackgroundStep(t)
  PROVE  PoolInv'
<1>0. /\ holder \in [Conns -> Holders] /\ mark \in [Conns -> Seq(MarkEntry)]
      /\ txs \in [Conns -> {"none", "open", "aborted"}] /\ pending \in [Conns -> SUBSET Work]
  BY DEF PoolInv, TypeOK, DbType, MarkEntry
<1>1. TypeOK' BY TypeHandle DEF PoolInv
<1>2. UNCHANGED <<opc, osave, scoped, via>>
  BY DEF HandleCall, HandleCommit, HandleRollback, HandleDrop, HandleTake, HandleCancel,
         HandleStep, TakeConn, Finish, ClearSession, DropClearNow, DropTryTake, BackgroundStep,
         BackgroundRollback, BackgroundClear, SharedTxnDrop, Discard, owner
<1>3. CASE UNCHANGED <<holder, db>>
  BY <1>1, <1>2, <1>3, OthersKeep DEF PoolInv, db
<1>4. ASSUME NEW c \in Conns, holder[c] \in {Slot(t), Taker(t)}, GiveBack(c),
             NEW a, EndTxn(c, a)
      PROVE  PoolInv'
  <2>1. /\ SameButFor(c)
        /\ txs'[c] = "none" /\ pending'[c] = {}
    BY <1>0, <1>4 DEF EndTxn, SameButFor
  <2>2. holder[c] # Owner /\ Pool # Owner /\ Pool \in Holders
    BY <1>4, HoldersDiffer, HolderNames
  <2> QED BY <1>1, <1>2, <1>4, <2>1, <2>2, OthersKeep DEF PoolInv, GiveBack
<1>5. CASE TakeConn(t)
  <2>1. ASSUME NEW c \in Conns, holder[c] = Slot(t), holder' = [holder EXCEPT ![c] = Taker(t)]
        PROVE  PoolInv'
    <3>1. UNCHANGED db BY <1>5 DEF TakeConn
    <3>2. /\ holder[c] # Owner /\ Taker(t) # Owner /\ Taker(t) \in Holders /\ Taker(t) # Pool
          /\ \A j \in Stmts : Taker(t) # User(j)
      BY <2>1, HoldersDiffer, HolderNames
    <3>3. Provider = "sqlite" => txs'[c] # "aborted"
      BY <3>1 DEF PoolInv, SqliteNeverAborts, db
    <3> QED BY <1>1, <1>2, <2>1, <3>1, <3>2, <3>3, OthersKeep DEF PoolInv, SameButFor, db
  <2> QED BY <1>3, <1>5, <2>1 DEF TakeConn
<1>6. CASE Finish(t)
  BY <1>4, <1>6 DEF Finish, CommitOk, CommitFails
<1>7. CASE HandleCancel(t)
  BY <1>3, <1>4, <1>7, ModeAssumption DEF HandleCancel, SafeUse, CommitOk
<1>8. CASE DropTryTake(t) \/ BackgroundRollback(t) \/ SharedTxnDrop(t)
  BY <1>3, <1>4, <1>8 DEF DropTryTake, BackgroundRollback, SharedTxnDrop, Discard
<1> QED BY <1>3, <1>5, <1>6, <1>7, <1>8
        DEF HandleCall, HandleCommit, HandleRollback, HandleDrop, HandleTake, HandleStep,
            ClearSession, DropClearNow, BackgroundStep, BackgroundClear

LEMMA PoolBegin ==
  ASSUME PoolInv, SafeUse, BeginLock \/ BeginStep \/ BeginCancel
  PROVE  PoolInv'
<1>0. /\ holder \in [Conns -> Holders] /\ osave \subseteq Saves
      /\ mark \in [Conns -> Seq(MarkEntry)]
      /\ txs \in [Conns -> {"none", "open", "aborted"}] /\ pending \in [Conns -> SUBSET Work]
  BY DEF PoolInv, TypeOK, DbType, OwnerType, MarkEntry
<1>1. TypeOK' BY TypeBegin DEF PoolInv
<1>2. UNCHANGED <<via, osave, scoped>>
  BY DEF BeginLock, BeginStep, BeginAcquire, BeginOk, BeginFails, BeginCancel
<1>3. opc' \in {"idle", "b_pool", "b_exec"}
  BY DEF BeginLock, BeginStep, BeginAcquire, BeginOk, BeginFails, BeginCancel
<1>4. OneSave' /\ RawNotPostgres' /\ UnjoinedUsesPool' /\ BeginIsManaged' /\ RawHasMark'
  BY <1>2, <1>3 DEF PoolInv, OneSave, RawNotPostgres, UnjoinedUsesPool, BeginIsManaged, RawHasMark
<1>5. CASE UNCHANGED <<holder, txs, pending, mark>> /\ (\A c \in Conns : holder[c] # Owner)
  BY <1>0, <1>1, <1>2, <1>4, <1>5 DEF PoolInv, PoolIsClean, OwnerHasOne, OwnerUses, OwnerIsClean,
         StmtIsClean, IsClean, SqliteNeverAborts
<1>6. CASE BeginLock
  BY <1>5, <1>6 DEF BeginLock, PoolInv, OwnerUses, OwnerHolds, db
<1>7. CASE BeginAcquire
  <2>1. \A c \in Conns : holder[c] # Owner
    BY <1>7 DEF BeginAcquire, PoolInv, OwnerUses, OwnerHolds
  <2>2. ASSUME NEW c \in Conns, holder[c] = Pool, holder' = [holder EXCEPT ![c] = Owner],
               opc' = "b_exec"
        PROVE  PoolInv'
    <3>1. UNCHANGED <<txs, pending>> BY <1>7 DEF BeginAcquire, db
    <3>2. IsClean(c) BY <2>2 DEF PoolInv, PoolIsClean, IsClean
    <3>3. PoolIsClean' BY <1>0, <2>2, <3>1, HoldersDiffer DEF PoolInv, PoolIsClean
    <3>4. OwnerHasOne' BY <1>0, <2>1, <2>2 DEF OwnerHasOne
    <3>5. osave = {} BY <1>7 DEF BeginAcquire, PoolInv, TypeOK, OwnerType
    <3>6. OwnerUses' BY <1>2, <2>2, <3>5 DEF OwnerUses, OwnerHolds
    <3>7. OwnerIsClean' BY <1>0, <2>1, <2>2, <3>1, <3>2 DEF OwnerIsClean, IsClean
    <3>8. StmtIsClean' BY <1>0, <2>2, <3>1, HoldersDiffer DEF PoolInv, StmtIsClean, IsClean
    <3>9. SqliteNeverAborts' BY <3>1 DEF PoolInv, SqliteNeverAborts
    <3> QED BY <1>1, <1>4, <3>3, <3>4, <3>6, <3>7, <3>8, <3>9 DEF PoolInv
  <2> QED BY <1>5, <1>7, <2>1, <2>2 DEF BeginAcquire, db
<1>8. ASSUME NEW c \in Conns, holder[c] = Owner,
             NEW h \in Holders, h # Owner, \A k \in Stmts : h # User(k),
             holder' = [holder EXCEPT ![c] = h],
             SameButFor(c),
             h = Pool => IsClean(c)',
             Provider = "sqlite" => txs'[c] # "aborted"
      PROVE  PoolInv'
  <2>1. PoolIsClean' BY <1>0, <1>8 DEF PoolInv, PoolIsClean, IsClean, SameButFor
  <2>2. \A d \in Conns : holder'[d] # Owner BY <1>0, <1>8 DEF PoolInv, OwnerHasOne
  <2>3. OwnerHasOne' /\ OwnerUses' /\ OwnerIsClean' BY <2>2 DEF OwnerHasOne, OwnerUses, OwnerIsClean
  <2>4. StmtIsClean' BY <1>0, <1>8 DEF PoolInv, StmtIsClean, IsClean, SameButFor
  <2>5. SqliteNeverAborts' BY <1>0, <1>8 DEF PoolInv, SqliteNeverAborts, SameButFor
  <2> QED BY <1>1, <1>4, <2>1, <2>3, <2>4, <2>5 DEF PoolInv
<1>9. ASSUME NEW t \in Handles, BeginOk(t) PROVE PoolInv'
  <2> PICK c \in Conns : holder[c] = Owner /\ OpenTxn(c) /\ holder' = [holder EXCEPT ![c] = Slot(t)]
    BY <1>9 DEF BeginOk
  <2>1. /\ SameButFor(c)
        /\ Provider = "sqlite" => txs'[c] # "aborted"
    BY <1>0 DEF OpenTxn, SameButFor
  <2>2. /\ Slot(t) \in Holders /\ Slot(t) # Owner /\ Slot(t) # Pool
        /\ \A k \in Stmts : Slot(t) # User(k)
    BY HoldersDiffer, HolderNames
  <2> QED BY <1>8, <2>1, <2>2
<1>10. CASE BeginFails
  <2> PICK c \in Conns :
        /\ holder[c] = Owner /\ GiveBack(c)
        /\ UNCHANGED db \/ EndTxn(c, FALSE)
    BY <1>10 DEF BeginFails, OpenFails, SafeUse
  <2>1. IsClean(c) BY <1>10 DEF BeginFails, PoolInv, OwnerIsClean
  <2>2. /\ IsClean(c)'
        /\ SameButFor(c)
    BY <1>0, <2>1 DEF EndTxn, IsClean, SameButFor, db
  <2>3. /\ Pool \in Holders /\ Pool # Owner /\ \A k \in Stmts : Pool # User(k)
    BY HoldersDiffer, HolderNames
  <2>4. txs'[c] # "aborted" BY <2>2 DEF IsClean
  <2> QED BY <1>8, <2>2, <2>3, <2>4 DEF GiveBack
<1>11. CASE BeginCancel BY <1>11 DEF BeginCancel, SafeUse
<1> QED BY <1>6, <1>7, <1>9, <1>10, <1>11 DEF BeginStep

(* A save works on one connection without giving it away.                   *)
LEMMA SaveInPlace ==
  ASSUME PoolInv, TypeOK', UNCHANGED <<holder, via, osave, scoped>>,
         opc \in OwnerHolds,
         opc' \in {"s_dml", "s_more", "s_end", "s_undo", "s_undone"},
         scoped => \A s \in osave : via[s] = NoHandle => Provider # "postgres",
         scoped /\ Provider = "mysql" => \A c \in Conns : holder[c] = Owner => IsClean(c)',
         scoped /\ Provider = "sqlite" =>
           \A c \in Conns, s \in osave : holder[c] = Owner => HasMark(c, s)',
         \/ UNCHANGED <<txs, pending>>
         \/ \E c \in Conns :
              /\ holder[c] \in {Owner} \cup {Slot(t) : t \in Handles}
              /\ SameButFor(c)
              /\ Provider = "sqlite" => txs'[c] # "aborted"
  PROVE  PoolInv'
<1> USE DEF SameButFor
<1>1. PoolIsClean' BY HoldersDiffer DEF PoolInv, PoolIsClean
<1>2. OneSave' /\ OwnerHasOne' BY DEF PoolInv, OneSave, OwnerHasOne
<1>3. OwnerUses' /\ OwnerIsClean' BY DEF PoolInv, OwnerUses, OwnerIsClean, OwnerHolds
<1>4. StmtIsClean' BY HoldersDiffer DEF PoolInv, StmtIsClean, IsClean
<1>5. RawNotPostgres' /\ UnjoinedUsesPool' /\ BeginIsManaged' /\ RawHasMark'
  BY DEF RawNotPostgres, UnjoinedUsesPool, BeginIsManaged, RawHasMark
<1>6. SqliteNeverAborts' BY DEF PoolInv, SqliteNeverAborts
<1> QED BY <1>1, <1>2, <1>3, <1>4, <1>5, <1>6 DEF PoolInv

(* A save ends and gives its own connection back clean.                     *)
LEMMA SaveGivesBack ==
  ASSUME PoolInv, TypeOK', opc' = "idle", osave' = {}, UNCHANGED via,
         NEW c \in Conns, holder[c] = Owner, GiveBack(c),
         SameButFor(c),
         txs'[c] = "none" /\ pending'[c] = {}
  PROVE  PoolInv'
<1> USE DEF SameButFor
<1>0. holder \in [Conns -> Holders] BY DEF PoolInv, TypeOK
<1>1. PoolIsClean' BY <1>0 DEF PoolInv, PoolIsClean, GiveBack
<1>2. \A d \in Conns : holder'[d] # Owner
  BY <1>0, HoldersDiffer DEF PoolInv, OwnerHasOne, GiveBack
<1>3. OneSave' /\ OwnerHasOne' /\ OwnerUses' /\ OwnerIsClean'
  BY <1>2 DEF OneSave, OwnerHasOne, OwnerUses, OwnerIsClean
<1>4. StmtIsClean' BY <1>0, HoldersDiffer DEF PoolInv, StmtIsClean, IsClean, GiveBack
<1>5. RawNotPostgres' /\ UnjoinedUsesPool' /\ BeginIsManaged' /\ RawHasMark'
  BY DEF RawNotPostgres, UnjoinedUsesPool, BeginIsManaged, RawHasMark
<1>6. SqliteNeverAborts' BY DEF PoolInv, SqliteNeverAborts
<1> QED BY <1>1, <1>3, <1>4, <1>5, <1>6 DEF PoolInv

(* A save that holds no connection of its own ends.                         *)
LEMMA SaveLeaves ==
  ASSUME PoolInv, TypeOK', opc' = "idle", osave' = {}, UNCHANGED <<holder, via>>,
         \A c \in Conns : holder[c] # Owner,
         \/ UNCHANGED <<txs, pending>>
         \/ \E c \in Conns, t \in Handles :
              /\ holder[c] = Slot(t)
              /\ SameButFor(c)
              /\ Provider = "sqlite" => txs'[c] # "aborted"
  PROVE  PoolInv'
<1> USE DEF SameButFor
<1>1. PoolIsClean' BY HoldersDiffer DEF PoolInv, PoolIsClean
<1>2. OneSave' /\ OwnerHasOne' /\ OwnerUses' /\ OwnerIsClean'
  BY DEF OneSave, OwnerHasOne, OwnerUses, OwnerIsClean
<1>3. StmtIsClean' BY HoldersDiffer DEF PoolInv, StmtIsClean, IsClean
<1>4. RawNotPostgres' /\ UnjoinedUsesPool' /\ BeginIsManaged' /\ RawHasMark'
  BY DEF RawNotPostgres, UnjoinedUsesPool, BeginIsManaged, RawHasMark
<1>5. SqliteNeverAborts' BY DEF PoolInv, SqliteNeverAborts
<1> QED BY <1>1, <1>2, <1>3, <1>4, <1>5 DEF PoolInv

(* Before it has a connection.                                              *)
LEMMA PoolSaveStart ==
  ASSUME PoolInv, NEW s \in Saves, SaveStart(s) \/ SaveRoute(s) \/ SaveAcquire(s)
  PROVE  PoolInv'
<1>0. /\ holder \in [Conns -> Holders] /\ osave \subseteq Saves
      /\ via \in [Work -> Handles \cup {NoHandle}] /\ s \in Work
  BY DEF PoolInv, TypeOK, OwnerType, WorkType, Work
<1>1. TypeOK' BY TypeSave DEF PoolInv, SaveStep
<1>2. UNCHANGED <<txs, pending, mark>> BY DEF SaveStart, SaveRoute, SaveAcquire, db
<1>3. SqliteNeverAborts' BY <1>2 DEF PoolInv, SqliteNeverAborts
<1>4. \A c \in Conns : holder[c] # Owner
  BY DEF SaveStart, SaveRoute, SaveAcquire, PoolInv, OwnerUses, OwnerHolds
<1>5. CASE SaveStart(s) \/ SaveRoute(s)
  <2>1. UNCHANGED holder /\ opc' \in {"s_route", "s_pool", "s_point"}
    BY <1>5 DEF SaveStart, SaveRoute
  <2>2. OneSave' BY <1>5 DEF PoolInv, OneSave, SaveStart, SaveRoute
  <2>3. PoolIsClean' /\ StmtIsClean'
    BY <1>2, <2>1 DEF PoolInv, PoolIsClean, StmtIsClean, IsClean
  <2>4. OwnerHasOne' /\ OwnerUses' /\ OwnerIsClean'
    BY <1>4, <2>1 DEF OwnerHasOne, OwnerUses, OwnerIsClean
  <2>5. RawNotPostgres' /\ BeginIsManaged' /\ RawHasMark'
    BY <2>1 DEF RawNotPostgres, BeginIsManaged, RawHasMark
  <2>6. UnjoinedUsesPool'
    BY <1>0, <1>5 DEF PoolInv, OneSave, UnjoinedUsesPool, SaveStart, SaveRoute
  <2> QED BY <1>1, <1>3, <2>2, <2>3, <2>4, <2>5, <2>6 DEF PoolInv
<1>6. CASE SaveAcquire(s)
  <2>1. CASE UNCHANGED holder /\ SaveEnds(s, "err")
    BY <1>1, <1>2, <1>4, <1>6, <2>1, SaveLeaves DEF SaveAcquire, SaveEnds
  <2>2. ASSUME NEW c \in Conns, holder[c] = Pool, holder' = [holder EXCEPT ![c] = Owner],
               opc' = IF scoped THEN "s_point" ELSE "s_begin", UNCHANGED <<osave, scoped>>
        PROVE  PoolInv'
    <3>0. UNCHANGED via BY <1>6 DEF SaveAcquire
    <3>1. IsClean(c) BY <2>2 DEF PoolInv, PoolIsClean, IsClean
    <3>2. PoolIsClean' BY <1>0, <1>2, <2>2, HoldersDiffer DEF PoolInv, PoolIsClean
    <3>3. OneSave' BY <2>2 DEF PoolInv, OneSave
    <3>4. OwnerHasOne' BY <1>0, <1>4, <2>2 DEF OwnerHasOne
    <3>5. OwnerUses'
      BY <1>6, <2>2, <3>0 DEF OwnerUses, OwnerHolds, PoolInv, UnjoinedUsesPool, SaveAcquire
    <3>6. OwnerIsClean' BY <1>0, <1>2, <1>4, <2>2, <3>1 DEF OwnerIsClean, IsClean
    <3>7. StmtIsClean' BY <1>0, <1>2, <2>2, HoldersDiffer DEF PoolInv, StmtIsClean, IsClean
    <3>8. RawNotPostgres' /\ UnjoinedUsesPool' /\ BeginIsManaged' /\ RawHasMark'
      BY <2>2 DEF RawNotPostgres, UnjoinedUsesPool, BeginIsManaged, RawHasMark
    <3> QED BY <1>1, <1>3, <3>2, <3>3, <3>4, <3>5, <3>6, <3>7, <3>8 DEF PoolInv
  <2> QED BY <1>6, <2>1, <2>2 DEF SaveAcquire
<1> QED BY <1>5, <1>6

(* What an operation on one connection does to it, and to the others.       *)
LEMMA OneConnection ==
  ASSUME PoolInv, NEW c \in Conns,
         \/ (\E w \in Work : RunOk(c, w)) \/ RunFails(c) \/ CommitOk(c) \/ CommitFails(c)
         \/ OpenTxn(c) \/ UNCHANGED db
         \/ \E n : \/ SetMark(c, n) \/ RollbackToMark(c, n) \/ ReleaseMark(c, n)
                  \/ \E f : PointFails(c, n, f)
  PROVE  /\ SameButFor(c)
         /\ Provider = "sqlite" => txs'[c] # "aborted"
<1> USE DEF SameButFor
<1>0. /\ txs \in [Conns -> {"none", "open", "aborted"}] /\ pending \in [Conns -> SUBSET Work]
      /\ mark \in [Conns -> Seq(MarkEntry)]
  BY DEF PoolInv, TypeOK, DbType, MarkEntry
<1>1. Provider = "sqlite" => txs[c] # "aborted" BY DEF PoolInv, SqliteNeverAborts
<1>2. ASSUME NEW w, RunOk(c, w)
      PROVE  SameButFor(c) /\ (Provider = "sqlite" => txs'[c] # "aborted")
  BY <1>0, <1>1, <1>2 DEF RunOk
<1>3. CASE RunFails(c) \/ OpenTxn(c) \/ UNCHANGED db
  BY <1>0, <1>1, <1>3 DEF RunFails, EndTxn, OpenTxn, AbortsOnError, db
<1>4. ASSUME NEW a, EndTxn(c, a)
      PROVE  SameButFor(c) /\ (Provider = "sqlite" => txs'[c] # "aborted")
  BY <1>0, <1>4 DEF EndTxn
<1>5. CASE CommitOk(c) \/ CommitFails(c) BY <1>4, <1>5 DEF CommitOk, CommitFails
<1>6. ASSUME NEW n, SetMark(c, n)
      PROVE  SameButFor(c) /\ (Provider = "sqlite" => txs'[c] # "aborted")
  BY <1>0, <1>1, <1>6 DEF SetMark, AddMark, db
<1>7. ASSUME NEW n, RollbackToMark(c, n)
      PROVE  SameButFor(c) /\ (Provider = "sqlite" => txs'[c] # "aborted")
  BY <1>0, <1>7 DEF RollbackToMark
<1>8. ASSUME NEW n, ReleaseMark(c, n)
      PROVE  SameButFor(c) /\ (Provider = "sqlite" => txs'[c] # "aborted")
  <2>1. CASE EndTxn(c, TRUE) BY <1>4, <2>1
  <2>2. ASSUME NEW i, mark' = [mark EXCEPT ![c] = SubSeq(@, 1, i - 1)], UNCHANGED <<txs, pending>>
        PROVE  SameButFor(c) /\ (Provider = "sqlite" => txs'[c] # "aborted")
    BY <1>0, <1>1, <2>2
  <2> QED BY <1>8, <2>1, <2>2 DEF ReleaseMark
<1>9. ASSUME NEW n, NEW f, PointFails(c, n, f)
      PROVE  SameButFor(c) /\ (Provider = "sqlite" => txs'[c] # "aborted")
  BY <1>0, <1>1, <1>9 DEF PointFails, AbortsOnError
<1> QED BY <1>2, <1>3, <1>5, <1>6, <1>7, <1>8, <1>9

LEMMA EndIsClean ==
  ASSUME PoolInv, NEW c \in Conns, NEW a, EndTxn(c, a)
  PROVE  /\ SameButFor(c)
         /\ txs'[c] = "none" /\ pending'[c] = {}
  BY DEF PoolInv, TypeOK, DbType, EndTxn, SameButFor

(* On MySQL a save that joined no slot runs outside a transaction: nothing  *)
(* it does leaves the connection of the owner inside one.                   *)
LEMMA RawStaysClean ==
  ASSUME PoolInv, scoped, Provider = "mysql", NEW s \in osave, s \in Work,
         NEW c \in Conns, SaveConn(s, c),
         \/ SetMark(c, s) \/ RunOk(c, s) \/ RunFails(c) \/ RollbackToMark(c, s) \/ ReleaseMark(c, s)
         \/ (\E f : PointFails(c, s, f)) \/ UNCHANGED db
  PROVE  \A d \in Conns : holder[d] = Owner => IsClean(d)'
<1> SUFFICES ASSUME NEW d \in Conns, holder[d] = Owner PROVE IsClean(d)' OBVIOUS
<1>1. via[s] = NoHandle BY DEF PoolInv, OwnerUses
<1>2. holder[c] = Owner /\ d = c BY <1>1 DEF SaveConn, PoolInv, OwnerHasOne
<1>3. txs[c] = "none" /\ pending[c] = {} BY <1>2 DEF PoolInv, OwnerIsClean, IsClean
<1>4. mark[c] = <<>> BY <1>3 DEF PoolInv, TypeOK, DbType
<1>5. ~RollbackToMark(c, s) /\ ~ReleaseMark(c, s)
  BY <1>3, <1>4 DEF RollbackToMark, ReleaseMark
<1>6. txs'[c] = "none" /\ pending'[c] = {}
  BY <1>3, <1>5 DEF SetMark, RunOk, RunFails, EndTxn, PointFails, AbortsOnError, PoolInv,
     TypeOK, DbType, db
<1> QED BY <1>2, <1>6 DEF IsClean

(* On SQLite it runs in the transaction its own SAVEPOINT opened, and the   *)
(* savepoint stays until the RELEASE.                                       *)
LEMMA RawKeepsMark ==
  ASSUME PoolInv, scoped, Provider = "sqlite", NEW s \in osave, NEW c \in Conns, SaveConn(s, c),
         \/ SetMark(c, s) \/ RollbackToMark(c, s)
         \/ /\ opc \in {"s_dml", "s_more", "s_end", "s_undo", "s_undone"}
            /\ RunOk(c, s) \/ RunFails(c) \/ (\E f : PointFails(c, s, f)) \/ UNCHANGED db
  PROVE  \A d \in Conns, r \in osave : holder[d] = Owner => HasMark(d, r)'
<1> SUFFICES ASSUME NEW d \in Conns, NEW r \in osave, holder[d] = Owner PROVE HasMark(d, r)'
  OBVIOUS
<1>0. mark \in [Conns -> Seq(MarkEntry)] /\ mark[c] \in Seq(MarkEntry)
  BY DEF PoolInv, TypeOK, DbType, MarkEntry
<1>1. via[s] = NoHandle BY DEF PoolInv, OwnerUses
<1>2. d = c /\ r = s BY <1>1 DEF SaveConn, PoolInv, OwnerHasOne, OneSave
<1>3. Len(mark[c]) \in Nat /\ DOMAIN mark[c] = 1 .. Len(mark[c]) BY <1>0, LenProperties
<1>4. CASE SetMark(c, s)
  <2> DEFINE e == [name |-> s, work |-> pending[c]]
  <2>1. mark'[c] = Append(mark[c], e) BY <1>0, <1>4 DEF SetMark, AddMark
  <2>2. Len(mark[c]) + 1 \in DOMAIN mark'[c] /\ mark'[c][Len(mark[c]) + 1] = e
    BY <1>0, <1>3, <2>1
  <2> QED BY <1>2, <2>2 DEF HasMark
<1>5. CASE RollbackToMark(c, s)
  <2> PICK i \in DOMAIN mark[c] : Newest(mark[c], s, i) /\ mark' = [mark EXCEPT ![c] = SubSeq(@, 1, i)]
    BY <1>5 DEF RollbackToMark
  <2>1. mark'[c] = SubSeq(mark[c], 1, i) BY <1>0
  <2>2. i \in DOMAIN mark'[c] /\ mark'[c][i] = mark[c][i] BY <1>0, <1>3, <2>1
  <2> QED BY <1>2, <2>2 DEF HasMark, Newest
<1>6. CASE /\ opc \in {"s_dml", "s_more", "s_end", "s_undo", "s_undone"}
           /\ RunOk(c, s) \/ RunFails(c) \/ (\E f : PointFails(c, s, f)) \/ UNCHANGED db
  <2>1. HasMark(c, s) BY <1>2, <1>6 DEF PoolInv, RawHasMark
  <2>2. mark' = mark BY <1>6 DEF RunOk, RunFails, PointFails, db
  <2> QED BY <1>2, <2>1, <2>2 DEF HasMark
<1> QED BY <1>4, <1>5, <1>6

LEMMA PoolSaveRuns ==
  ASSUME PoolInv, SafeUse, NEW s \in Saves,
         SaveBegin(s) \/ SavePoint(s) \/ SaveDml(s) \/ SaveRollbackTo(s)
  PROVE  PoolInv'
<1>0. /\ s \in Work /\ via \in [Work -> Handles \cup {NoHandle}]
      /\ s \in osave /\ \A r \in osave : r = s
  BY DEF Work, PoolInv, TypeOK, WorkType, OneSave, SaveBegin, SavePoint, SaveDml, SaveRollbackTo
<1>1. TypeOK' BY TypeSave DEF PoolInv, SaveStep
<1>2. UNCHANGED via /\ opc \in OwnerHolds
  BY DEF SaveBegin, SavePoint, SaveDml, SaveRollbackTo, OwnerHolds
<1>3. ASSUME NEW c \in Conns, SaveConn(s, c)
      PROVE  holder[c] \in {Owner} \cup {Slot(t) : t \in Handles}
  BY <1>0, <1>3 DEF SaveConn
<1>7. ASSUME NEW c \in Conns, SaveConn(s, c), scoped, Provider = "mysql",
             \/ SetMark(c, s) \/ RunOk(c, s) \/ RunFails(c) \/ RollbackToMark(c, s)
             \/ PointFails(c, s, "rollback_to")
      PROVE  \A d \in Conns : holder[d] = Owner => IsClean(d)'
  BY <1>0, <1>7, RawStaysClean
<1>8. ASSUME NEW c \in Conns, SaveConn(s, c), scoped, Provider = "sqlite",
             \/ SetMark(c, s) \/ RollbackToMark(c, s)
             \/ /\ opc \in {"s_dml", "s_more", "s_end", "s_undo", "s_undone"}
                /\ RunOk(c, s) \/ RunFails(c) \/ PointFails(c, s, "rollback_to")
      PROVE  \A d \in Conns, r \in osave : holder[d] = Owner => HasMark(d, r)'
  BY <1>0, <1>8, RawKeepsMark
<1>4. CASE SaveBegin(s)
  <2> PICK c \in Conns :
        /\ holder[c] = Owner
        /\ \/ OpenTxn(c) /\ opc' = "s_dml" /\ UNCHANGED <<holder, osave, scoped>>
           \/ OpenFails(c) /\ GiveBack(c) /\ SaveEnds(s, "err")
    BY <1>4 DEF SaveBegin
  <2>1. CASE OpenTxn(c) /\ opc' = "s_dml" /\ UNCHANGED <<holder, osave, scoped>>
    <3>1. ~scoped BY <1>4 DEF SaveBegin, PoolInv, BeginIsManaged
    <3> QED BY <1>0, <1>1, <1>2, <2>1, <3>1, OneConnection, SaveInPlace
  <2>2. CASE OpenFails(c) /\ GiveBack(c) /\ SaveEnds(s, "err")
    <3>1. IsClean(c) BY <1>4 DEF SaveBegin, PoolInv, OwnerIsClean
    <3> QED BY <1>1, <1>2, <2>2, <3>1, SaveGivesBack DEF OpenFails, SaveEnds, IsClean, SameButFor, db
  <2> QED BY <2>1, <2>2
<1>5. CASE SavePoint(s)
  <2>1. ASSUME NEW c \in Conns, SaveConn(s, c), SetMark(c, s), opc' = "s_dml",
               UNCHANGED <<holder, osave, scoped>>
        PROVE  PoolInv'
    <3>1. via[s] = NoHandle => Provider # "postgres"
      BY <1>5, <2>1 DEF SaveConn, SetMark, SavePoint, PoolInv, OwnerIsClean, IsClean
    <3>2. scoped /\ Provider = "mysql" => \A d \in Conns : holder[d] = Owner => IsClean(d)'
      BY <1>7, <2>1
    <3>3. scoped /\ Provider = "sqlite" =>
            \A d \in Conns, r \in osave : holder[d] = Owner => HasMark(d, r)'
      BY <1>8, <2>1
    <3>4. /\ SameButFor(c) /\ (Provider = "sqlite" => txs'[c] # "aborted")
          /\ holder[c] \in {Owner} \cup {Slot(t) : t \in Handles}
      BY <1>3, <2>1, OneConnection
    <3> QED BY <1>0, <1>1, <1>2, <2>1, <3>1, <3>2, <3>3, <3>4, SaveInPlace
  <2>2. ASSUME NEW c \in Conns, SaveConn(s, c), SaveEnds(s, "err"),
               PointFails(c, s, "savepoint") \/ UNCHANGED db,
               IF via[s] = NoHandle THEN GiveBack(c) ELSE UNCHANGED holder
        PROVE  PoolInv'
    <3>1. CASE via[s] = NoHandle
      <4>1. holder[c] = Owner /\ IsClean(c)
        BY <1>5, <2>2, <3>1 DEF SaveConn, SavePoint, PoolInv, OwnerIsClean
      <4>2. /\ SameButFor(c)
            /\ txs'[c] = "none" /\ pending'[c] = {}
        BY <2>2, <4>1 DEF IsClean, PointFails, AbortsOnError, PoolInv, TypeOK, DbType, SameButFor, db
      <4> QED BY <1>1, <1>2, <2>2, <3>1, <4>1, <4>2, SaveGivesBack DEF SaveEnds
    <3>2. CASE via[s] # NoHandle
      <4>1. \A d \in Conns : holder[d] # Owner
        BY <1>5, <3>2 DEF SavePoint, PoolInv, OwnerUses
      <4>2. via[s] \in Handles /\ holder[c] = Slot(via[s])
        BY <1>0, <2>2, <3>2 DEF SaveConn
      <4> QED BY <1>0, <1>1, <1>2, <2>2, <3>2, <4>1, <4>2, OneConnection, SaveLeaves DEF SaveEnds
    <3> QED BY <3>1, <3>2
  <2>3. CASE SaveConsumed(s) /\ SaveEnds(s, "err") /\ UNCHANGED <<holder, db>>
    <3>1. \A d \in Conns : holder[d] # Owner
      BY <1>5, <2>3 DEF SavePoint, SaveConsumed, PoolInv, OwnerUses
    <3> QED BY <1>1, <1>2, <2>3, <3>1, SaveLeaves DEF SaveEnds, db
  <2> QED BY <1>5, <2>1, <2>2, <2>3 DEF SavePoint
<1>6. CASE SaveDml(s) \/ SaveRollbackTo(s)
  <2>1. /\ UNCHANGED <<holder, osave, scoped>>
        /\ opc' \in {"s_dml", "s_more", "s_end", "s_undo", "s_undone"}
    BY <1>6 DEF SaveDml, SaveRollbackTo
  <2>2. scoped => \A r \in osave : via[r] = NoHandle => Provider # "postgres"
    BY <1>6 DEF SaveDml, SaveRollbackTo, PoolInv, RawNotPostgres
  <2>5. opc \in {"s_dml", "s_more", "s_undo"} BY <1>6 DEF SaveDml, SaveRollbackTo
  <2>3. ASSUME NEW c \in Conns, SaveConn(s, c),
               RunOk(c, s) \/ RunFails(c) \/ RollbackToMark(c, s) \/ PointFails(c, s, "rollback_to")
        PROVE  PoolInv'
    <3>1. scoped /\ Provider = "mysql" => \A d \in Conns : holder[d] = Owner => IsClean(d)'
      BY <1>7, <2>3
    <3>2. scoped /\ Provider = "sqlite" =>
            \A d \in Conns, r \in osave : holder[d] = Owner => HasMark(d, r)'
      BY <1>8, <2>3, <2>5
    <3>3. /\ SameButFor(c) /\ (Provider = "sqlite" => txs'[c] # "aborted")
          /\ holder[c] \in {Owner} \cup {Slot(t) : t \in Handles}
      BY <1>0, <1>3, <2>3, OneConnection
    <3> QED BY <1>0, <1>1, <1>2, <2>1, <2>2, <3>1, <3>2, <3>3, SaveInPlace
  <2>4. CASE UNCHANGED db
    <3>1. scoped /\ Provider = "mysql" => \A d \in Conns : holder[d] = Owner => IsClean(d)'
      BY <2>4 DEF db, PoolInv, OwnerIsClean, IsClean
    <3>2. scoped /\ Provider = "sqlite" =>
            \A d \in Conns, r \in osave : holder[d] = Owner => HasMark(d, r)'
      BY <2>4, <2>5 DEF db, PoolInv, RawHasMark, HasMark
    <3> QED BY <1>1, <1>2, <2>1, <2>2, <2>4, <3>1, <3>2, SaveInPlace DEF db
  <2> QED BY <1>6, <2>3, <2>4 DEF SaveDml, SaveRollbackTo
<1> QED BY <1>4, <1>5, <1>6

LEMMA PoolSaveEnds ==
  ASSUME PoolInv, SafeUse, NEW s \in Saves,
         SaveManagedEnd(s) \/ SaveRelease(s) \/ SaveCancel(s)
  PROVE  PoolInv'
<1>0. s \in osave /\ s \in Work /\ via \in [Work -> Handles \cup {NoHandle}]
  BY DEF Work, PoolInv, TypeOK, WorkType, SaveManagedEnd, SaveRelease, SaveCancel
<1>1. TypeOK' BY TypeSave DEF PoolInv, SaveStep
<1>2. UNCHANGED via /\ opc' = "idle" /\ osave' = {}
  BY DEF SaveManagedEnd, SaveRelease, SaveCancel, SaveEnds
<1>3. via[s] # NoHandle => \A d \in Conns : holder[d] # Owner
  BY <1>0 DEF PoolInv, OwnerUses
<1>4. ASSUME NEW c \in Conns, holder[c] = Owner, GiveBack(c), NEW a, EndTxn(c, a)
      PROVE  PoolInv'
  BY <1>1, <1>2, <1>4, EndIsClean, SaveGivesBack
<1>5. CASE UNCHANGED <<holder, db>> /\ \A d \in Conns : holder[d] # Owner
  BY <1>1, <1>2, <1>5, SaveLeaves DEF db
<1>6. CASE SaveManagedEnd(s)
  BY <1>4, <1>6 DEF SaveManagedEnd, CommitOk, CommitFails
<1>7. CASE SaveRelease(s)
  <2>1. CASE SaveConsumed(s) /\ UNCHANGED <<holder, db>>
    BY <1>3, <1>5, <2>1 DEF SaveConsumed
  <2>2. ASSUME NEW c \in Conns, SaveConn(s, c), ReleaseMark(c, s) \/ PointFails(c, s, "release"),
               IF via[s] = NoHandle THEN GiveBack(c) ELSE UNCHANGED holder
        PROVE  PoolInv'
    <3>1. CASE via[s] = NoHandle
      <4>1. holder[c] = Owner BY <2>2, <3>1 DEF SaveConn
      <4>2. Provider \in {"sqlite", "mysql"} /\ scoped
        BY <1>0, <1>7, <3>1, ModeAssumption DEF SaveRelease, PoolInv, RawNotPostgres
      <4>3. CASE Provider = "sqlite"
        <5>1. HasMark(c, s) BY <1>0, <1>7, <4>1, <4>2, <4>3 DEF SaveRelease, PoolInv, RawHasMark
        <5>3. ~PointFails(c, s, "release")
          BY <4>3, <5>1 DEF PointFails, SafeUse, PoolInv, SqliteNeverAborts
        <5>2. EndTxn(c, TRUE) BY <2>2, <4>1, <5>3 DEF ReleaseMark
        <5> QED BY <1>4, <2>2, <3>1, <4>1, <5>2
      <4>4. CASE Provider = "mysql"
        <5>1. IsClean(c)' BY <1>0, <2>2, <4>1, <4>2, <4>4, RawStaysClean
        <5>2. SameButFor(c)
          BY <1>0, <2>2, OneConnection
        <5> QED BY <1>1, <1>2, <2>2, <3>1, <4>1, <5>1, <5>2, SaveGivesBack DEF IsClean
      <4> QED BY <4>2, <4>3, <4>4
    <3>2. CASE via[s] # NoHandle
      <4>1. via[s] \in Handles /\ holder[c] = Slot(via[s]) BY <1>0, <2>2, <3>2 DEF SaveConn
      <4> QED BY <1>0, <1>1, <1>2, <1>3, <2>2, <3>2, <4>1, OneConnection, SaveLeaves
    <3> QED BY <3>1, <3>2
  <2> QED BY <1>7, <2>1, <2>2 DEF SaveRelease
<1>8. CASE SaveCancel(s)
  <2>1. Provider # "sqlite" /\ opc # "s_begin" /\ opc \notin {"idle", "b_pool", "b_exec"}
    BY <1>0, <1>8, ModeAssumption DEF SaveCancel, SafeUse, PoolInv, TypeOK, OwnerType
  <2>2. CASE (opc \in {"s_route", "s_pool"} \/ ~SaveSlotFree(s) \/ SaveConsumed(s))
             /\ UNCHANGED <<holder, db>>
    BY <1>3, <1>5, <2>2 DEF SaveSlotFree, SaveConsumed, PoolInv, OwnerUses, OwnerHolds
  <2>3. ASSUME opc \notin {"s_route", "s_pool"},
               NEW c \in Conns, SaveConn(s, c),
               \/ ~scoped /\ \E a \in BOOLEAN : EndTxn(c, a)
               \/ scoped /\ InFlight(s, c),
               IF via[s] # NoHandle THEN UNCHANGED holder ELSE GiveBack(c)
        PROVE  PoolInv'
    <3>1. CASE via[s] = NoHandle
      <4>1. holder[c] = Owner BY <2>3, <3>1 DEF SaveConn
      <4>2. CASE scoped
        <5>1. CASE Provider = "postgres"
          <6>1. opc = "s_point"
            BY <1>0, <2>1, <2>3, <3>1, <4>2, <5>1 DEF PoolInv, RawNotPostgres, TypeOK, OwnerType
          <6>2. IsClean(c) BY <4>1, <6>1 DEF PoolInv, OwnerIsClean
          <6>3. UNCHANGED db BY <2>3, <4>2, <5>1, <6>1, <6>2 DEF InFlight, SetMark, IsClean
          <6> QED BY <1>1, <1>2, <2>3, <3>1, <4>1, <6>2, <6>3, SaveGivesBack DEF IsClean, SameButFor, db
        <5>2. CASE Provider = "mysql"
          <6>1. SetMark(c, s) \/ RunOk(c, s) \/ RollbackToMark(c, s) \/ ReleaseMark(c, s) \/ UNCHANGED db
            BY <2>1, <2>3, <4>2 DEF InFlight
          <6>2. IsClean(c)' BY <1>0, <2>3, <4>1, <4>2, <5>2, <6>1, RawStaysClean
          <6>3. SameButFor(c)
            BY <1>0, <6>1, OneConnection
          <6> QED BY <1>1, <1>2, <2>3, <3>1, <4>1, <6>2, <6>3, SaveGivesBack DEF IsClean
        <5> QED BY <2>1, <5>1, <5>2, ModeAssumption
      <4>3. CASE ~scoped BY <1>4, <2>3, <3>1, <4>1, <4>3
      <4> QED BY <4>2, <4>3
    <3>2. CASE via[s] # NoHandle
      <4>1. via[s] \in Handles /\ holder[c] = Slot(via[s]) BY <1>0, <2>3, <3>2 DEF SaveConn
      <4>2. /\ SameButFor(c)
            /\ Provider = "sqlite" => txs'[c] # "aborted"
        BY <1>0, <2>1, <2>3, OneConnection, EndIsClean DEF InFlight
      <4> QED BY <1>1, <1>2, <1>3, <2>3, <3>2, <4>1, <4>2, SaveLeaves
    <3> QED BY <3>1, <3>2
  <2> QED BY <1>8, <2>1, <2>2, <2>3 DEF SaveCancel
<1> QED BY <1>6, <1>7, <1>8

(* A savepoint call works on the connection in the slot of its handle.      *)
LEMMA PoolPoint ==
  ASSUME PoolInv, NEW t \in Handles, PointStep(t)
  PROVE  PoolInv'
<1>0. /\ holder \in [Conns -> Holders] /\ mark \in [Conns -> Seq(MarkEntry)]
      /\ txs \in [Conns -> {"none", "open", "aborted"}]
  BY DEF PoolInv, TypeOK, DbType, MarkEntry
<1>1. TypeOK' BY TypePoint DEF PoolInv
<1>2. UNCHANGED <<holder, opc, osave, scoped, via>>
  BY DEF PointStep, SetIsolation, CreatePoint, RollbackPoint, ReleasePoint, owner
<1>3. PICK c \in Conns :
        holder[c] = Slot(t) /\ SameButFor(c) /\ (Provider = "sqlite" => txs'[c] # "aborted")
  <2>1. ASSUME NEW n \in Points, CreatePoint(t, n) \/ RollbackPoint(t, n) \/ ReleasePoint(t, n)
        PROVE  \E c \in Conns : /\ holder[c] = Slot(t) /\ SameButFor(c)
                                /\ Provider = "sqlite" => txs'[c] # "aborted"
    BY <2>1, OneConnection DEF CreatePoint, RollbackPoint, ReleasePoint
  <2>2. CASE SetIsolation(t)
    BY <1>0, <2>2 DEF SetIsolation, AbortsOnError, SameButFor, PoolInv, SqliteNeverAborts
  <2> QED BY <2>1, <2>2 DEF PointStep
<1>4. \E h \in Holders : /\ h # Owner /\ h # Pool /\ \A k \in Stmts : h # User(k)
                         /\ holder[c] = h /\ holder' = [holder EXCEPT ![c] = h]
  BY <1>0, <1>2, <1>3, HoldersDiffer, HolderNames
<1> QED BY <1>1, <1>2, <1>3, <1>4, OthersKeep DEF PoolInv

(* Under SafeUse the invariant is kept by every step.                       *)
LEMMA PoolNext == SafeUse /\ PoolInv /\ [Next]_vars => PoolInv'
<1> SUFFICES ASSUME SafeUse, PoolInv, [Next]_vars PROVE PoolInv' OBVIOUS
<1>1. CASE Next
  BY <1>1, PoolStmt, PoolBegin, PoolSaveStart, PoolSaveRuns, PoolSaveEnds, PoolHandle, PoolPoint
     DEF Next, CallerStep, SaveStep, HandleCall, PointStep
<1>2. CASE UNCHANGED vars
  <2>1. TypeOK'
    BY <1>2 DEF vars, owner, handle, db, PoolInv, TypeOK, DbType, OwnerType, HandleType, WorkType
  <2>2. RawHasMark' BY <1>2 DEF vars, owner, db, PoolInv, RawHasMark, HasMark
  <2> QED BY <1>2, <2>1, <2>2 DEF vars, owner, handle, db, PoolInv, PoolIsClean, OneSave,
     OwnerHasOne, OwnerUses, OwnerIsClean, IsClean, StmtIsClean, RawNotPostgres,
     SqliteNeverAborts, UnjoinedUsesPool, BeginIsManaged
<1> QED BY <1>1, <1>2

(* No connection is in the pool with an open transaction, for every number  *)
(* of connections, tasks and handles, whatever else fails or is dropped.    *)
THEOREM PoolStaysClean == SafeUse => (Spec => []PoolIsClean)
<1> SUFFICES ASSUME SafeUse PROVE Spec => []PoolIsClean OBVIOUS
<1>1. PoolInv /\ [Next]_vars => PoolInv' BY PoolNext
<1>2. PoolInv => PoolIsClean BY DEF PoolInv
<1> QED BY PoolInit, <1>1, <1>2, PTL DEF Spec

-----------------------------------------------------------------------------
(* When every future is awaited before the next call, an unconsumed handle  *)
(* owns the session.  At most one call is in progress, so a handle that is  *)
(* being consumed is the only one there is, no statement is running when it *)
(* is dropped (no background task is ever spawned), and begin_with, which   *)
(* holds the lock, found the slot empty.                                    *)
StmtAtRest(k) == tpc[k] \in {"idle", "done"}
HandleAtRest(t) == hpc[t] \in {"none", "live", "done"}

NoBackground == \A t \in Handles : bg[t] = "none"
StmtAlone == \A k \in Stmts : ~StmtAtRest(k) =>
  /\ opc = "idle" /\ \A t \in Handles : HandleAtRest(t)
  /\ \A j \in Stmts : j # k => StmtAtRest(j)
OwnerAlone == opc # "idle" =>
  (\A k \in Stmts : StmtAtRest(k)) /\ (\A t \in Handles : HandleAtRest(t))
HandleAlone == \A t \in Handles : ~HandleAtRest(t) =>
  /\ opc = "idle" /\ \A k \in Stmts : StmtAtRest(k)
  /\ \A u \in Handles : hpc[u] # "live" /\ (u # t => HandleAtRest(u))
BeginFoundNone == opc \in {"b_pool", "b_exec"} => active = NoHandle

CallInv ==
  /\ TypeOK /\ HandleOwnsSession
  /\ NoBackground /\ StmtAlone /\ OwnerAlone /\ HandleAlone /\ BeginFoundNone

LEMMA CallInit == Init => CallInv
  BY TypeInit DEF Init, CallInv, HandleOwnsSession, NoBackground, StmtAlone, OwnerAlone,
     HandleAlone, BeginFoundNone, StmtAtRest, HandleAtRest

LEMMA CallStmt ==
  ASSUME CallInv, ~Concurrent, NEW k \in Stmts, StmtStart(k) \/ StmtStep(k) \/ StmtCancel(k)
  PROVE  CallInv'
<1>1. TypeOK' BY TypeStmt DEF CallInv
<1>2. UNCHANGED <<opc, active, hpc, bg>>
  BY DEF StmtStart, StmtStep, StmtRoute, StmtAcquire, StmtLockSlot, StmtRun, StmtCancel,
         owner, handle
<1>3. /\ opc = "idle" /\ \A t \in Handles : HandleAtRest(t)
      /\ \A j \in Stmts : j # k => StmtAtRest(j)
  BY DEF StmtStart, StmtStep, StmtRoute, StmtAcquire, StmtLockSlot, StmtRun, StmtCancel,
         MayStart, Quiet, CallInv, StmtAlone, StmtAtRest, HandleAtRest
<1>4. \A j \in Stmts : j # k => tpc'[j] = tpc[j]
  BY DEF StmtStart, StmtStep, StmtRoute, StmtAcquire, StmtLockSlot, StmtRun, StmtCancel,
         StmtEnds, CallInv, TypeOK, WorkType
<1>5. HandleOwnsSession' /\ NoBackground' /\ BeginFoundNone'
  BY <1>2 DEF CallInv, HandleOwnsSession, NoBackground, BeginFoundNone
<1>6. StmtAlone' /\ OwnerAlone' /\ HandleAlone'
  BY <1>2, <1>3, <1>4 DEF StmtAlone, OwnerAlone, HandleAlone, StmtAtRest, HandleAtRest
<1> QED BY <1>1, <1>5, <1>6 DEF CallInv

LEMMA CallOwner ==
  ASSUME CallInv, ~Concurrent,
         \/ BeginLock \/ BeginAcquire \/ BeginFails \/ BeginCancel
         \/ \E s \in Saves : SaveStart(s) \/ SaveStep(s) \/ SaveCancel(s)
  PROVE  CallInv'
<1>1. TypeOK' BY TypeBegin, TypeSave DEF CallInv, BeginStep
<1>2. UNCHANGED <<active, hpc, bg, tpc>>
  BY DEF BeginLock, BeginAcquire, BeginFails, BeginCancel, SaveStart, SaveStep, SaveRoute,
         SaveAcquire, SaveBegin, SavePoint, SaveDml, SaveManagedEnd, SaveRollbackTo,
         SaveRelease, SaveCancel, handle
<1>3. (\A k \in Stmts : StmtAtRest(k)) /\ (\A t \in Handles : HandleAtRest(t))
  <2>1. CASE opc = "idle"
    <3>1. MayStart
      <4>1. ASSUME NEW s \in Saves, SaveStep(s) \/ SaveCancel(s) PROVE FALSE
        BY <2>1, <4>1 DEF SaveStep, SaveRoute, SaveAcquire, SaveBegin, SavePoint, SaveDml,
           SaveManagedEnd, SaveRollbackTo, SaveRelease, SaveCancel
      <4> QED BY <2>1, <4>1 DEF BeginLock, BeginAcquire, BeginFails, BeginCancel, SaveStart
    <3> QED BY <3>1 DEF MayStart, Quiet, StmtAtRest, HandleAtRest
  <2> QED BY <2>1 DEF CallInv, OwnerAlone
<1>4. opc' \in {"b_pool", "b_exec"} => active = NoHandle
  <2>1. CASE BeginLock BY <2>1 DEF BeginLock, NotActive
  <2>2. CASE BeginAcquire BY <2>2 DEF BeginAcquire, CallInv, BeginFoundNone
  <2>3. CASE BeginFails \/ BeginCancel BY <2>3 DEF BeginFails, BeginCancel
  <2>4. ASSUME NEW s \in Saves, SaveStart(s) \/ SaveStep(s) \/ SaveCancel(s)
        PROVE  opc' \notin {"b_pool", "b_exec"}
    BY <2>4 DEF SaveStart, SaveStep, SaveRoute, SaveAcquire, SaveBegin, SavePoint, SaveDml,
       SaveManagedEnd, SaveRollbackTo, SaveRelease, SaveCancel, SaveEnds
  <2> QED BY <2>1, <2>2, <2>3, <2>4
<1>5. HandleOwnsSession' /\ NoBackground' /\ BeginFoundNone'
  BY <1>2, <1>4 DEF CallInv, HandleOwnsSession, NoBackground, BeginFoundNone
<1>6. StmtAlone' /\ OwnerAlone' /\ HandleAlone'
  BY <1>2, <1>3 DEF StmtAlone, OwnerAlone, HandleAlone, StmtAtRest, HandleAtRest
<1> QED BY <1>1, <1>5, <1>6 DEF CallInv

(* BEGIN succeeds: no other handle is live, because the slot was empty.     *)
LEMMA CallBegun ==
  ASSUME CallInv, NEW t \in Handles, BeginOk(t)
  PROVE  CallInv'
<1>1. TypeOK' BY TypeBegin DEF CallInv, BeginStep
<1>2. /\ active' = t /\ opc' = "idle" /\ UNCHANGED <<bg, tpc>>
      /\ hpc' = [hpc EXCEPT ![t] = "live"]
  BY DEF BeginOk
<1>3. \A u \in Handles : hpc[u] # "live"
  BY NamesAssumption DEF CallInv, HandleOwnsSession, BeginFoundNone, BeginOk
<1>4. (\A k \in Stmts : StmtAtRest(k)) /\ (\A u \in Handles : HandleAtRest(u))
  BY DEF CallInv, OwnerAlone, BeginOk
<1>5. HandleOwnsSession' /\ NoBackground' /\ BeginFoundNone'
  BY <1>2, <1>3 DEF CallInv, TypeOK, HandleType, HandleOwnsSession, NoBackground, BeginFoundNone
<1>6. StmtAlone' /\ OwnerAlone' /\ HandleAlone'
  BY <1>2, <1>4 DEF CallInv, TypeOK, HandleType, StmtAlone, OwnerAlone, HandleAlone,
     StmtAtRest, HandleAtRest
<1> QED BY <1>1, <1>5, <1>6 DEF CallInv

LEMMA CallHandle ==
  ASSUME CallInv, ~Concurrent, NEW t \in Handles,
         HandleCall(t) \/ HandleStep(t) \/ BackgroundStep(t)
  PROVE  CallInv'
<1>1. TypeOK' BY TypeHandle DEF CallInv
<1>2. CASE SharedTxnDrop(t)
  <2>1. UNCHANGED <<opc, active, hpc, bg, tpc>> BY <1>2 DEF SharedTxnDrop, owner, handle
  <2> QED BY <1>1, <2>1 DEF CallInv, HandleOwnsSession, NoBackground, StmtAlone, OwnerAlone,
             HandleAlone, BeginFoundNone, StmtAtRest, HandleAtRest
<1>3. CASE HandleCall(t) \/ HandleStep(t)
  <2>0. hpc[t] \notin {"none", "done"}
    BY <1>3 DEF HandleCall, HandleCommit, HandleRollback, HandleDrop, HandleTake, HandleCancel,
       HandleStep, TakeConn, Finish, ClearSession, DropClearNow, DropTryTake
  <2>1. /\ opc = "idle" /\ \A k \in Stmts : StmtAtRest(k)
        /\ \A u \in Handles : u # t => hpc[u] # "live" /\ HandleAtRest(u)
    <3>1. CASE hpc[t] = "live"
      <4>1. MayStart
        BY <1>3, <3>1 DEF HandleCall, HandleCommit, HandleRollback, HandleDrop, HandleTake,
           HandleCancel, HandleStep, TakeConn, Finish, ClearSession, DropClearNow, DropTryTake
      <4>2. \A u \in Handles : u # t => hpc[u] # "live"
        BY <3>1 DEF CallInv, HandleOwnsSession
      <4> QED BY <4>1, <4>2 DEF MayStart, Quiet, StmtAtRest, HandleAtRest
    <3>2. CASE ~HandleAtRest(t) BY <3>2 DEF CallInv, HandleAlone
    <3> QED BY <2>0, <3>1, <3>2 DEF HandleAtRest, CallInv, TypeOK, HandleType
  <2>2. ~Busy(t) /\ ~SaveMayRun(t) BY <2>1 DEF Busy, SaveMayRun, StmtAtRest
  <2>3. UNCHANGED <<opc, tpc, bg>>
    BY <1>3, <2>2 DEF HandleCall, HandleCommit, HandleRollback, HandleDrop, HandleTake,
       HandleCancel, HandleStep, TakeConn, Finish, ClearSession, DropClearNow, DropTryTake, owner
  <2>4. /\ hpc'[t] # "live"
        /\ \A u \in Handles : u # t => hpc'[u] = hpc[u]
    BY <1>3 DEF HandleCall, HandleCommit, HandleRollback, HandleDrop, HandleTake,
       HandleCancel, HandleStep, TakeConn, Finish, ClearSession, DropClearNow, DropTryTake,
       CallInv, TypeOK, HandleType
  <2>5. HandleOwnsSession' /\ NoBackground' /\ BeginFoundNone'
    BY <2>1, <2>3, <2>4 DEF CallInv, HandleOwnsSession, NoBackground, BeginFoundNone
  <2>6. StmtAlone' /\ OwnerAlone' /\ HandleAlone'
    BY <2>1, <2>3, <2>4 DEF StmtAlone, OwnerAlone, HandleAlone, StmtAtRest, HandleAtRest
  <2> QED BY <1>1, <2>5, <2>6 DEF CallInv
<1>4. ~BackgroundRollback(t) /\ ~BackgroundClear(t)
  BY DEF CallInv, NoBackground, BackgroundRollback, BackgroundClear
<1> QED BY <1>2, <1>3, <1>4 DEF BackgroundStep

LEMMA CallPoint ==
  ASSUME CallInv, NEW t \in Handles, PointStep(t)
  PROVE  CallInv'
<1>1. TypeOK' BY TypePoint DEF CallInv
<1>2. UNCHANGED <<opc, active, hpc, bg, tpc>>
  BY DEF PointStep, SetIsolation, CreatePoint, RollbackPoint, ReleasePoint, owner, handle
<1> QED BY <1>1, <1>2 DEF CallInv, HandleOwnsSession, NoBackground, StmtAlone, OwnerAlone,
           HandleAlone, BeginFoundNone, StmtAtRest, HandleAtRest

LEMMA CallNext == ~Concurrent /\ CallInv /\ [Next]_vars => CallInv'
<1> SUFFICES ASSUME ~Concurrent, CallInv, [Next]_vars PROVE CallInv' OBVIOUS
<1>1. CASE Next
  BY <1>1, CallStmt, CallOwner, CallBegun, CallHandle, CallPoint
     DEF Next, CallerStep, BeginStep, HandleCall, PointStep
<1>2. CASE UNCHANGED vars
  BY <1>2 DEF vars, owner, handle, db, CallInv, TypeOK, DbType, OwnerType, HandleType,
     WorkType, HandleOwnsSession, NoBackground, StmtAlone, OwnerAlone, HandleAlone,
     BeginFoundNone, StmtAtRest, HandleAtRest
<1> QED BY <1>1, <1>2

(* A context used one call at a time: an unconsumed handle's transaction is *)
(* the one its statements and saves join, for every fault and cancellation. *)
THEOREM SequentialOwnership == ~Concurrent => (Spec => []HandleOwnsSession)
<1> SUFFICES ASSUME ~Concurrent PROVE Spec => []HandleOwnsSession OBVIOUS
<1>1. CallInv /\ [Next]_vars => CallInv' BY CallNext
<1>2. CallInv => HandleOwnsSession BY DEF CallInv
<1> QED BY CallInit, <1>1, <1>2, PTL DEF Spec

-----------------------------------------------------------------------------
(* Work of an abandoned transaction is never committed.  Two things are left*)
(* out: a deadlock in MySQL, after which the slot holds a connection in     *)
(* autocommit mode, and, in SQLite, a cancelled future, which lets the      *)
(* connection of a slot return to the pool with its transaction open.       *)
SlotsAreKept == /\ "deadlock" \notin Faults
                /\ Provider = "sqlite" => Cancels \subseteq {"begin"}

(* Why it holds: what a connection has uncommitted, in its transaction or in*)
(* a savepoint it may roll back to, was routed to the transaction whose slot*)
(* or ConnectionGuard holds the connection, or to none; so a COMMIT makes   *)
(* durable what belongs to the handle that is committed.  For that, work is *)
(* done after it is routed and only once, the slot is inside a transaction, *)
(* and a save that began a transaction of its own uses that one.            *)
Holds(c, w) == w \in pending[c] \/ \E i \in DOMAIN mark[c] : w \in mark[c][i].work
Written(w) == w \in durable \/ \E c \in Conns : Holds(c, w)
InSave == {"s_dml", "s_more", "s_end", "s_undo", "s_undone"}

HeldByItsOwn == \A c \in Conns, w \in Work : Holds(c, w) =>
  via[w] = NoHandle \/ holder[c] = Slot(via[w]) \/ holder[c] = Taker(via[w])
DurableIsCommitted == \A w \in durable : via[w] = NoHandle \/ hop[via[w]] = "commit"
SlotIsOpen == \A t \in Handles, c \in Conns : holder[c] = Slot(t) => txs[c] # "none"
StmtsRunOnce == \A k \in Stmts : Written(k) => tpc[k] = "done"
SavesRunOnce == \A s \in Saves :
  /\ Written(s) => res[s] # "none" \/ (s \in osave /\ opc \in InSave)
  /\ s \in osave => res[s] = "none"
LiveIsUndecided == \A t \in Handles : hpc[t] \in {"none", "live"} => hop[t] = "none"
ManagedIsAlone == osave # {} /\ ~scoped =>
  active = NoHandle /\ (opc # "s_route" => \A s \in osave : via[s] = NoHandle)

GoneInv ==
  /\ TypeOK /\ OneSave
  /\ HeldByItsOwn /\ DurableIsCommitted /\ SlotIsOpen
  /\ StmtsRunOnce /\ SavesRunOnce /\ LiveIsUndecided /\ ManagedIsAlone /\ BeginIsManaged

LEMMA GoneInit == Init => GoneInv
<1> SUFFICES ASSUME Init PROVE GoneInv OBVIOUS
<1>1. \A c \in Conns : \A w : ~Holds(c, w) BY DEF Init, Holds
<1>2. \A w : ~Written(w) BY <1>1 DEF Init, Written
<1>3. HeldByItsOwn /\ StmtsRunOnce /\ SavesRunOnce
  BY <1>1, <1>2 DEF Init, HeldByItsOwn, StmtsRunOnce, SavesRunOnce
<1>4. SlotIsOpen BY HoldersDiffer DEF Init, SlotIsOpen
<1>5. OneSave /\ DurableIsCommitted /\ LiveIsUndecided /\ ManagedIsAlone /\ BeginIsManaged
  BY DEF Init, OneSave, DurableIsCommitted, LiveIsUndecided, ManagedIsAlone, BeginIsManaged
<1> QED BY TypeInit, <1>3, <1>4, <1>5 DEF GoneInv

(* What every operation but a successful statement does to the work a       *)
(* connection has: it adds none, commits at most what was pending, and has  *)
(* no effect on the transactions of the others.                             *)
AddsNothing(c) == /\ \A d \in Conns, w \in Work : Holds(d, w)' => Holds(d, w)
                  /\ durable' \subseteq durable \cup pending[c]
                  /\ \A d \in Conns \ {c} : txs'[d] = txs[d]

LEMMA EndAddsNothing ==
  ASSUME DbType, NEW c \in Conns, NEW a, EndTxn(c, a)
  PROVE  /\ AddsNothing(c) /\ \A w \in Work : ~Holds(c, w)'
         /\ ~a => durable' = durable
<1>1. /\ mark \in [Conns -> Seq(MarkEntry)] /\ pending \in [Conns -> SUBSET Work]
      /\ txs \in [Conns -> {"none", "open", "aborted"}]
  BY DEF DbType, MarkEntry
<1>2. pending'[c] = {} /\ mark'[c] = <<>> BY <1>1 DEF EndTxn
<1>3. \A d \in Conns \ {c} : pending'[d] = pending[d] /\ mark'[d] = mark[d] BY <1>1 DEF EndTxn
<1>4. \A w \in Work : ~Holds(c, w)' BY <1>2 DEF Holds
<1>5. \A d \in Conns, w \in Work : Holds(d, w)' => Holds(d, w) BY <1>3, <1>4 DEF Holds
<1>6. durable' \subseteq durable \cup pending[c] /\ \A d \in Conns \ {c} : txs'[d] = txs[d]
  BY <1>1 DEF EndTxn
<1> QED BY <1>4, <1>5, <1>6 DEF AddsNothing, EndTxn

LEMMA TxnAddsNothing ==
  ASSUME DbType, NEW c \in Conns,
         RunFails(c) \/ OpenTxn(c) \/ OpenFails(c) \/ UNCHANGED db
  PROVE  AddsNothing(c) /\ (~OpenTxn(c) => durable' = durable)
<1>1. /\ mark \in [Conns -> Seq(MarkEntry)] /\ pending \in [Conns -> SUBSET Work]
      /\ txs \in [Conns -> {"none", "open", "aborted"}]
  BY DEF DbType, MarkEntry
<1>5. \A d \in Conns \ {c} : txs'[d] = txs[d]
  BY <1>1 DEF RunFails, OpenTxn, OpenFails, EndTxn, AbortsOnError, db
<1>2. CASE UNCHANGED <<pending, mark, durable>> BY <1>2, <1>5 DEF AddsNothing, Holds
<1>3. CASE EndTxn(c, FALSE) BY <1>3, EndAddsNothing
<1>4. CASE OpenTxn(c) /\ Provider = "mysql"
  <2>1. pending'[c] = {} /\ mark'[c] = <<>> BY <1>1, <1>4 DEF OpenTxn
  <2>2. \A d \in Conns \ {c} : pending'[d] = pending[d] /\ mark'[d] = mark[d]
    BY <1>1, <1>4 DEF OpenTxn
  <2>3. \A d \in Conns, w \in Work : Holds(d, w)' => Holds(d, w) BY <2>1, <2>2 DEF Holds
  <2> QED BY <1>4, <1>5, <2>3 DEF AddsNothing, OpenTxn
<1> QED BY <1>2, <1>3, <1>4 DEF RunFails, OpenTxn, OpenFails, db

(* What is left of a stack is in the stack.                                 *)
LEMMA WithoutKeeps ==
  ASSUME NEW R, NEW q \in Seq(R), NEW i \in DOMAIN q
  PROVE  /\ Without(q, i) \in Seq(R)
         /\ \A j \in DOMAIN Without(q, i) : \E l \in DOMAIN q : Without(q, i)[j] = q[l]
<1>1. Len(q) \in Nat /\ DOMAIN q = 1 .. Len(q) /\ i \in 1 .. Len(q) BY LenProperties
<1>2. Without(q, i) \in Seq(R) BY Stacks
<1> SUFFICES ASSUME NEW j \in DOMAIN Without(q, i)
             PROVE  \E l \in DOMAIN q : Without(q, i)[j] = q[l]
  BY <1>2
<1> DEFINE a == SubSeq(q, 1, i - 1)
           b == SubSeq(q, i + 1, Len(q))
<1>3. \A m \in 1 .. Len(q) : q[m] \in R BY ElementOfSeq
<1>4. /\ a \in Seq(R) /\ Len(a) = i - 1
      /\ \A m \in 1 .. i - 1 : a[m] = q[m]
  BY <1>1, <1>3, SubSeqProperties
<1>5. /\ b \in Seq(R) /\ Len(b) = Len(q) - i
      /\ \A m \in 1 .. Len(q) - i : b[m] = q[i + m]
  BY <1>1, <1>3, SubSeqProperties
<1> HIDE DEF a, b
<1>6. Without(q, i) = a \o b BY DEF Without, a, b
<1>7. /\ DOMAIN (a \o b) = 1 .. Len(a) + Len(b)
      /\ \A m \in 1 .. Len(a) + Len(b) : (a \o b)[m] = IF m <= Len(a) THEN a[m] ELSE b[m - Len(a)]
  <2>1. a \o b \in Seq(R) /\ Len(a \o b) = Len(a) + Len(b) BY <1>4, <1>5, ConcatProperties
  <2> QED BY <1>4, <1>5, <2>1, LenProperties, ConcatProperties
<1>8. j \in 1 .. Len(q) - 1 BY <1>1, <1>4, <1>5, <1>6, <1>7
<1>9. CASE j <= i - 1 BY <1>1, <1>4, <1>5, <1>6, <1>7, <1>8, <1>9
<1>10. CASE j > i - 1
  <2>1. j - (i - 1) \in 1 .. Len(q) - i /\ i + (j - (i - 1)) = j + 1 BY <1>1, <1>8, <1>10
  <2>2. b[j - (i - 1)] = q[j + 1] BY <1>5, <2>1
  <2>3. j \in 1 .. Len(a) + Len(b) /\ ~(j <= Len(a)) /\ j - Len(a) = j - (i - 1)
    BY <1>1, <1>4, <1>5, <1>8, <1>10
  <2>4. (a \o b)[j] = q[j + 1] BY <1>7, <2>2, <2>3
  <2> QED BY <1>1, <1>6, <1>8, <2>4
<1> QED BY <1>1, <1>8, <1>9, <1>10

LEMMA MarkAddsNothing ==
  ASSUME DbType, NEW c \in Conns, NEW n,
         \/ SetMark(c, n) \/ RollbackToMark(c, n) \/ ReleaseMark(c, n)
         \/ \E f : PointFails(c, n, f)
  PROVE  /\ AddsNothing(c)
         /\ holder[c] # Owner => durable' = durable /\ (txs[c] # "none" => txs'[c] # "none")
<1>1. /\ mark \in [Conns -> Seq(MarkEntry)] /\ pending \in [Conns -> SUBSET Work]
      /\ txs \in [Conns -> {"none", "open", "aborted"}] /\ mark[c] \in Seq(MarkEntry)
  BY DEF DbType, MarkEntry
<1>2. Len(mark[c]) \in Nat /\ DOMAIN mark[c] = 1 .. Len(mark[c]) BY <1>1, LenProperties
<1>3. ASSUME UNCHANGED durable, \A d \in Conns \ {c} : pending'[d] = pending[d],
             \A d \in Conns \ {c} : mark'[d] = mark[d],
             \A w \in Work : Holds(c, w)' => Holds(c, w),
             \A d \in Conns \ {c} : txs'[d] = txs[d]
      PROVE  AddsNothing(c)
  BY <1>3 DEF AddsNothing, Holds
<1>4. CASE SetMark(c, n)
  <2>1. CASE UNCHANGED db BY <2>1 DEF AddsNothing, Holds, db
  <2>2. ASSUME NEW q \in Seq(MarkEntry), AddMark(c, q, n), UNCHANGED <<pending, durable>>,
               txs' = [txs EXCEPT ![c] = "open"],
               \A j \in DOMAIN q : \E i \in DOMAIN mark[c] : q[j] = mark[c][i]
        PROVE  AddsNothing(c)
    <3> DEFINE e == [name |-> n, work |-> pending[c]]
    <3>1. mark'[c] = Append(q, e) BY <1>1, <2>2 DEF AddMark
    <3>2. Len(q) \in Nat /\ DOMAIN q = 1 .. Len(q) BY LenProperties
    <3>3. DOMAIN mark'[c] = 1 .. Len(q) + 1 BY <3>1, <3>2
    <3>4. \A j \in DOMAIN mark'[c] : mark'[c][j] = IF j = Len(q) + 1 THEN e ELSE q[j]
      BY <3>1, <3>2, <3>3
    <3>5. \A w \in Work : Holds(c, w)' => Holds(c, w)
      <4> SUFFICES ASSUME NEW w \in Work, NEW j \in DOMAIN mark'[c], w \in mark'[c][j].work
                   PROVE  Holds(c, w)
        BY <2>2 DEF Holds
      <4>1. CASE j = Len(q) + 1 BY <3>4, <4>1 DEF Holds
      <4>2. CASE j # Len(q) + 1 BY <2>2, <3>2, <3>3, <3>4, <4>2 DEF Holds
      <4> QED BY <4>1, <4>2
    <3>6. \A d \in Conns \ {c} : mark'[d] = mark[d] BY <1>1, <2>2 DEF AddMark
    <3> QED BY <1>1, <1>3, <2>2, <3>5, <3>6
  <2>3. ASSUME NEW i \in DOMAIN mark[c]
        PROVE  /\ Without(mark[c], i) \in Seq(MarkEntry)
               /\ \A j \in DOMAIN Without(mark[c], i) :
                    \E l \in DOMAIN mark[c] : Without(mark[c], i)[j] = mark[c][l]
    BY <1>1, <2>3, WithoutKeeps
  <2>4. AddsNothing(c) BY <1>1, <1>4, <2>1, <2>2, <2>3 DEF SetMark
  <2> QED BY <1>1, <1>4, <2>4 DEF SetMark, db
<1>5. CASE RollbackToMark(c, n)
  <2> PICK i \in DOMAIN mark[c] : /\ pending' = [pending EXCEPT ![c] = mark[c][i].work]
                                  /\ mark' = [mark EXCEPT ![c] = SubSeq(@, 1, i)]
    BY <1>5 DEF RollbackToMark
  <2>1. pending'[c] = mark[c][i].work /\ mark'[c] = SubSeq(mark[c], 1, i) BY <1>1
  <2>2. \A j \in DOMAIN mark'[c] : j \in DOMAIN mark[c] /\ mark'[c][j] = mark[c][j]
    BY <1>1, <1>2, <2>1
  <2>3. \A w \in Work : Holds(c, w)' => Holds(c, w) BY <2>1, <2>2 DEF Holds
  <2> QED BY <1>1, <1>3, <1>5, <2>3 DEF RollbackToMark
<1>6. CASE ReleaseMark(c, n)
  <2>1. CASE holder[c] = Owner
    BY <1>6, <2>1, EndAddsNothing DEF ReleaseMark
  <2>2. CASE holder[c] # Owner
    <3> PICK i \in DOMAIN mark[c] : mark' = [mark EXCEPT ![c] = SubSeq(@, 1, i - 1)]
      BY <1>6, <2>2 DEF ReleaseMark
    <3>1. UNCHANGED <<txs, pending, durable>> BY <1>6, <2>2 DEF ReleaseMark
    <3>2. mark'[c] = SubSeq(mark[c], 1, i - 1) BY <1>1
    <3>3. \A j \in DOMAIN mark'[c] : j \in DOMAIN mark[c] /\ mark'[c][j] = mark[c][j]
      BY <1>1, <1>2, <3>2
    <3>4. \A w \in Work : Holds(c, w)' => Holds(c, w) BY <3>1, <3>3 DEF Holds
    <3> QED BY <1>1, <1>3, <3>1, <3>4
  <2> QED BY <2>1, <2>2
<1>7. ASSUME NEW f, PointFails(c, n, f)
      PROVE  /\ AddsNothing(c) /\ UNCHANGED durable
             /\ txs[c] # "none" => txs'[c] # "none"
  BY <1>1, <1>7 DEF PointFails, AbortsOnError, AddsNothing, Holds
<1> QED BY <1>4, <1>5, <1>6, <1>7

LEMMA SlotsDiffer ==
  /\ \A t, u : Slot(t) = Slot(u) => t = u
  /\ \A t, u : Taker(t) = Taker(u) => t = u
  /\ \A t, u : Slot(t) # Taker(u)
  BY DEF Slot, Taker

Free(c) == \A t \in Handles : holder[c] # Slot(t) /\ holder[c] # Taker(t)

LEMMA FreeHolders ==
  ASSUME NEW c
  PROVE  /\ holder[c] \in {Pool, Owner} => Free(c)
         /\ \A k \in Stmts : holder[c] = User(k) => Free(c)
  BY HoldersDiffer DEF Free

(* A step that adds the work in N, keeps a connection or takes it from a    *)
(* slot to its ConnectionGuard, unless nothing uncommitted is on it, and    *)
(* commits only where a handle commits or no transaction was joined.        *)
LEMMA GoneKeeps ==
  ASSUME GoneInv, TypeOK', NEW N,
         \A d \in Conns, w \in Work : Holds(d, w)' =>
            \/ Holds(d, w)
            \/ w \in N /\ (via[w] = NoHandle \/ holder'[d] = Slot(via[w])),
         \A d \in Conns :
            \/ holder'[d] = holder[d] \/ Free(d)
            \/ \A w \in Work : ~Holds(d, w)'
            \/ \E t \in Handles : holder[d] = Slot(t) /\ holder'[d] = Taker(t),
         \A w \in durable' :
            \/ w \in durable \/ (w \in N /\ via[w] = NoHandle)
            \/ \E c \in Conns : Holds(c, w) /\ (via[w] = NoHandle \/ hop'[via[w]] = "commit"),
         \A w \in Work : via'[w] = via[w] \/ (~Written(w) /\ w \notin N),
         \A t \in Handles : hop'[t] = hop[t] \/ hop[t] = "none"
  PROVE  /\ HeldByItsOwn' /\ DurableIsCommitted'
         /\ \A w \in Work : Written(w)' => Written(w) \/ w \in N
<1>0. /\ via \in [Work -> Handles \cup {NoHandle}] /\ durable \subseteq Work
      /\ durable' \subseteq Work
  BY DEF GoneInv, TypeOK, WorkType, DbType
<1>1. \A w \in Work : Written(w)' => Written(w) \/ w \in N
  BY <1>0 DEF Written
<1>2. HeldByItsOwn'
  <2> SUFFICES ASSUME NEW d \in Conns, NEW w \in Work, Holds(d, w)'
               PROVE  (via[w] = NoHandle \/ holder[d] = Slot(via[w]) \/ holder[d] = Taker(via[w]))'
    BY DEF HeldByItsOwn
  <2>1. CASE w \in N /\ (via[w] = NoHandle \/ holder'[d] = Slot(via[w])) BY <2>1
  <2>2. CASE Holds(d, w)
    <3>1. via'[w] = via[w] BY <2>2 DEF Written
    <3>2. via[w] = NoHandle \/ holder[d] = Slot(via[w]) \/ holder[d] = Taker(via[w])
      BY <2>2 DEF GoneInv, HeldByItsOwn
    <3>3. CASE Free(d) BY <1>0, <3>1, <3>2, <3>3 DEF Free
    <3>4. CASE \E t \in Handles : holder[d] = Slot(t) /\ holder'[d] = Taker(t)
      BY <3>1, <3>2, <3>4, SlotsDiffer
    <3>5. CASE holder'[d] = holder[d] BY <3>1, <3>2, <3>5
    <3> QED BY <3>3, <3>4, <3>5
  <2> QED BY <2>1, <2>2
<1>3. DurableIsCommitted'
  <2> SUFFICES ASSUME NEW w \in durable' PROVE (via[w] = NoHandle \/ hop[via[w]] = "commit")'
    BY DEF DurableIsCommitted
  <2>0. w \in Work BY <1>0
  <2>1. CASE w \in durable
    <3>1. via'[w] = via[w] BY <2>0, <2>1 DEF Written
    <3>2. via[w] = NoHandle \/ (via[w] \in Handles /\ hop[via[w]] = "commit")
      BY <1>0, <2>0, <2>1 DEF GoneInv, DurableIsCommitted
    <3> QED BY <3>1, <3>2
  <2>2. CASE w \in N /\ via[w] = NoHandle BY <2>0, <2>2
  <2>3. CASE \E c \in Conns : Holds(c, w) /\ (via[w] = NoHandle \/ hop'[via[w]] = "commit")
    BY <2>0, <2>3 DEF Written
  <2> QED BY <2>1, <2>2, <2>3
<1> QED BY <1>1, <1>2, <1>3

LEMMA GoneAddsNone ==
  ASSUME GoneInv, TypeOK',
         \A d \in Conns, w \in Work : Holds(d, w)' => Holds(d, w),
         \A d \in Conns :
            \/ holder'[d] = holder[d] \/ Free(d)
            \/ \A w \in Work : ~Holds(d, w)'
            \/ \E t \in Handles : holder[d] = Slot(t) /\ holder'[d] = Taker(t),
         \A w \in durable' :
            \/ w \in durable
            \/ \E c \in Conns : Holds(c, w) /\ (via[w] = NoHandle \/ hop'[via[w]] = "commit"),
         \A w \in Work : via'[w] = via[w] \/ ~Written(w),
         \A t \in Handles : hop'[t] = hop[t] \/ hop[t] = "none"
  PROVE  /\ HeldByItsOwn' /\ DurableIsCommitted'
         /\ \A w \in Work : Written(w)' => Written(w)
<1> DEFINE N == {}
<1>1. \A w : w \notin N OBVIOUS
<1> HIDE DEF N
<1>2. \A d \in Conns, w \in Work : Holds(d, w)' =>
        \/ Holds(d, w)
        \/ w \in N /\ (via[w] = NoHandle \/ holder'[d] = Slot(via[w]))
  OBVIOUS
<1>3. \A w \in durable' :
        \/ w \in durable \/ (w \in N /\ via[w] = NoHandle)
        \/ \E c \in Conns : Holds(c, w) /\ (via[w] = NoHandle \/ hop'[via[w]] = "commit")
  OBVIOUS
<1>4. \A w \in Work : via'[w] = via[w] \/ (~Written(w) /\ w \notin N) BY <1>1
<1>5. /\ HeldByItsOwn' /\ DurableIsCommitted'
      /\ \A w \in Work : Written(w)' => Written(w) \/ w \in N
  BY <1>2, <1>3, <1>4, GoneKeeps
<1> QED BY <1>1, <1>5

(* An operation on one connection that is no successful statement.          *)
LEMMA GoneOne ==
  ASSUME GoneInv, TypeOK', NEW c \in Conns, AddsNothing(c), UNCHANGED via,
         \A d \in Conns \ {c} : holder'[d] = holder[d],
         \/ holder'[c] = holder[c] \/ Free(c)
         \/ \A w \in Work : ~Holds(c, w)'
         \/ \E t \in Handles : holder[c] = Slot(t) /\ holder'[c] = Taker(t),
         \/ UNCHANGED durable \/ Free(c)
         \/ \E t \in Handles : holder[c] = Taker(t) /\ hop'[t] = "commit",
         \A t \in Handles : hop'[t] = hop[t] \/ hop[t] = "none"
  PROVE  /\ HeldByItsOwn' /\ DurableIsCommitted'
         /\ \A w \in Work : Written(w)' => Written(w)
<1>0. /\ via \in [Work -> Handles \cup {NoHandle}] /\ durable' \subseteq Work
  BY DEF GoneInv, TypeOK, WorkType, DbType
<1>1. \A d \in Conns, w \in Work : Holds(d, w)' => Holds(d, w) BY DEF AddsNothing
<1>2. \A w \in durable' :
        \/ w \in durable
        \/ \E d \in Conns : Holds(d, w) /\ (via[w] = NoHandle \/ hop'[via[w]] = "commit")
  <2> SUFFICES ASSUME NEW w \in durable', w \notin durable
               PROVE  Holds(c, w) /\ (via[w] = NoHandle \/ hop'[via[w]] = "commit")
    OBVIOUS
  <2>1. w \in Work /\ Holds(c, w) BY <1>0 DEF AddsNothing, Holds
  <2>2. via[w] = NoHandle \/ holder[c] = Slot(via[w]) \/ holder[c] = Taker(via[w])
    BY <2>1 DEF GoneInv, HeldByItsOwn
  <2> QED BY <1>0, <2>1, <2>2, SlotsDiffer DEF Free
<1>3. \A d \in Conns :
        \/ holder'[d] = holder[d] \/ Free(d)
        \/ \A w \in Work : ~Holds(d, w)'
        \/ \E t \in Handles : holder[d] = Slot(t) /\ holder'[d] = Taker(t)
  OBVIOUS
<1> QED BY <1>1, <1>2, <1>3, GoneAddsNone

(* A statement succeeds: in autocommit mode on a connection of its own, or  *)
(* inside the transaction of the slot it was routed to.                     *)
LEMMA GoneRun ==
  ASSUME GoneInv, TypeOK', NEW c \in Conns, NEW w \in Work, RunOk(c, w), UNCHANGED <<via, hop>>,
         \A d \in Conns \ {c} : holder'[d] = holder[d],
         \/ via[w] = NoHandle /\ Free(c)
         \/ via[w] \in Handles /\ holder[c] = Slot(via[w]) /\ UNCHANGED holder
  PROVE  /\ HeldByItsOwn' /\ DurableIsCommitted'
         /\ \A v \in Work : Written(v)' => Written(v) \/ v = w
<1>0. pending \in [Conns -> SUBSET Work] BY DEF GoneInv, TypeOK, DbType
<1>1. \A d \in Conns, v \in Work : Holds(d, v)' =>
        \/ Holds(d, v)
        \/ v \in {w} /\ (via[v] = NoHandle \/ holder'[d] = Slot(via[v]))
  <2>1. mark' = mark BY DEF RunOk
  <2>2. \A d \in Conns : pending'[d] = pending[d] \/ (d = c /\ pending'[d] = pending[d] \cup {w})
    BY <1>0 DEF RunOk
  <2> QED BY <2>1, <2>2 DEF Holds
<1>2. \A v \in durable' : v \in durable \/ (v \in {w} /\ via[v] = NoHandle)
  BY DEF RunOk, GoneInv, SlotIsOpen, TypeOK, DbType
<1>3. \A d \in Conns : holder'[d] = holder[d] \/ Free(d) OBVIOUS
<1>4. /\ HeldByItsOwn' /\ DurableIsCommitted'
      /\ \A v \in Work : Written(v)' => Written(v) \/ v \in {w}
  BY <1>1, <1>2, <1>3, GoneKeeps
<1> QED BY <1>4

(* What a step of anybody but the owner leaves alone.                       *)
LEMMA GoneRest ==
  ASSUME GoneInv, UNCHANGED <<opc, osave, scoped>>, active' = active \/ active' = NoHandle,
         \A s \in Saves : via'[s] = via[s] /\ (res[s] # "none" <=> res'[s] # "none"),
         \A k \in Stmts : tpc[k] = "done" => tpc'[k] = "done",
         NEW N, \A w \in Work : Written(w)' => Written(w) \/ w \in N,
         \A w \in N : w \in Stmts /\ w \notin Saves /\ tpc'[w] = "done"
  PROVE  OneSave' /\ StmtsRunOnce' /\ SavesRunOnce' /\ ManagedIsAlone' /\ BeginIsManaged'
<1>0. osave \subseteq Saves BY DEF GoneInv, TypeOK, OwnerType
<1>1. OneSave' BY DEF GoneInv, OneSave
<1>2. StmtsRunOnce' BY DEF GoneInv, StmtsRunOnce, Work
<1>3. SavesRunOnce' BY DEF GoneInv, SavesRunOnce, Work
<1>4. ManagedIsAlone' /\ BeginIsManaged' BY <1>0 DEF GoneInv, ManagedIsAlone, BeginIsManaged
<1> QED BY <1>1, <1>2, <1>3, <1>4

LEMMA GoneStmt ==
  ASSUME GoneInv, SlotsAreKept, NEW k \in Stmts, StmtStart(k) \/ StmtStep(k) \/ StmtCancel(k)
  PROVE  GoneInv'
<1>0. /\ k \in Work /\ k \notin Saves /\ Saves \subseteq Work
      /\ holder \in [Conns -> Holders] /\ txs \in [Conns -> {"none", "open", "aborted"}]
      /\ tpc \in [Stmts -> {"idle", "route", "pool", "slot", "run", "done"}]
      /\ via \in [Work -> Handles \cup {NoHandle}] /\ DbType
      /\ res \in [Work -> {"none", "ok", "err", "cancelled", "undone"}]
  BY NamesAssumption DEF Work, GoneInv, TypeOK, DbType, WorkType
<1>1. TypeOK' BY TypeStmt DEF GoneInv
<1>2. UNCHANGED <<opc, osave, scoped, active, hpc, hop>>
  BY DEF StmtStart, StmtStep, StmtRoute, StmtAcquire, StmtLockSlot, StmtRun, StmtCancel,
     owner, handle
<1>3. /\ \A s \in Saves : via'[s] = via[s] /\ res'[s] = res[s]
      /\ \A j \in Stmts : tpc[j] = "done" => tpc'[j] = "done"
  BY <1>0 DEF StmtStart, StmtStep, StmtRoute, StmtAcquire, StmtLockSlot, StmtRun, StmtCancel,
     StmtEnds
<1>4. LiveIsUndecided' BY <1>2 DEF GoneInv, LiveIsUndecided
<1>5. SlotIsOpen'
  <2>1. \A c \in Conns, t \in Handles : holder'[c] = Slot(t) => holder[c] = Slot(t)
    BY <1>0, HoldersDiffer DEF StmtStart, StmtStep, StmtRoute, StmtAcquire, StmtLockSlot, StmtRun,
       StmtCancel, GiveBack
  <2>2. \A c \in Conns : txs[c] # "none" => txs'[c] # "none"
    BY <1>0 DEF StmtStart, StmtStep, StmtRoute, StmtAcquire, StmtLockSlot, StmtRun, StmtCancel,
       RunOk, RunFails, AbortsOnError, SlotsAreKept, db
  <2> QED BY <2>1, <2>2 DEF GoneInv, SlotIsOpen
<1>6. ASSUME HeldByItsOwn', DurableIsCommitted',
             \A w \in Work : Written(w)' => Written(w) \/ (w = k /\ tpc'[k] = "done")
      PROVE  GoneInv'
  <2> DEFINE N == IF tpc'[k] = "done" THEN {k} ELSE {}
  <2>1. \A w \in Work : Written(w)' => Written(w) \/ w \in N BY <1>6
  <2>2. \A w \in N : w \in Stmts /\ w \notin Saves /\ tpc'[w] = "done" BY <1>0
  <2> HIDE DEF N
  <2>3. OneSave' /\ StmtsRunOnce' /\ SavesRunOnce' /\ ManagedIsAlone' /\ BeginIsManaged'
    BY <1>2, <1>3, <2>1, <2>2, GoneRest
  <2> QED BY <1>1, <1>4, <1>5, <1>6, <2>3 DEF GoneInv
<1>7. CASE StmtStart(k) \/ StmtRoute(k) \/ StmtAcquire(k) \/ StmtLockSlot(k)
  <2>1. UNCHANGED db BY <1>7 DEF StmtStart, StmtRoute, StmtAcquire, StmtLockSlot
  <2>2. \A d \in Conns, w \in Work : Holds(d, w)' => Holds(d, w) BY <2>1 DEF Holds, db
  <2>3. \A d \in Conns : holder'[d] = holder[d] \/ Free(d)
    <3>1. CASE StmtAcquire(k) BY <1>0, <3>1, FreeHolders DEF StmtAcquire
    <3>2. CASE UNCHANGED holder BY <3>2
    <3> QED BY <1>7, <3>1, <3>2 DEF StmtStart, StmtRoute, StmtLockSlot
  <2>4. \A w \in Work : via'[w] = via[w] \/ ~Written(w)
    <3>1. CASE StmtRoute(k)
      <4>1. ~Written(k) BY <3>1 DEF StmtRoute, GoneInv, StmtsRunOnce
      <4> QED BY <1>0, <3>1, <4>1 DEF StmtRoute
    <3>2. CASE UNCHANGED via BY <3>2
    <3> QED BY <1>7, <3>1, <3>2 DEF StmtStart, StmtAcquire, StmtLockSlot
  <2>5. /\ HeldByItsOwn' /\ DurableIsCommitted'
        /\ \A w \in Work : Written(w)' => Written(w)
    BY <1>1, <1>2, <2>1, <2>2, <2>3, <2>4, GoneAddsNone DEF db
  <2> QED BY <1>6, <2>5
<1>8. CASE StmtRun(k) \/ StmtCancel(k)
  <2> PICK c \in Conns :
        /\ StmtConn(k, c)
        /\ RunOk(c, k) \/ RunFails(c) \/ UNCHANGED db
        /\ IF via[k] = NoHandle THEN GiveBack(c) ELSE UNCHANGED holder
    <3>1. CASE StmtRun(k) BY <3>1 DEF StmtRun
    <3>2. CASE StmtCancel(k)
      <4>1. Provider # "sqlite" BY <3>2 DEF StmtCancel, SlotsAreKept
      <4> QED BY <3>2, <4>1 DEF StmtCancel
    <3> QED BY <1>8, <3>1, <3>2
  <2>1. UNCHANGED via /\ tpc'[k] = "done" BY <1>0, <1>8 DEF StmtRun, StmtCancel, StmtEnds
  <2>2. \A d \in Conns \ {c} : holder'[d] = holder[d] BY <1>0 DEF GiveBack
  <2>3. \/ via[k] = NoHandle /\ Free(c)
        \/ via[k] \in Handles /\ holder[c] = Slot(via[k]) /\ UNCHANGED holder
    BY <1>0, FreeHolders DEF StmtConn
  <2>4. CASE RunOk(c, k)
    <3>1. /\ HeldByItsOwn' /\ DurableIsCommitted'
          /\ \A v \in Work : Written(v)' => Written(v) \/ v = k
      BY <1>0, <1>1, <1>2, <2>1, <2>2, <2>3, <2>4, GoneRun
    <3> QED BY <1>6, <2>1, <3>1
  <2>5. CASE RunFails(c) \/ UNCHANGED db
    <3>1. AddsNothing(c) /\ UNCHANGED durable
      <4>1. UNCHANGED durable BY <2>5 DEF RunFails, SlotsAreKept, db
      <4> QED BY <1>0, <2>5, <4>1, TxnAddsNothing
    <3>2. /\ HeldByItsOwn' /\ DurableIsCommitted'
          /\ \A v \in Work : Written(v)' => Written(v)
      BY <1>1, <1>2, <2>1, <2>2, <2>3, <3>1, GoneOne
    <3> QED BY <1>6, <3>2
  <2> QED BY <2>4, <2>5
<1> QED BY <1>7, <1>8 DEF StmtStep

LEMMA GoneBegin ==
  ASSUME GoneInv, BeginLock \/ BeginStep \/ BeginCancel
  PROVE  GoneInv'
<1>0. /\ holder \in [Conns -> Holders] /\ txs \in [Conns -> {"none", "open", "aborted"}]
      /\ hpc \in [Handles -> {"none", "live", "take", "exec", "clear", "drop", "try", "done"}]
      /\ DbType /\ osave = {}
  BY DEF GoneInv, TypeOK, DbType, HandleType, OwnerType, BeginLock, BeginStep, BeginAcquire,
     BeginOk, BeginFails, BeginCancel
<1>1. TypeOK' BY TypeBegin DEF GoneInv
<1>2. UNCHANGED <<osave, scoped, via, res, tpc, hop>>
  BY DEF BeginLock, BeginStep, BeginAcquire, BeginOk, BeginFails, BeginCancel, handle
<1>3. OneSave' /\ ManagedIsAlone' /\ BeginIsManaged'
  BY <1>0, <1>2 DEF OneSave, ManagedIsAlone, BeginIsManaged, BeginLock, BeginStep, BeginAcquire,
     BeginOk, BeginFails, BeginCancel
<1>4. LiveIsUndecided'
  BY <1>0, <1>2 DEF GoneInv, LiveIsUndecided, BeginLock, BeginStep, BeginAcquire, BeginOk,
     BeginFails, BeginCancel, handle
<1>5. ASSUME HeldByItsOwn', DurableIsCommitted', SlotIsOpen',
             \A w \in Work : Written(w)' => Written(w)
      PROVE  GoneInv'
  <2>1. StmtsRunOnce' BY <1>2, <1>5 DEF GoneInv, StmtsRunOnce, Work
  <2>2. SavesRunOnce' BY <1>0, <1>2, <1>5 DEF GoneInv, SavesRunOnce, Work
  <2> QED BY <1>1, <1>3, <1>4, <1>5, <2>1, <2>2 DEF GoneInv
<1>6. CASE BeginLock \/ BeginAcquire
  <2>1. UNCHANGED db BY <1>6 DEF BeginLock, BeginAcquire
  <2>2. \A d \in Conns, w \in Work : Holds(d, w)' => Holds(d, w) BY <2>1 DEF Holds, db
  <2>3. \A d \in Conns : holder'[d] = holder[d] \/ (Free(d) /\ holder'[d] = Owner)
    BY <1>0, <1>6, FreeHolders DEF BeginLock, BeginAcquire
  <2>4. SlotIsOpen' BY <2>1, <2>3, HoldersDiffer DEF GoneInv, SlotIsOpen, db
  <2>5. /\ HeldByItsOwn' /\ DurableIsCommitted'
        /\ \A w \in Work : Written(w)' => Written(w)
    BY <1>1, <1>2, <2>1, <2>2, <2>3, GoneAddsNone DEF db
  <2> QED BY <1>5, <2>4, <2>5
<1>7. ASSUME NEW c \in Conns, holder[c] = Owner, AddsNothing(c),
             NEW h, holder' = [holder EXCEPT ![c] = h],
             \A t \in Handles : h = Slot(t) => txs'[c] # "none"
      PROVE  GoneInv'
  <2>1. /\ \A d \in Conns \ {c} : holder'[d] = holder[d]
        /\ holder'[c] = h
    BY <1>0, <1>7
  <2>2. SlotIsOpen' BY <1>7, <2>1 DEF GoneInv, SlotIsOpen, AddsNothing
  <2>3. /\ HeldByItsOwn' /\ DurableIsCommitted'
        /\ \A w \in Work : Written(w)' => Written(w)
    BY <1>1, <1>2, <1>7, <2>1, FreeHolders, GoneOne
  <2> QED BY <1>5, <2>2, <2>3
<1>8. ASSUME NEW t \in Handles, BeginOk(t) PROVE GoneInv'
  <2> PICK c \in Conns : holder[c] = Owner /\ OpenTxn(c) /\ holder' = [holder EXCEPT ![c] = Slot(t)]
    BY <1>8 DEF BeginOk
  <2>1. AddsNothing(c) BY <1>0, TxnAddsNothing
  <2>2. txs'[c] # "none" BY <1>0 DEF OpenTxn
  <2> QED BY <1>7, <2>1, <2>2
<1>9. CASE BeginFails \/ BeginCancel
  <2> PICK c \in Conns :
        /\ holder[c] = Owner /\ GiveBack(c)
        /\ \/ OpenFails(c) \/ OpenTxn(c) \/ EndTxn(c, FALSE) \/ UNCHANGED db
           \/ txs' = [txs EXCEPT ![c] = "aborted"] /\ UNCHANGED <<pending, mark, durable>>
    BY <1>9 DEF BeginFails, BeginCancel
  <2>1. CASE txs' = [txs EXCEPT ![c] = "aborted"] /\ UNCHANGED <<pending, mark, durable>>
    <3>1. AddsNothing(c) BY <1>0, <2>1 DEF AddsNothing, Holds
    <3> QED BY <1>7, <3>1, HoldersDiffer DEF GiveBack
  <2>2. CASE OpenFails(c) \/ OpenTxn(c) \/ EndTxn(c, FALSE) \/ UNCHANGED db
    <3>1. AddsNothing(c) BY <1>0, <2>2, TxnAddsNothing, EndAddsNothing
    <3> QED BY <1>7, <3>1, HoldersDiffer DEF GiveBack
  <2> QED BY <2>1, <2>2
<1> QED BY <1>6, <1>8, <1>9 DEF BeginStep

LEMMA GoneHandle ==
  ASSUME GoneInv, SlotsAreKept, NEW t \in Handles,
         HandleCall(t) \/ HandleStep(t) \/ BackgroundStep(t)
  PROVE  GoneInv'
<1>0. /\ holder \in [Conns -> Holders] /\ txs \in [Conns -> {"none", "open", "aborted"}]
      /\ hpc \in [Handles -> {"none", "live", "take", "exec", "clear", "drop", "try", "done"}]
      /\ hop \in [Handles -> {"none", "commit", "rollback", "drop"}] /\ DbType
  BY DEF GoneInv, TypeOK, DbType, HandleType
<1>1. TypeOK' BY TypeHandle DEF GoneInv
<1>2. /\ UNCHANGED <<opc, osave, scoped, via, res, tpc>>
      /\ active' = active \/ active' = NoHandle
  BY DEF HandleCall, HandleCommit, HandleRollback, HandleDrop, HandleTake, HandleCancel,
     HandleStep, TakeConn, Finish, ClearSession, DropClearNow, DropTryTake, BackgroundStep,
     BackgroundRollback, BackgroundClear, SharedTxnDrop, Discard, owner
<1>3. \/ UNCHANGED hop
      \/ HandleTake(t, hop'[t]) /\ hpc[t] = "live" /\ hop' = [hop EXCEPT ![t] = hop'[t]]
  BY <1>0 DEF HandleCall, HandleCommit, HandleRollback, HandleDrop, HandleTake, HandleCancel,
     HandleStep, TakeConn, Finish, ClearSession, DropClearNow, DropTryTake, BackgroundStep,
     BackgroundRollback, BackgroundClear, SharedTxnDrop, Discard, handle
<1>4. \A u \in Handles : hop'[u] = hop[u] \/ hop[u] = "none"
  BY <1>0, <1>3 DEF GoneInv, LiveIsUndecided
<1>5. LiveIsUndecided'
  <2>1. \A u \in Handles : hpc'[u] \in {"none", "live"} => hpc'[u] = hpc[u] /\ hop'[u] = hop[u]
    BY <1>0 DEF HandleCall, HandleCommit, HandleRollback, HandleDrop, HandleTake, HandleCancel,
       HandleStep, TakeConn, Finish, ClearSession, DropClearNow, DropTryTake, BackgroundStep,
       BackgroundRollback, BackgroundClear, SharedTxnDrop, Discard, handle
  <2> QED BY <2>1 DEF GoneInv, LiveIsUndecided
<1>6. ASSUME HeldByItsOwn', DurableIsCommitted', SlotIsOpen',
             \A w \in Work : Written(w)' => Written(w)
      PROVE  GoneInv'
  <2> DEFINE N == {}
  <2>1. \A w : w \notin N OBVIOUS
  <2> HIDE DEF N
  <2>2. \A w \in Work : Written(w)' => Written(w) \/ w \in N BY <1>6
  <2>3. \A w \in N : w \in Stmts /\ w \notin Saves /\ tpc'[w] = "done" BY <2>1
  <2>4. OneSave' /\ StmtsRunOnce' /\ SavesRunOnce' /\ ManagedIsAlone' /\ BeginIsManaged'
    BY <1>2, <2>2, <2>3, GoneRest
  <2> QED BY <1>1, <1>5, <1>6, <2>4 DEF GoneInv
<1>7. CASE UNCHANGED db /\ \A d \in Conns :
             \/ holder'[d] = holder[d]
             \/ holder[d] = Slot(t) /\ holder'[d] = Taker(t)
  <2>1. \A d \in Conns, w \in Work : Holds(d, w)' => Holds(d, w) BY <1>7 DEF Holds, db
  <2>2. SlotIsOpen' BY <1>7, SlotsDiffer DEF GoneInv, SlotIsOpen, db
  <2>3. /\ HeldByItsOwn' /\ DurableIsCommitted'
        /\ \A w \in Work : Written(w)' => Written(w)
    BY <1>1, <1>2, <1>4, <1>7, <2>1, GoneAddsNone DEF db
  <2> QED BY <1>6, <2>2, <2>3
<1>8. ASSUME NEW c \in Conns, NEW a, EndTxn(c, a), GiveBack(c),
             a => holder[c] = Taker(t) /\ hop'[t] = "commit"
      PROVE  GoneInv'
  <2>1. /\ AddsNothing(c) /\ \A w \in Work : ~Holds(c, w)'
        /\ ~a => durable' = durable
    BY <1>0, <1>8, EndAddsNothing
  <2>2. /\ \A d \in Conns \ {c} : holder'[d] = holder[d]
        /\ holder'[c] = Pool
    BY <1>0, <1>8 DEF GiveBack
  <2>3. SlotIsOpen' BY <2>1, <2>2, HoldersDiffer DEF GoneInv, SlotIsOpen, AddsNothing
  <2>4. /\ HeldByItsOwn' /\ DurableIsCommitted'
        /\ \A w \in Work : Written(w)' => Written(w)
    BY <1>1, <1>2, <1>4, <1>8, <2>1, <2>2, GoneOne
  <2> QED BY <1>6, <2>3, <2>4
<1>9. CASE TakeConn(t) BY <1>0, <1>7, <1>9 DEF TakeConn
<1>10. CASE Finish(t) BY <1>8, <1>10 DEF Finish, CommitOk, CommitFails
<1>11. CASE HandleCancel(t)
  <2>1. CASE hpc[t] # "exec" BY <1>7, <1>11, <2>1 DEF HandleCancel
  <2>2. CASE hpc[t] = "exec"
    <3>1. Provider # "sqlite" BY <1>11 DEF HandleCancel, SlotsAreKept
    <3> QED BY <1>8, <1>11, <2>2, <3>1 DEF HandleCancel, CommitOk
  <2> QED BY <2>1, <2>2
<1>12. CASE DropTryTake(t) \/ BackgroundRollback(t) \/ SharedTxnDrop(t)
  BY <1>7, <1>8, <1>12 DEF DropTryTake, BackgroundRollback, SharedTxnDrop, Discard
<1> QED BY <1>7, <1>9, <1>10, <1>11, <1>12
        DEF HandleCall, HandleCommit, HandleRollback, HandleDrop, HandleTake, HandleStep,
            ClearSession, DropClearNow, BackgroundStep, BackgroundClear

LEMMA GonePoint ==
  ASSUME GoneInv, NEW t \in Handles, PointStep(t)
  PROVE  GoneInv'
<1>0. txs \in [Conns -> {"none", "open", "aborted"}] /\ DbType /\ Saves \subseteq Work
  BY DEF GoneInv, TypeOK, DbType, Work
<1>1. TypeOK' BY TypePoint DEF GoneInv
<1>2. UNCHANGED <<holder, active, opc, osave, scoped, via, tpc, hop, hpc>>
  BY DEF PointStep, SetIsolation, CreatePoint, RollbackPoint, ReleasePoint, owner, handle
<1>3. PICK c \in Conns : /\ holder[c] = Slot(t) /\ AddsNothing(c) /\ durable' = durable
                         /\ txs[c] # "none" => txs'[c] # "none"
  <2>1. ASSUME NEW n \in Points, CreatePoint(t, n) \/ RollbackPoint(t, n) \/ ReleasePoint(t, n)
        PROVE  \E c \in Conns : /\ holder[c] = Slot(t) /\ AddsNothing(c) /\ durable' = durable
                                /\ txs[c] # "none" => txs'[c] # "none"
    BY <1>0, <2>1, MarkAddsNothing, HoldersDiffer DEF CreatePoint, RollbackPoint, ReleasePoint
  <2>2. CASE SetIsolation(t)
    BY <1>0, <2>2 DEF SetIsolation, AbortsOnError, AddsNothing, Holds
  <2> QED BY <2>1, <2>2 DEF PointStep
<1>4. SlotIsOpen' BY <1>2, <1>3 DEF GoneInv, SlotIsOpen, AddsNothing
<1>5. LiveIsUndecided' BY <1>2 DEF GoneInv, LiveIsUndecided
<1>6. /\ HeldByItsOwn' /\ DurableIsCommitted'
      /\ \A w \in Work : Written(w)' => Written(w)
  BY <1>1, <1>2, <1>3, GoneOne
<1>7. \A s \in Saves : res[s] # "none" <=> res'[s] # "none"
  BY <1>0 DEF PointStep, SetIsolation, CreatePoint, RollbackPoint, ReleasePoint, Acknowledged
<1> DEFINE N == {}
<1>8. \A w : w \notin N OBVIOUS
<1> HIDE DEF N
<1>9. OneSave' /\ StmtsRunOnce' /\ SavesRunOnce' /\ ManagedIsAlone' /\ BeginIsManaged'
  BY <1>2, <1>6, <1>7, <1>8, GoneRest
<1> QED BY <1>1, <1>4, <1>5, <1>6, <1>9 DEF GoneInv

(* The parts of the invariant about the save in progress.                   *)
LEMMA GoneSaveRest ==
  ASSUME GoneInv, NEW s \in Saves, SaveStart(s) \/ SaveStep(s) \/ SaveCancel(s),
         HeldByItsOwn', DurableIsCommitted', SlotIsOpen',
         \A w \in Work : Written(w)' => Written(w) \/ (w = s /\ opc \in {"s_dml", "s_more"})
  PROVE  GoneInv'
<1> USE DEF InSave
<1>0. /\ s \in Work /\ Saves \subseteq Work /\ Stmts \subseteq Work /\ \A k \in Stmts : k # s
      /\ via \in [Work -> Handles \cup {NoHandle}] /\ osave \subseteq Saves
      /\ res \in [Work -> {"none", "ok", "err", "cancelled", "undone"}]
  BY NamesAssumption DEF Work, GoneInv, TypeOK, WorkType, OwnerType
<1>1. TypeOK' BY TypeSave DEF GoneInv
<1>2. UNCHANGED <<tpc, hpc, hop, active>>
  BY DEF SaveStart, SaveStep, SaveRoute, SaveAcquire, SaveBegin, SavePoint, SaveDml,
         SaveManagedEnd, SaveRollbackTo, SaveRelease, SaveCancel, handle
<1>3. StmtsRunOnce' BY <1>0, <1>2 DEF GoneInv, StmtsRunOnce
<1>4. LiveIsUndecided' BY <1>2 DEF GoneInv, LiveIsUndecided
<1>9. BeginIsManaged'
  BY DEF BeginIsManaged, SaveStart, SaveStep, SaveRoute, SaveAcquire, SaveBegin, SavePoint,
         SaveDml, SaveManagedEnd, SaveRollbackTo, SaveRelease, SaveCancel, SaveEnds
<1>5. CASE SaveStart(s)
  <2>1. osave = {} /\ UNCHANGED res /\ osave' = {s} /\ res[s] = "none" /\ opc' = "s_route"
        /\ scoped' = (active # NoHandle) /\ opc \notin {"s_dml", "s_more"}
    BY <1>5 DEF SaveStart, GoneInv, TypeOK, OwnerType
  <2>2. OneSave' /\ ManagedIsAlone' BY <1>2, <2>1 DEF OneSave, ManagedIsAlone
  <2>3. SavesRunOnce' BY <1>0, <2>1 DEF GoneInv, SavesRunOnce
  <2> QED BY <1>1, <1>3, <1>4, <1>9, <2>2, <2>3 DEF GoneInv
<1>6. CASE SaveStep(s) \/ SaveCancel(s)
  <2>1. s \in osave /\ \A r \in osave : r = s
    BY <1>6 DEF SaveStep, SaveRoute, SaveAcquire, SaveBegin, SavePoint, SaveDml, SaveManagedEnd,
       SaveRollbackTo, SaveRelease, SaveCancel, GoneInv, OneSave
  <2>2. CASE \E how \in {"ok", "err", "cancelled"} : SaveEnds(s, how)
    <3>1. osave' = {} /\ res'[s] # "none" /\ \A r \in Saves \ {s} : res'[r] = res[r]
      BY <1>0, <2>2 DEF SaveEnds
    <3>2. OneSave' /\ ManagedIsAlone' BY <3>1 DEF OneSave, ManagedIsAlone
    <3>3. SavesRunOnce' BY <1>0, <2>1, <3>1 DEF GoneInv, SavesRunOnce
    <3> QED BY <1>1, <1>3, <1>4, <1>9, <3>2, <3>3 DEF GoneInv
  <2>3. CASE UNCHANGED <<osave, scoped, res>> /\ opc' # "s_route"
             /\ (opc \in InSave => opc' \in InSave)
             /\ ((via' = via /\ opc # "s_route") \/ via' = [via EXCEPT ![s] = active])
    <3>1. OneSave' BY <2>3 DEF GoneInv, OneSave
    <3>2. ManagedIsAlone' BY <1>0, <1>2, <2>1, <2>3 DEF GoneInv, ManagedIsAlone
    <3>3. SavesRunOnce' BY <1>0, <2>1, <2>3 DEF GoneInv, SavesRunOnce
    <3> QED BY <1>1, <1>3, <1>4, <1>9, <3>1, <3>2, <3>3 DEF GoneInv
  <2>4. CASE SaveRoute(s) BY <2>3, <2>4 DEF SaveRoute
  <2>5. CASE SaveAcquire(s) \/ SaveBegin(s) \/ SavePoint(s)
    BY <2>2, <2>3, <2>5 DEF SaveAcquire, SaveBegin, SavePoint
  <2>6. CASE SaveDml(s) \/ SaveRollbackTo(s) BY <2>3, <2>6 DEF SaveDml, SaveRollbackTo
  <2>7. CASE SaveManagedEnd(s) \/ SaveRelease(s) \/ SaveCancel(s)
    BY <2>2, <2>7 DEF SaveManagedEnd, SaveRelease, SaveCancel
  <2> QED BY <1>6, <2>4, <2>5, <2>6, <2>7 DEF SaveStep
<1> QED BY <1>5, <1>6

(* A save works on the connection it holds, or on that of the slot it joined.*)
LEMMA GoneSaveOne ==
  ASSUME GoneInv, NEW s \in Saves, SaveStep(s) \/ SaveCancel(s), UNCHANGED via,
         NEW c \in Conns, SaveConn(s, c), AddsNothing(c),
         \/ holder[c] = Owner /\ (UNCHANGED holder \/ GiveBack(c))
         \/ /\ holder[c] # Owner /\ UNCHANGED <<holder, durable>>
            /\ txs[c] # "none" => txs'[c] # "none"
  PROVE  GoneInv'
<1>0. holder \in [Conns -> Holders] BY DEF GoneInv, TypeOK
<1>1. TypeOK' BY TypeSave DEF GoneInv
<1>2. UNCHANGED hop
  BY DEF SaveStep, SaveRoute, SaveAcquire, SaveBegin, SavePoint, SaveDml, SaveManagedEnd,
         SaveRollbackTo, SaveRelease, SaveCancel, handle
<1>3. \A d \in Conns \ {c} : holder'[d] = holder[d] BY <1>0 DEF GiveBack
<1>4. holder'[c] = holder[c] \/ (holder[c] = Owner /\ holder'[c] = Pool) BY <1>0 DEF GiveBack
<1>5. SlotIsOpen' BY <1>3, <1>4, HoldersDiffer DEF GoneInv, SlotIsOpen, AddsNothing
<1>6. /\ HeldByItsOwn' /\ DurableIsCommitted'
      /\ \A w \in Work : Written(w)' => Written(w)
  BY <1>1, <1>2, <1>3, <1>4, FreeHolders, GoneOne
<1> QED BY <1>5, <1>6, GoneSaveRest

LEMMA GoneSaveRun ==
  ASSUME GoneInv, NEW s \in Saves, SaveStep(s) \/ SaveCancel(s), UNCHANGED via,
         NEW c \in Conns, SaveConn(s, c), RunOk(c, s), opc \in {"s_dml", "s_more"},
         UNCHANGED holder \/ (holder[c] = Owner /\ GiveBack(c))
  PROVE  GoneInv'
<1>0. holder \in [Conns -> Holders] /\ s \in Work /\ via \in [Work -> Handles \cup {NoHandle}]
  BY DEF GoneInv, TypeOK, WorkType, Work
<1>1. TypeOK' BY TypeSave DEF GoneInv
<1>2. UNCHANGED hop
  BY DEF SaveStep, SaveRoute, SaveAcquire, SaveBegin, SavePoint, SaveDml, SaveManagedEnd,
         SaveRollbackTo, SaveRelease, SaveCancel, handle
<1>3. \A d \in Conns \ {c} : holder'[d] = holder[d] BY <1>0 DEF GiveBack
<1>4. \/ via[s] = NoHandle /\ Free(c)
      \/ via[s] \in Handles /\ holder[c] = Slot(via[s]) /\ UNCHANGED holder
  BY <1>0, FreeHolders, HoldersDiffer DEF SaveConn
<1>5. SlotIsOpen'
  <2>1. txs' = txs BY DEF RunOk
  <2>2. \A d \in Conns : holder'[d] = holder[d] \/ holder'[d] = Pool BY <1>0 DEF GiveBack
  <2> QED BY <2>1, <2>2, HoldersDiffer DEF GoneInv, SlotIsOpen
<1>6. /\ HeldByItsOwn' /\ DurableIsCommitted'
      /\ \A w \in Work : Written(w)' => Written(w) \/ w = s
  BY <1>0, <1>1, <1>2, <1>3, <1>4, GoneRun
<1> QED BY <1>5, <1>6, GoneSaveRest

(* No connection is touched, or one is borrowed from the pool.              *)
LEMMA GoneSaveNone ==
  ASSUME GoneInv, NEW s \in Saves, SaveStart(s) \/ SaveStep(s) \/ SaveCancel(s), UNCHANGED db,
         \A d \in Conns : holder'[d] = holder[d] \/ (holder[d] = Pool /\ holder'[d] = Owner),
         \A w \in Work : via'[w] = via[w] \/ ~Written(w)
  PROVE  GoneInv'
<1>1. TypeOK' BY TypeSave DEF GoneInv
<1>2. UNCHANGED hop
  BY DEF SaveStart, SaveStep, SaveRoute, SaveAcquire, SaveBegin, SavePoint, SaveDml,
         SaveManagedEnd, SaveRollbackTo, SaveRelease, SaveCancel, handle
<1>3. \A d \in Conns, w \in Work : Holds(d, w)' => Holds(d, w) BY DEF Holds, db
<1>4. SlotIsOpen' BY HoldersDiffer DEF GoneInv, SlotIsOpen, db
<1>5. /\ HeldByItsOwn' /\ DurableIsCommitted'
      /\ \A w \in Work : Written(w)' => Written(w)
  <2>1. \A w \in durable' : w \in durable BY DEF db
  <2>2. \A d \in Conns : holder'[d] = holder[d] \/ Free(d) BY FreeHolders
  <2> QED BY <1>1, <1>2, <1>3, <2>1, <2>2, GoneAddsNone
<1> QED BY <1>4, <1>5, GoneSaveRest

LEMMA GoneSave ==
  ASSUME GoneInv, SlotsAreKept, NEW s \in Saves, SaveStart(s) \/ SaveStep(s) \/ SaveCancel(s)
  PROVE  GoneInv'
<1>0. /\ holder \in [Conns -> Holders] /\ txs \in [Conns -> {"none", "open", "aborted"}]
      /\ via \in [Work -> Handles \cup {NoHandle}] /\ s \in Work /\ DbType
  BY DEF GoneInv, TypeOK, DbType, WorkType, Work
<1>1. CASE SaveStart(s) \/ SaveRoute(s) \/ SaveAcquire(s)
  <2>1. UNCHANGED db BY <1>1 DEF SaveStart, SaveRoute, SaveAcquire
  <2>2. \A d \in Conns : holder'[d] = holder[d] \/ (holder[d] = Pool /\ holder'[d] = Owner)
    BY <1>0, <1>1 DEF SaveStart, SaveRoute, SaveAcquire
  <2>3. \A w \in Work : via'[w] = via[w] \/ ~Written(w)
    <3>1. CASE SaveRoute(s)
      <4>1. ~Written(s) BY <3>1 DEF SaveRoute, GoneInv, SavesRunOnce, InSave
      <4> QED BY <1>0, <3>1, <4>1 DEF SaveRoute
    <3> QED BY <1>1, <3>1 DEF SaveStart, SaveAcquire
  <2> QED BY <1>1, <2>1, <2>2, <2>3, GoneSaveNone DEF SaveStep
<1>2. ASSUME UNCHANGED <<holder, via, db>>, SaveStep(s) \/ SaveCancel(s) PROVE GoneInv'
  BY <1>2, GoneSaveNone
<1>3. ASSUME NEW c \in Conns, holder[c] # Owner, RunFails(c)
      PROVE  AddsNothing(c) /\ UNCHANGED durable /\ (txs[c] # "none" => txs'[c] # "none")
  <2>1. UNCHANGED durable /\ (txs[c] # "none" => txs'[c] # "none")
    BY <1>0, <1>3 DEF RunFails, AbortsOnError, SlotsAreKept
  <2> QED BY <1>0, <1>3, <2>1, TxnAddsNothing
<1>4. ASSUME NEW c \in Conns, NEW a, EndTxn(c, a) PROVE AddsNothing(c)
  BY <1>0, <1>4, EndAddsNothing
<1>5. CASE SaveBegin(s)
  <2> PICK c \in Conns : /\ holder[c] = Owner /\ (OpenTxn(c) \/ OpenFails(c))
                         /\ UNCHANGED holder \/ GiveBack(c)
    BY <1>5 DEF SaveBegin
  <2>1. AddsNothing(c) BY <1>0, TxnAddsNothing
  <2>2. UNCHANGED via BY <1>5 DEF SaveBegin
  <2>3. SaveConn(s, c)
    BY <1>5, <2>2 DEF SaveConn, SaveBegin, GoneInv, ManagedIsAlone, BeginIsManaged
  <2> QED BY <1>5, <2>1, <2>2, <2>3, GoneSaveOne DEF SaveStep
<1>6. CASE SavePoint(s)
  <2>1. ASSUME NEW c \in Conns, SaveConn(s, c), SetMark(c, s) \/ PointFails(c, s, "savepoint"),
               IF via[s] = NoHandle THEN UNCHANGED holder \/ GiveBack(c) ELSE UNCHANGED holder
        PROVE  GoneInv'
    <3>1. AddsNothing(c)
          /\ (holder[c] # Owner => durable' = durable /\ (txs[c] # "none" => txs'[c] # "none"))
      BY <1>0, <2>1, MarkAddsNothing
    <3> QED BY <1>6, <2>1, <3>1, GoneSaveOne, HoldersDiffer DEF SaveStep, SaveConn, SavePoint
  <2>2. ASSUME NEW c \in Conns, SaveConn(s, c), UNCHANGED db, txs[c] = "none",
               IF via[s] = NoHandle THEN GiveBack(c) ELSE UNCHANGED holder
        PROVE  GoneInv'
    <3>1. AddsNothing(c) /\ UNCHANGED <<durable, txs>> BY <2>2 DEF AddsNothing, Holds, db
    <3> QED BY <1>6, <2>2, <3>1, GoneSaveOne DEF SaveStep, SaveConn, SavePoint
  <2>3. CASE UNCHANGED <<holder, db>> BY <1>2, <1>6, <2>3 DEF SaveStep, SavePoint
  <2> QED BY <1>6, <2>1, <2>2, <2>3 DEF SavePoint
<1>7. CASE SaveDml(s)
  <2>0. UNCHANGED <<holder, via>> /\ opc \in {"s_dml", "s_more"} BY <1>7 DEF SaveDml
  <2>1. ASSUME NEW c \in Conns, SaveConn(s, c), RunOk(c, s) PROVE GoneInv'
    BY <1>7, <2>0, <2>1, GoneSaveRun DEF SaveStep
  <2>2. ASSUME NEW c \in Conns, SaveConn(s, c), RunFails(c) PROVE GoneInv'
    <3>1. AddsNothing(c) BY <1>0, <2>2, TxnAddsNothing
    <3> QED BY <1>3, <1>7, <2>0, <2>2, <3>1, GoneSaveOne DEF SaveStep
  <2> QED BY <1>2, <1>7, <2>0, <2>1, <2>2 DEF SaveDml, SaveStep
<1>8. CASE SaveManagedEnd(s)
  <2> PICK c \in Conns : holder[c] = Owner /\ GiveBack(c) /\ \E a : EndTxn(c, a)
    BY <1>8 DEF SaveManagedEnd, CommitOk, CommitFails
  <2>1. UNCHANGED via /\ SaveConn(s, c)
    BY <1>8 DEF SaveConn, SaveManagedEnd, GoneInv, ManagedIsAlone
  <2> QED BY <1>4, <1>8, <2>1, GoneSaveOne DEF SaveStep
<1>9. CASE SaveRollbackTo(s) \/ SaveRelease(s)
  <2>0. UNCHANGED via BY <1>9 DEF SaveRollbackTo, SaveRelease
  <2>1. ASSUME NEW c \in Conns, SaveConn(s, c),
               RollbackToMark(c, s) \/ ReleaseMark(c, s) \/ \E f : PointFails(c, s, f),
               IF via[s] = NoHandle THEN UNCHANGED holder \/ GiveBack(c) ELSE UNCHANGED holder
        PROVE  GoneInv'
    <3>1. AddsNothing(c)
          /\ (holder[c] # Owner => durable' = durable /\ (txs[c] # "none" => txs'[c] # "none"))
      BY <1>0, <2>1, MarkAddsNothing
    <3> QED BY <1>9, <2>0, <2>1, <3>1, GoneSaveOne, HoldersDiffer DEF SaveStep, SaveConn
  <2>2. CASE UNCHANGED <<holder, db>> BY <1>2, <1>9, <2>0, <2>2 DEF SaveStep
  <2> QED BY <1>9, <2>1, <2>2 DEF SaveRollbackTo, SaveRelease
<1>10. CASE SaveCancel(s)
  <2>0. UNCHANGED via BY <1>10 DEF SaveCancel
  <2>1. CASE UNCHANGED <<holder, db>> BY <1>2, <1>10, <2>0, <2>1
  <2>2. ASSUME opc \notin {"s_route", "s_pool"}, NEW c \in Conns, SaveConn(s, c),
               (~scoped /\ \E a : EndTxn(c, a)) \/ InFlight(s, c),
               IF Provider # "sqlite" /\ via[s] # NoHandle THEN UNCHANGED holder ELSE GiveBack(c)
        PROVE  GoneInv'
    <3>1. ~scoped => via[s] = NoHandle
      BY <1>10, <2>2 DEF SaveCancel, GoneInv, ManagedIsAlone
    <3>2. Provider = "sqlite" => opc = "s_begin"
      BY <1>10, <2>2 DEF SaveCancel, SlotsAreKept
    <3>3. opc = "s_begin" => ~scoped BY DEF GoneInv, BeginIsManaged
    <3>4. IF via[s] = NoHandle THEN GiveBack(c) /\ holder[c] = Owner
          ELSE UNCHANGED holder /\ holder[c] = Slot(via[s]) /\ holder[c] # Owner
      BY <1>0, <2>2, <3>1, <3>2, <3>3, HoldersDiffer DEF SaveConn
    <3>5. ASSUME AddsNothing(c),
                 holder[c] # Owner => durable' = durable /\ (txs[c] # "none" => txs'[c] # "none")
          PROVE  GoneInv'
      BY <1>10, <2>0, <2>2, <3>4, <3>5, GoneSaveOne
    <3>6. CASE ~scoped /\ \E a : EndTxn(c, a) BY <1>4, <3>1, <3>4, <3>5, <3>6
    <3>7. CASE UNCHANGED db
      BY <1>0, <3>5, <3>7, TxnAddsNothing DEF db
    <3>8. CASE opc = "s_begin" /\ OpenTxn(c)
      BY <1>0, <3>1, <3>3, <3>4, <3>5, <3>8, TxnAddsNothing
    <3>9. CASE SetMark(c, s) \/ ReleaseMark(c, s) \/ RollbackToMark(c, s)
      BY <1>0, <3>5, <3>9, MarkAddsNothing
    <3>10. CASE opc \in {"s_dml", "s_more"} /\ RunOk(c, s)
      BY <1>10, <2>0, <2>2, <3>4, <3>10, GoneSaveRun
    <3>11. CASE ~scoped /\ CommitOk(c) BY <1>4, <3>1, <3>4, <3>5, <3>11 DEF CommitOk
    <3> QED BY <2>2, <3>6, <3>7, <3>8, <3>9, <3>10, <3>11 DEF InFlight
  <2> QED BY <1>10, <2>1, <2>2 DEF SaveCancel
<1> QED BY <1>1, <1>5, <1>6, <1>7, <1>8, <1>9, <1>10 DEF SaveStep

LEMMA GoneNext == SlotsAreKept /\ GoneInv /\ [Next]_vars => GoneInv'
<1> SUFFICES ASSUME SlotsAreKept, GoneInv, [Next]_vars PROVE GoneInv' OBVIOUS
<1>1. CASE Next
  BY <1>1, GoneStmt, GoneBegin, GoneSave, GoneHandle, GonePoint
     DEF Next, CallerStep, HandleCall, PointStep
<1>2. CASE UNCHANGED vars
  <2>1. TypeOK'
    BY <1>2 DEF vars, owner, handle, db, GoneInv, TypeOK, DbType, OwnerType, HandleType, WorkType
  <2>2. /\ \A c, w : Holds(c, w)' = Holds(c, w)
        /\ \A w : Written(w)' = Written(w)
    BY <1>2 DEF vars, db, Holds, Written
  <2> QED BY <1>2, <2>1, <2>2 DEF vars, owner, handle, db, GoneInv, OneSave, HeldByItsOwn,
          DurableIsCommitted, SlotIsOpen, StmtsRunOnce, SavesRunOnce, LiveIsUndecided,
          ManagedIsAlone, BeginIsManaged
<1> QED BY <1>1, <1>2

(* A rolled back or dropped transaction leaves nothing behind: not through  *)
(* its own connection, not through one that returned to the pool, whatever  *)
(* else fails, is dropped or overlaps, for every number of connections,     *)
(* tasks, saves and handles.                                                *)
THEOREM AbandonedStaysGone == SlotsAreKept => (Spec => []AbandonedIsGone)
<1> SUFFICES ASSUME SlotsAreKept PROVE Spec => []AbandonedIsGone OBVIOUS
<1>1. GoneInv /\ [Next]_vars => GoneInv' BY GoneNext
<1>2. GoneInv => AbandonedIsGone
  BY NamesAssumption DEF GoneInv, DurableIsCommitted, AbandonedIsGone
<1> QED BY GoneInit, <1>1, <1>2, PTL DEF Spec

-----------------------------------------------------------------------------
(* Who uses which transaction.  A handle that was not begun yet is known to *)
(* nobody; a transaction has at most one connection, in its slot or in the  *)
(* guard of commit and rollback, and none once its commit returned Ok; work *)
(* has a result when it has ended, and a commit or rollback when it is done.*)
Held(c, t) == holder[c] = Slot(t) \/ holder[c] = Taker(t)

ViaIsBegun == \A w \in Work : via[w] # NoHandle => hpc[via[w]] # "none"
ActiveIsBegun == active # NoHandle => hpc[active] # "none"
HeldIsBegun == \A c \in Conns, t \in Handles : Held(c, t) => hpc[t] # "none"
OneConn == \A c, d \in Conns, t \in Handles : Held(c, t) /\ Held(d, t) => c = d
StmtIsFresh == \A k \in Stmts : tpc[k] # "done" <=> res[k] = "none"
SaveIsFresh == \A s \in osave : res[s] = "none"
Undecided == \A t \in Handles : hpc[t] \in {"none", "live", "take", "exec"} => hres[t] = "none"
EndedHasNone == \A t \in Handles : hop[t] = "commit" /\ hres[t] = "ok" => \A c \in Conns : ~Held(c, t)

FrameInv ==
  /\ TypeOK /\ OneSave /\ ManagedIsAlone /\ BeginIsManaged
  /\ ViaIsBegun /\ ActiveIsBegun /\ HeldIsBegun /\ OneConn /\ StmtIsFresh /\ SaveIsFresh
  /\ Undecided /\ EndedHasNone

LEMMA FrameInit == Init => FrameInv
<1> SUFFICES ASSUME Init PROVE FrameInv OBVIOUS
<1>1. \A c \in Conns, t \in Handles : ~Held(c, t) BY HoldersDiffer DEF Init, Held
<1>2. HeldIsBegun /\ OneConn BY <1>1 DEF HeldIsBegun, OneConn
<1>3. ViaIsBegun /\ ActiveIsBegun BY DEF Init, ViaIsBegun, ActiveIsBegun
<1>4. StmtIsFresh /\ SaveIsFresh BY DEF Init, StmtIsFresh, SaveIsFresh, Work
<1>5. OneSave /\ ManagedIsAlone /\ BeginIsManaged BY DEF Init, OneSave, ManagedIsAlone, BeginIsManaged
<1>6. Undecided /\ EndedHasNone BY DEF Init, Undecided, EndedHasNone
<1> QED BY TypeInit, <1>2, <1>3, <1>4, <1>5, <1>6 DEF FrameInv

(* Connections come to a transaction only from BEGIN and from its own slot. *)
Keeps == \A c \in Conns, t \in Handles : Held(c, t)' => Held(c, t)

LEMMA KeepsOne ==
  ASSUME TypeOK,
         \/ UNCHANGED holder
         \/ \E c \in Conns : \/ GiveBack(c)
                             \/ holder' = [holder EXCEPT ![c] = Owner]
                             \/ \E k \in Stmts : holder' = [holder EXCEPT ![c] = User(k)]
                             \/ \E t \in Handles : holder[c] = Slot(t) /\ holder' = [holder EXCEPT ![c] = Taker(t)]
  PROVE  Keeps
<1> USE DEF TypeOK, Held, Keeps
<1>1. CASE UNCHANGED holder BY <1>1
<1>2. ASSUME NEW c \in Conns, NEW h, holder' = [holder EXCEPT ![c] = h],
             \A t \in Handles : h # Slot(t), \A t \in Handles : h = Taker(t) => holder[c] = Slot(t)
      PROVE  Keeps
  BY <1>2
<1> QED BY <1>1, <1>2, HoldersDiffer, SlotsDiffer DEF GiveBack

LEMMA FrameKeeps ==
  ASSUME FrameInv, TypeOK', Keeps,
         \A t \in Handles : hpc[t] # "none" => hpc'[t] # "none",
         active' \in {active, NoHandle},
         \A w \in Work : via'[w] \in {via[w], active}
  PROVE  ViaIsBegun' /\ ActiveIsBegun' /\ HeldIsBegun' /\ OneConn'
<1>1. /\ via \in [Work -> Handles \cup {NoHandle}] /\ active \in Handles \cup {NoHandle}
      /\ via' \in [Work -> Handles \cup {NoHandle}] /\ active' \in Handles \cup {NoHandle}
  BY DEF FrameInv, TypeOK, WorkType
<1>2. ViaIsBegun' BY <1>1 DEF FrameInv, ViaIsBegun, ActiveIsBegun
<1>3. ActiveIsBegun' BY <1>1 DEF FrameInv, ActiveIsBegun
<1>4. HeldIsBegun' /\ OneConn' BY DEF FrameInv, HeldIsBegun, OneConn, Keeps
<1> QED BY <1>2, <1>3, <1>4

LEMMA FrameEnds ==
  ASSUME FrameInv, Keeps,
         \A t \in Handles : hpc'[t] = hpc[t] /\ hop'[t] = hop[t] /\ hres'[t] = hres[t]
  PROVE  Undecided' /\ EndedHasNone'
  BY DEF FrameInv, Undecided, EndedHasNone, Keeps

LEMMA FrameStmt ==
  ASSUME FrameInv, NEW k \in Stmts, StmtStart(k) \/ StmtStep(k) \/ StmtCancel(k)
  PROVE  FrameInv'
<1> USE DEF StmtStart, StmtStep, StmtRoute, StmtAcquire, StmtLockSlot, StmtRun, StmtCancel, StmtEnds
<1>0. /\ k \in Work /\ k \notin Saves /\ Saves \subseteq Work /\ osave \subseteq Saves
      /\ tpc \in [Stmts -> {"idle", "route", "pool", "slot", "run", "done"}]
      /\ via \in [Work -> Handles \cup {NoHandle}]
      /\ res \in [Work -> {"none", "ok", "err", "cancelled", "undone"}]
  BY NamesAssumption DEF FrameInv, TypeOK, OwnerType, WorkType, Work
<1>1. TypeOK' BY TypeStmt DEF FrameInv
<1>2. UNCHANGED <<opc, osave, scoped, active, hpc, hop, hres>> BY DEF owner, handle
<1>3. Keeps BY KeepsOne DEF FrameInv
<1>9. Undecided' /\ EndedHasNone' BY <1>2, <1>3, FrameEnds
<1>4. \A w \in Work : via'[w] \in {via[w], active} BY <1>0
<1>5. StmtIsFresh' BY <1>0 DEF FrameInv, StmtIsFresh, Work
<1>6. SaveIsFresh' BY <1>0, <1>2 DEF FrameInv, SaveIsFresh
<1>7. OneSave' /\ BeginIsManaged' BY <1>2 DEF FrameInv, OneSave, BeginIsManaged
<1>8. ManagedIsAlone' BY <1>0, <1>2 DEF FrameInv, ManagedIsAlone
<1> QED BY <1>1, <1>2, <1>3, <1>4, <1>5, <1>6, <1>7, <1>8, <1>9, FrameKeeps DEF FrameInv

LEMMA FrameBegin ==
  ASSUME FrameInv, BeginLock \/ BeginStep \/ BeginCancel
  PROVE  FrameInv'
<1>1. TypeOK' BY TypeBegin DEF FrameInv
<1>2. UNCHANGED <<osave, scoped, tpc, via, res, hop, hres>> /\ osave = {}
  BY DEF BeginLock, BeginStep, BeginAcquire, BeginOk, BeginFails, BeginCancel, handle, FrameInv, TypeOK, OwnerType
<1>3. OneSave' /\ ManagedIsAlone' /\ BeginIsManaged' /\ StmtIsFresh' /\ SaveIsFresh'
  <2>1. opc' # "s_begin" BY DEF BeginLock, BeginStep, BeginAcquire, BeginOk, BeginFails, BeginCancel
  <2> QED BY <1>2, <2>1 DEF FrameInv, OneSave, ManagedIsAlone, BeginIsManaged, StmtIsFresh, SaveIsFresh
<1>4. CASE BeginLock \/ BeginAcquire \/ BeginFails \/ BeginCancel
  <2>1. Keeps /\ UNCHANGED <<active, hpc>>
    BY <1>4, KeepsOne DEF BeginLock, BeginAcquire, BeginFails, BeginCancel, handle, FrameInv
  <2> QED BY <1>1, <1>2, <1>3, <2>1, FrameKeeps, FrameEnds DEF FrameInv
<1>5. ASSUME NEW t \in Handles, BeginOk(t) PROVE FrameInv'
  <2> PICK c \in Conns : holder[c] = Owner /\ holder' = [holder EXCEPT ![c] = Slot(t)]
    BY <1>5 DEF BeginOk
  <2>1. hpc[t] = "none" /\ active' = t /\ hpc' = [hpc EXCEPT ![t] = "live"] BY <1>5 DEF BeginOk
  <2>2. /\ holder \in [Conns -> Holders] /\ via \in [Work -> Handles \cup {NoHandle}]
        /\ hpc \in [Handles -> {"none", "live", "take", "exec", "clear", "drop", "try", "done"}]
    BY DEF FrameInv, TypeOK, HandleType, WorkType
  <2>3. hpc'[t] = "live" /\ \A u \in Handles : hpc[u] # "none" => hpc'[u] # "none" BY <2>1, <2>2
  <2>4. ViaIsBegun' /\ ActiveIsBegun' BY <1>2, <2>1, <2>2, <2>3 DEF FrameInv, ViaIsBegun, ActiveIsBegun
  <2>5. \A d \in Conns, u \in Handles : Held(d, u)' => (Held(d, u) /\ u # t) \/ (d = c /\ u = t)
    <3>1. \A d \in Conns : ~Held(d, t) BY <2>1 DEF FrameInv, HeldIsBegun
    <3>2. \A d \in Conns : d # c => holder'[d] = holder[d] BY <2>2
    <3>3. holder'[c] = Slot(t) BY <2>2
    <3> QED BY <3>1, <3>2, <3>3, SlotsDiffer DEF Held
  <2>6. HeldIsBegun' /\ OneConn' BY <2>3, <2>5 DEF FrameInv, HeldIsBegun, OneConn
  <2>7. hres[t] = "none" BY <2>1 DEF FrameInv, Undecided
  <2>8. Undecided' BY <1>2, <2>1, <2>2, <2>7 DEF FrameInv, Undecided
  <2>9. EndedHasNone' BY <1>2, <2>5, <2>7 DEF FrameInv, EndedHasNone
  <2> QED BY <1>1, <1>3, <2>4, <2>6, <2>8, <2>9 DEF FrameInv
<1> QED BY <1>4, <1>5 DEF BeginStep

LEMMA FrameSave ==
  ASSUME FrameInv, NEW s \in Saves, SaveStart(s) \/ SaveStep(s) \/ SaveCancel(s)
  PROVE  FrameInv'
<1>0. /\ s \in Work /\ osave \subseteq Saves /\ Saves \subseteq Work
      /\ via \in [Work -> Handles \cup {NoHandle}]
      /\ res \in [Work -> {"none", "ok", "err", "cancelled", "undone"}]
      /\ s \notin Stmts /\ Stmts \subseteq Work
  BY NamesAssumption DEF FrameInv, TypeOK, OwnerType, WorkType, Work
<1>1. TypeOK' BY TypeSave DEF FrameInv
<1> USE DEF SaveStart, SaveStep, SaveRoute, SaveAcquire, SaveBegin, SavePoint, SaveDml, SaveManagedEnd,
            SaveRollbackTo, SaveRelease, SaveCancel, SaveEnds
<1>2. UNCHANGED <<active, hpc, hop, hres, tpc>> BY DEF handle
<1>3. Keeps BY KeepsOne DEF FrameInv
<1>11. Undecided' /\ EndedHasNone' BY <1>2, <1>3, FrameEnds
<1>4. \A w \in Work : via'[w] \in {via[w], active} BY <1>0
<1>5. StmtIsFresh' BY <1>0, <1>2 DEF FrameInv, StmtIsFresh
<1>6. \/ /\ osave = {} /\ osave' = {s} /\ res' = res /\ res[s] = "none"
         /\ opc' = "s_route" /\ scoped' = (active # NoHandle)
      \/ osave' = {}
      \/ /\ UNCHANGED <<osave, scoped, res>> /\ s \in osave /\ opc' # "s_route"
         /\ (opc # "s_route" /\ via' = via) \/ via' = [via EXCEPT ![s] = active]
  BY DEF FrameInv, TypeOK, OwnerType
<1>7. OneSave' BY <1>6 DEF FrameInv, OneSave
<1>8. SaveIsFresh' BY <1>6 DEF FrameInv, SaveIsFresh
<1>9. ManagedIsAlone'
  <2>1. CASE osave' = {} \/ (opc' = "s_route" /\ scoped' = (active # NoHandle))
    BY <1>2, <2>1 DEF ManagedIsAlone
  <2>2. CASE UNCHANGED <<osave, scoped>> /\ s \in osave /\ opc' # "s_route" /\ opc # "s_route" /\ via' = via
    BY <1>2, <2>2 DEF FrameInv, ManagedIsAlone
  <2>3. CASE UNCHANGED <<osave, scoped>> /\ s \in osave /\ via' = [via EXCEPT ![s] = active]
    BY <1>0, <1>2, <2>3 DEF FrameInv, ManagedIsAlone, OneSave
  <2> QED BY <1>6, <2>1, <2>2, <2>3
<1>10. BeginIsManaged' BY <1>0 DEF FrameInv, BeginIsManaged
<1> QED BY <1>1, <1>2, <1>3, <1>4, <1>5, <1>7, <1>8, <1>9, <1>10, <1>11, FrameKeeps DEF FrameInv

LEMMA FrameHandle ==
  ASSUME FrameInv, NEW t \in Handles,
         HandleCall(t) \/ HandleStep(t) \/ BackgroundStep(t) \/ PointStep(t)
  PROVE  FrameInv'
<1>1. TypeOK' BY TypeHandle, TypePoint DEF FrameInv
<1> USE DEF HandleCall, HandleCommit, HandleRollback, HandleDrop, HandleTake, HandleCancel,
            HandleStep, TakeConn, Finish, ClearSession, DropClearNow, DropTryTake,
            BackgroundStep, BackgroundRollback, BackgroundClear, SharedTxnDrop, Discard
<1>2. UNCHANGED <<opc, osave, scoped, tpc, via>> /\ active' \in {active, NoHandle}
  BY DEF PointStep, SetIsolation, CreatePoint, RollbackPoint, ReleasePoint, owner
<1>3. Keeps BY KeepsOne DEF PointStep, SetIsolation, CreatePoint, RollbackPoint, ReleasePoint, FrameInv
<1>4. \A u \in Handles : hpc[u] # "none" => hpc'[u] # "none"
  BY DEF PointStep, SetIsolation, CreatePoint, RollbackPoint, ReleasePoint, handle, FrameInv, TypeOK, HandleType
<1>5. \A w \in Work : res[w] = "none" <=> res'[w] = "none"
  BY DEF PointStep, SetIsolation, CreatePoint, RollbackPoint, ReleasePoint, Acknowledged
<1>6. Stmts \subseteq Work /\ osave \subseteq Work BY DEF FrameInv, TypeOK, OwnerType, Work
<1>7. OneSave' /\ ManagedIsAlone' /\ BeginIsManaged' /\ StmtIsFresh' /\ SaveIsFresh'
  BY <1>2, <1>5, <1>6, NamesAssumption
     DEF FrameInv, OneSave, ManagedIsAlone, BeginIsManaged, StmtIsFresh, SaveIsFresh
<1>8. /\ hpc \in [Handles -> {"none", "live", "take", "exec", "clear", "drop", "try", "done"}]
      /\ hop \in [Handles -> {"none", "commit", "rollback", "drop"}]
      /\ hres \in [Handles -> {"none", "ok", "err", "cancelled"}] /\ holder \in [Conns -> Holders]
  BY DEF FrameInv, TypeOK, HandleType
<1>9. Undecided'
  BY <1>8 DEF FrameInv, Undecided, PointStep, SetIsolation, CreatePoint, RollbackPoint, ReleasePoint, handle
<1>10. EndedHasNone'
  <2>1. ASSUME NEW u \in Handles, hop'[u] = "commit", hres'[u] = "ok", NEW d \in Conns, Held(d, u)'
        PROVE  FALSE
    <3>1. Held(d, u) BY <1>3, <2>1 DEF Keeps
    <3>2. CASE hop[u] = "commit" /\ hres[u] = "ok" BY <3>1, <3>2 DEF FrameInv, EndedHasNone
    <3>3. CASE u = t /\ Finish(t)
      <4>1. PICK c \in Conns : holder[c] = Taker(t) /\ GiveBack(c) BY <3>3
      <4>2. c = d BY <3>1, <3>3, <4>1 DEF Held, FrameInv, OneConn
      <4> QED BY <1>8, <2>1, <4>1, <4>2, HoldersDiffer DEF Held, GiveBack
    <3>4. CASE u # t
      <4>1. hop'[u] = hop[u] /\ hres'[u] = hres[u]
        BY <1>8, <3>4 DEF PointStep, SetIsolation, CreatePoint, RollbackPoint, ReleasePoint, handle
      <4> QED BY <2>1, <3>2, <4>1
    <3>5. CASE u = t /\ ~Finish(t) /\ hpc[t] = "live"
      <4>1. hres'[t] = hres[t] /\ hres[t] = "none"
        BY <1>8, <3>5 DEF PointStep, SetIsolation, CreatePoint, RollbackPoint, ReleasePoint, handle,
                          FrameInv, Undecided
      <4> QED BY <2>1, <3>5, <4>1
    <3>6. CASE u = t /\ ~Finish(t) /\ hpc[t] # "live"
      <4>1. hop'[t] = hop[t] /\ (hres'[t] = hres[t] \/ hres'[t] \in {"err", "cancelled"})
        BY <1>8, <3>6 DEF PointStep, SetIsolation, CreatePoint, RollbackPoint, ReleasePoint, handle
      <4> QED BY <2>1, <3>2, <3>6, <4>1
    <3> QED BY <3>3, <3>4, <3>5, <3>6
  <2> QED BY <2>1 DEF EndedHasNone
<1> QED BY <1>1, <1>2, <1>3, <1>4, <1>7, <1>9, <1>10, FrameKeeps DEF FrameInv

LEMMA FrameNext == FrameInv /\ [Next]_vars => FrameInv'
<1> SUFFICES ASSUME FrameInv, [Next]_vars PROVE FrameInv' OBVIOUS
<1>1. CASE Next
  BY <1>1, FrameStmt, FrameBegin, FrameSave, FrameHandle DEF Next, CallerStep, HandleCall, PointStep
<1>2. CASE UNCHANGED vars
  <2> USE <1>2 DEF vars, owner, handle, db, FrameInv
  <2>1. TypeOK' BY DEF TypeOK, DbType, OwnerType, HandleType, WorkType
  <2>2. ViaIsBegun' /\ ActiveIsBegun' BY DEF ViaIsBegun, ActiveIsBegun
  <2>3. HeldIsBegun' /\ OneConn' BY DEF HeldIsBegun, Held, OneConn
  <2>4. OneSave' /\ ManagedIsAlone' /\ BeginIsManaged' /\ StmtIsFresh' /\ SaveIsFresh'
    BY DEF OneSave, ManagedIsAlone, BeginIsManaged, StmtIsFresh, SaveIsFresh
  <2>5. Undecided' /\ EndedHasNone' BY DEF Undecided, EndedHasNone, Held
  <2> QED BY <2>1, <2>2, <2>3, <2>4, <2>5
<1> QED BY <1>1, <1>2

-----------------------------------------------------------------------------
(* What a commit makes durable, with calls that overlap and futures that    *)
(* are dropped anywhere.  Left out are savepoints of the handle's holder    *)
(* (rollback_point during a save takes the beginning of that save with it), *)
(* and, on PostgreSQL, two failures that abort the transaction while the    *)
(* work they belong to counts as done: RELEASE, whose error a save ignores, *)
(* and set_isolation.                                                       *)
CommitSafe == /\ Points = {}
              /\ Provider = "postgres" => {"release", "isolation"} \cap Faults = {}

(* Why it holds: until some piece of its work fails, the connection of a    *)
(* transaction is inside it, has all the work that is done, and, as soon as *)
(* there is some, is not aborted.  A save's work is done when its last      *)
(* statement succeeded, and has failed as soon as it is being undone; its   *)
(* savepoint is there until the RELEASE.                                    *)
Failed(w) == res[w] \in {"err", "cancelled", "undone"} \/ (w \in osave /\ opc \in {"s_undo", "s_undone"})
Succeeded(w) == res[w] = "ok" \/ (w \in osave /\ opc = "s_end")
Doomed(t) == \E w \in Work : via[w] = t /\ Failed(w)
Done(t) == {w \in Work : via[w] = t /\ Succeeded(w)}

Kept == \A c \in Conns, t \in Handles : Held(c, t) /\ ~Doomed(t) =>
  txs[c] # "none" /\ Done(t) \subseteq pending[c] /\ (Done(t) # {} => txs[c] = "open")
Ended == \A t \in Handles : hop[t] = "commit" /\ hres[t] = "ok" => Doomed(t) \/ Done(t) \subseteq durable
JoinedMark == Provider = "postgres" /\ opc \in {"s_dml", "s_more", "s_end"} =>
  \A s \in osave, c \in Conns : via[s] # NoHandle /\ Held(c, via[s]) => HasMark(c, s)

CommitInv == FrameInv /\ Kept /\ Ended /\ JoinedMark

LEMMA CommitInit == Init => CommitInv
<1> SUFFICES ASSUME Init PROVE CommitInv OBVIOUS
<1>1. \A c \in Conns, t \in Handles : ~Held(c, t) BY HoldersDiffer DEF Init, Held
<1>2. Kept BY <1>1 DEF Kept
<1>3. Ended /\ JoinedMark BY DEF Init, Ended, JoinedMark
<1> QED BY FrameInit, <1>2, <1>3 DEF CommitInv

LEMMA CommitImplies == CommitInv => CommittedIsDurable
<1> SUFFICES ASSUME CommitInv, NEW t \in Handles, hop[t] = "commit", hres[t] = "ok",
                    \A w \in Work : via[w] = t => res[w] = "ok",
                    NEW w \in Work, via[w] = t
             PROVE  w \in durable
  BY DEF CommittedIsDurable
<1>1. ~Doomed(t) BY DEF Doomed, Failed, CommitInv, FrameInv, SaveIsFresh
<1>2. w \in Done(t) BY DEF Done, Succeeded
<1> QED BY <1>1, <1>2 DEF CommitInv, Ended

(* What an operation does to the connections it is not run on, and what it  *)
(* keeps of the one it is run on.                                           *)
LEMMA DbOne ==
  ASSUME DbType, NEW c \in Conns,
         \/ (\E w : RunOk(c, w)) \/ RunFails(c) \/ CommitOk(c) \/ CommitFails(c)
         \/ (\E a : EndTxn(c, a)) \/ OpenTxn(c) \/ OpenFails(c) \/ UNCHANGED db
         \/ \E n : \/ SetMark(c, n) \/ RollbackToMark(c, n) \/ ReleaseMark(c, n)
                  \/ \E f : PointFails(c, n, f)
  PROVE  SameButFor(c) /\ durable \subseteq durable'
<1> USE DEF SameButFor
<1>0. /\ txs \in [Conns -> {"none", "open", "aborted"}] /\ pending \in [Conns -> SUBSET Work]
      /\ mark \in [Conns -> Seq(MarkEntry)]
  BY DEF DbType, MarkEntry
<1>1. ASSUME NEW a, EndTxn(c, a) PROVE SameButFor(c) /\ durable \subseteq durable'
  BY <1>0, <1>1 DEF EndTxn
<1>2. ASSUME NEW w, RunOk(c, w) PROVE SameButFor(c) /\ durable \subseteq durable'
  BY <1>0, <1>2 DEF RunOk
<1>3. CASE RunFails(c) \/ CommitOk(c) \/ CommitFails(c)
  BY <1>0, <1>1, <1>3 DEF RunFails, CommitOk, CommitFails, AbortsOnError
<1>4. CASE OpenTxn(c) \/ OpenFails(c) \/ UNCHANGED db
  BY <1>0, <1>4 DEF OpenTxn, OpenFails, db
<1>5. ASSUME NEW n, SetMark(c, n) PROVE SameButFor(c) /\ durable \subseteq durable'
  BY <1>0, <1>5 DEF SetMark, AddMark, db
<1>6. ASSUME NEW n, RollbackToMark(c, n) PROVE SameButFor(c) /\ durable \subseteq durable'
  BY <1>0, <1>6 DEF RollbackToMark
<1>7. ASSUME NEW n, ReleaseMark(c, n) PROVE SameButFor(c) /\ durable \subseteq durable'
  <2>1. ASSUME NEW i, mark' = [mark EXCEPT ![c] = SubSeq(@, 1, i - 1)],
               UNCHANGED <<txs, pending, durable>>
        PROVE  SameButFor(c) /\ durable \subseteq durable'
    BY <1>0, <2>1
  <2> QED BY <1>1, <1>7, <2>1 DEF ReleaseMark
<1>8. ASSUME NEW n, NEW f, PointFails(c, n, f) PROVE SameButFor(c) /\ durable \subseteq durable'
  BY <1>0, <1>8 DEF PointFails, AbortsOnError
<1> QED BY <1>1, <1>2, <1>3, <1>4, <1>5, <1>6, <1>7, <1>8

Grows(c) == /\ pending[c] \subseteq pending'[c]
            /\ txs[c] # "none" => txs'[c] # "none"
            /\ txs[c] = "open" => txs'[c] = "open"

(* A step after which no transaction has a connection it had not before,    *)
(* that keeps what is on it, and adds to the work done only what it has.    *)
LEMMA CommitKeeps ==
  ASSUME CommitInv, Keeps,
         \A t \in Handles : Doomed(t) => Doomed(t)',
         \A t \in Handles, w \in Work : w \in Done(t)' =>
           \/ w \in Done(t) \/ Doomed(t)'
           \/ \E c \in Conns : holder[c] = Slot(t) /\ w \in pending'[c] /\ txs'[c] = "open",
         \A c \in Conns, t \in Handles : Held(c, t)' /\ Held(c, t) /\ ~Doomed(t)' => Grows(c),
         durable \subseteq durable',
         \A t \in Handles : hop'[t] = "commit" /\ hres'[t] = "ok" => hop[t] = "commit" /\ hres[t] = "ok"
  PROVE  Kept' /\ Ended'
<1>1. Kept'
  <2> SUFFICES ASSUME NEW c \in Conns, NEW t \in Handles, Held(c, t)', ~Doomed(t)'
               PROVE  /\ txs'[c] # "none" /\ (Done(t) \subseteq pending[c])'
                      /\ Done(t)' # {} => txs'[c] = "open"
    BY DEF Kept
  <2>1. Held(c, t) /\ ~Doomed(t) /\ Grows(c) BY DEF Keeps
  <2>2. txs[c] # "none" /\ Done(t) \subseteq pending[c] /\ (Done(t) # {} => txs[c] = "open")
    BY <2>1 DEF CommitInv, Kept
  <2>3. ASSUME NEW w \in Work, w \in Done(t)' PROVE w \in pending'[c] /\ txs'[c] = "open"
    <3>1. CASE w \in Done(t) BY <2>1, <2>2, <3>1 DEF Grows
    <3>2. ASSUME NEW d \in Conns, holder[d] = Slot(t), w \in pending'[d], txs'[d] = "open"
          PROVE  w \in pending'[c] /\ txs'[c] = "open"
      BY <2>1, <3>2 DEF Held, CommitInv, FrameInv, OneConn
    <3> QED BY <2>3, <3>1, <3>2
  <2>4. (Done(t) \subseteq Work)' BY DEF Done
  <2> QED BY <2>1, <2>2, <2>3, <2>4 DEF Grows
<1>2. Ended'
  <2> SUFFICES ASSUME NEW t \in Handles, hop'[t] = "commit", hres'[t] = "ok"
               PROVE  Doomed(t)' \/ (Done(t) \subseteq durable)'
    BY DEF Ended
  <2>1. (\A c \in Conns : ~Held(c, t)) /\ (Doomed(t) \/ Done(t) \subseteq durable)
    BY DEF CommitInv, Ended, FrameInv, EndedHasNone
  <2>3. ASSUME ~Doomed(t)', NEW w \in Work, w \in Done(t)' PROVE w \in durable'
    <3>1. w \in Done(t) BY <2>1, <2>3 DEF Held
    <3> QED BY <2>1, <2>3, <3>1
  <2>4. (Done(t) \subseteq Work)' BY DEF Done
  <2> QED BY <2>3, <2>4
<1> QED BY <1>1, <1>2

(* The savepoint of a joined save, in a step of somebody else.              *)
LEMMA JoinedStays ==
  ASSUME CommitInv, Keeps, UNCHANGED <<opc, osave>>, \A s \in Saves : via'[s] = via[s],
         Provider = "postgres" => \A c \in Conns, t \in Handles : Held(c, t)' => mark'[c] = mark[c]
  PROVE  JoinedMark'
<1>1. osave \subseteq Saves /\ \A s \in Saves : via[s] \in Handles \cup {NoHandle}
  BY DEF CommitInv, FrameInv, TypeOK, OwnerType, WorkType, Work
<1> SUFFICES ASSUME Provider = "postgres", opc \in {"s_dml", "s_more", "s_end"},
                    NEW s \in osave, NEW c \in Conns, via[s] # NoHandle, Held(c, via[s])'
             PROVE  HasMark(c, s)'
  BY <1>1 DEF JoinedMark
<1>2. via[s] \in Handles /\ via'[s] = via[s] BY <1>1
<1>3. Held(c, via[s]) /\ mark'[c] = mark[c] BY <1>2 DEF Keeps, Held
<1>4. HasMark(c, s) BY <1>3 DEF CommitInv, JoinedMark
<1> QED BY <1>3, <1>4 DEF HasMark

LEMMA CommitStmt ==
  ASSUME CommitInv, NEW k \in Stmts, StmtStart(k) \/ StmtStep(k) \/ StmtCancel(k)
  PROVE  CommitInv'
<1> USE DEF StmtStart, StmtStep, StmtRoute, StmtAcquire, StmtLockSlot, StmtRun, StmtCancel, StmtEnds
<1>0. /\ k \in Work /\ k \notin Saves /\ osave \subseteq Saves /\ Saves \subseteq Work
      /\ holder \in [Conns -> Holders] /\ DbType
      /\ via \in [Work -> Handles \cup {NoHandle}] /\ via' \in [Work -> Handles \cup {NoHandle}]
      /\ res \in [Work -> {"none", "ok", "err", "cancelled", "undone"}]
  BY NamesAssumption, TypeStmt DEF CommitInv, FrameInv, TypeOK, OwnerType, WorkType, Work
<1>1. FrameInv' BY FrameStmt DEF CommitInv
<1>2. UNCHANGED <<opc, osave, hpc, hop, hres>> BY DEF owner, handle
<1>3. Keeps BY KeepsOne DEF CommitInv, FrameInv
<1>4. res[k] = "none" BY DEF CommitInv, FrameInv, StmtIsFresh
<1>5. /\ \A w \in Work \ {k} : via'[w] = via[w] /\ res'[w] = res[w]
      /\ tpc[k] = "run" => via' = via
  BY <1>0
<1>6. \A t \in Handles : Doomed(t) => Doomed(t)'
  <2> SUFFICES ASSUME NEW t \in Handles, NEW w \in Work, via[w] = t, Failed(w)
               PROVE  via'[w] = t /\ Failed(w)'
    BY DEF Doomed
  <2>1. w # k BY <1>0, <1>4 DEF Failed
  <2> QED BY <1>2, <1>5, <2>1 DEF Failed
<1>7. \A t \in Handles, w \in Work : w \in Done(t)' =>
        w \in Done(t) \/ (w = k /\ res'[k] = "ok" /\ via'[k] = t)
  BY <1>0, <1>2, <1>5 DEF Done, Succeeded
<1>8. ASSUME UNCHANGED db, res'[k] # "ok" PROVE CommitInv'
  <2>1. \A c \in Conns : Grows(c) /\ mark'[c] = mark[c] BY <1>8 DEF Grows, db
  <2>2. Kept' /\ Ended' BY <1>2, <1>3, <1>6, <1>7, <1>8, <2>1, CommitKeeps DEF db
  <2>3. JoinedMark' BY <1>0, <1>2, <1>3, <1>5, <2>1, JoinedStays
  <2> QED BY <1>1, <1>2, <2>2, <2>3 DEF CommitInv
<1>9. ASSUME tpc[k] = "run", NEW c \in Conns, StmtConn(k, c),
             \/ RunOk(c, k) /\ res'[k] \in {"ok", "cancelled"}
             \/ RunFails(c) /\ res'[k] = "err"
      PROVE  CommitInv'
  <2>1. SameButFor(c) /\ durable \subseteq durable' BY <1>0, <1>9, DbOne
  <2>2. ASSUME NEW t \in Handles, Held(c, t)
        PROVE  via[k] = t /\ holder[c] = Slot(t)
    BY <1>0, <1>9, <2>2, HoldersDiffer, SlotsDiffer DEF StmtConn, Held
  <2>3. ASSUME NEW t \in Handles, Held(c, t), ~Doomed(t)'
        PROVE  Grows(c) /\ (res'[k] = "ok" => k \in pending'[c] /\ txs'[c] = "open")
    <3>1. via'[k] = t BY <1>5, <1>9, <2>2, <2>3
    <3>2. RunOk(c, k) BY <1>0, <1>9, <2>3, <3>1 DEF Doomed, Failed
    <3>3. txs[c] = "open" BY <1>0, <1>6, <2>3, <3>2 DEF CommitInv, Kept, RunOk, DbType
    <3>4. txs' = txs /\ pending' = [pending EXCEPT ![c] = @ \cup {k}] BY <3>2, <3>3 DEF RunOk
    <3>5. pending'[c] = pending[c] \cup {k} BY <1>0, <3>4 DEF DbType
    <3> QED BY <3>3, <3>4, <3>5 DEF Grows
  <2>4. \A d \in Conns, t \in Handles : Held(d, t)' /\ Held(d, t) /\ ~Doomed(t)' => Grows(d)
    BY <2>1, <2>3 DEF SameButFor, Grows
  <2>5. ASSUME NEW t \in Handles, res'[k] = "ok", via'[k] = t, ~Doomed(t)'
        PROVE  \E d \in Conns : holder[d] = Slot(t) /\ k \in pending'[d] /\ txs'[d] = "open"
    <3>1. via[k] = t /\ t # NoHandle BY <1>5, <1>9, <2>5, NamesAssumption
    <3>2. holder[c] = Slot(t) BY <1>9, <3>1 DEF StmtConn
    <3> QED BY <2>3, <2>5, <3>2 DEF Held
  <2>6. Kept' /\ Ended' BY <1>2, <1>3, <1>6, <1>7, <2>1, <2>4, <2>5, CommitKeeps
  <2>7. Provider = "postgres" => mark' = mark BY <1>9 DEF RunOk, RunFails
  <2>8. JoinedMark' BY <1>0, <1>2, <1>3, <1>5, <2>7, JoinedStays
  <2> QED BY <1>1, <1>2, <2>6, <2>8 DEF CommitInv
<1>10. CASE StmtStart(k) \/ StmtRoute(k) \/ StmtAcquire(k) \/ StmtLockSlot(k)
  BY <1>0, <1>4, <1>8, <1>10
<1>11. CASE StmtRun(k)
  <2> PICK c \in Conns : StmtConn(k, c) /\ ((RunOk(c, k) /\ StmtEnds(k, "ok")) \/ (RunFails(c) /\ StmtEnds(k, "err")))
    BY <1>11
  <2> QED BY <1>0, <1>9, <1>11
<1>12. CASE StmtCancel(k)
  <2> PICK c \in Conns : StmtConn(k, c) /\ (RunOk(c, k) \/ UNCHANGED db)
    BY <1>12
  <2> QED BY <1>0, <1>8, <1>9, <1>12
<1> QED BY <1>10, <1>11, <1>12

LEMMA CommitBegin ==
  ASSUME CommitInv, BeginLock \/ BeginStep \/ BeginCancel
  PROVE  CommitInv'
<1>0. /\ holder \in [Conns -> Holders] /\ DbType
      /\ via \in [Work -> Handles \cup {NoHandle}]
      /\ hpc \in [Handles -> {"none", "live", "take", "exec", "clear", "drop", "try", "done"}]
  BY DEF CommitInv, FrameInv, TypeOK, HandleType, WorkType
<1>1. FrameInv' BY FrameBegin DEF CommitInv
<1>2. UNCHANGED <<osave, via, res, hop, hres>> /\ osave = {}
  BY DEF BeginLock, BeginStep, BeginAcquire, BeginOk, BeginFails, BeginCancel, handle,
         CommitInv, FrameInv, TypeOK, OwnerType
<1>3. \A w : (Failed(w)' <=> Failed(w)) /\ (Succeeded(w)' <=> Succeeded(w))
  BY <1>2 DEF Failed, Succeeded
<1>4. \A t \in Handles : (Doomed(t)' <=> Doomed(t)) /\ Done(t)' = Done(t)
  BY <1>2, <1>3 DEF Doomed, Done
<1>5. JoinedMark' BY <1>2 DEF JoinedMark
<1>6. CASE BeginLock \/ BeginAcquire \/ BeginFails \/ BeginCancel
  <2>1. Keeps /\ UNCHANGED hpc
    BY <1>6, KeepsOne DEF BeginLock, BeginAcquire, BeginFails, BeginCancel, handle, CommitInv, FrameInv
  <2>2. CASE UNCHANGED db
    <3>1. \A c \in Conns : Grows(c) BY <2>2 DEF Grows, db
    <3>2. Kept' /\ Ended' BY <1>2, <1>4, <2>1, <2>2, <3>1, CommitKeeps DEF db
    <3> QED BY <1>1, <1>2, <1>5, <2>1, <3>2 DEF CommitInv
  <2>3. ASSUME NEW c \in Conns, holder[c] = Owner, SameButFor(c), durable \subseteq durable'
        PROVE  CommitInv'
    <3>1. \A t \in Handles : ~Held(c, t) BY <2>3, HoldersDiffer DEF Held
    <3>2. \A d \in Conns \ {c} : Grows(d) BY <2>3 DEF SameButFor, Grows
    <3>3. Kept' /\ Ended' BY <1>2, <1>4, <2>1, <2>3, <3>1, <3>2, CommitKeeps
    <3> QED BY <1>1, <1>2, <1>5, <2>1, <3>3 DEF CommitInv
  <2>4. ASSUME NEW c \in Conns, "rollback" \in Faults,
               txs' = [txs EXCEPT ![c] = "aborted"], UNCHANGED <<pending, mark, durable>>
        PROVE  SameButFor(c) /\ durable \subseteq durable'
    BY <1>0, <2>4 DEF SameButFor, DbType
  <2> QED BY <1>0, <1>6, <2>2, <2>3, <2>4, DbOne DEF BeginLock, BeginAcquire, BeginFails, BeginCancel
<1>7. ASSUME NEW t \in Handles, BeginOk(t) PROVE CommitInv'
  <2> PICK c \in Conns : holder[c] = Owner /\ OpenTxn(c) /\ holder' = [holder EXCEPT ![c] = Slot(t)]
    BY <1>7 DEF BeginOk
  <2>1. hpc[t] = "none" /\ hpc' = [hpc EXCEPT ![t] = "live"] BY <1>7 DEF BeginOk
  <2>2. SameButFor(c) /\ durable \subseteq durable' BY <1>0, DbOne
  <2>3. txs'[c] # "none" BY <1>0 DEF OpenTxn, DbType
  <2>4. Done(t) = {} BY <2>1, NamesAssumption DEF Done, CommitInv, FrameInv, ViaIsBegun
  <2>5. \A d \in Conns, u \in Handles : Held(d, u)' => (Held(d, u) /\ u # t /\ d # c) \/ (d = c /\ u = t)
    <3>1. \A d \in Conns : ~Held(d, t) BY <2>1 DEF CommitInv, FrameInv, HeldIsBegun
    <3>2. \A d \in Conns : d # c => holder'[d] = holder[d] BY <1>0
    <3>3. holder'[c] = Slot(t) BY <1>0
    <3> QED BY <3>1, <3>2, <3>3, SlotsDiffer DEF Held
  <2>6. Kept'
    <3> SUFFICES ASSUME NEW d \in Conns, NEW u \in Handles, Held(d, u)', ~Doomed(u)'
                 PROVE  /\ txs'[d] # "none" /\ (Done(u) \subseteq pending[d])'
                        /\ Done(u)' # {} => txs'[d] = "open"
      BY DEF Kept
    <3>1. CASE d = c /\ u = t BY <1>4, <2>3, <2>4, <3>1
    <3>2. CASE Held(d, u) /\ u # t /\ d # c
      BY <1>4, <2>2, <3>2 DEF CommitInv, Kept, SameButFor
    <3> QED BY <2>5, <3>1, <3>2
  <2>7. Ended'
    <3> SUFFICES ASSUME NEW u \in Handles, hop'[u] = "commit", hres'[u] = "ok"
                 PROVE  Doomed(u)' \/ (Done(u) \subseteq durable)'
      BY DEF Ended
    <3>1. Doomed(u) \/ Done(u) \subseteq durable BY <1>2 DEF CommitInv, Ended
    <3> QED BY <1>4, <2>2, <3>1
  <2> QED BY <1>1, <1>5, <2>6, <2>7 DEF CommitInv
<1> QED BY <1>6, <1>7 DEF BeginStep

LEMMA CommitHandle ==
  ASSUME CommitInv, CommitSafe, NEW t \in Handles,
         HandleCall(t) \/ HandleStep(t) \/ BackgroundStep(t) \/ PointStep(t)
  PROVE  CommitInv'
<1>0. /\ holder \in [Conns -> Holders] /\ DbType
      /\ hpc \in [Handles -> {"none", "live", "take", "exec", "clear", "drop", "try", "done"}]
      /\ hop \in [Handles -> {"none", "commit", "rollback", "drop"}]
      /\ hres \in [Handles -> {"none", "ok", "err", "cancelled"}]
  BY DEF CommitInv, FrameInv, TypeOK, HandleType
<1>1. FrameInv' BY FrameHandle DEF CommitInv
<1>2. ~\E n \in Points : TRUE BY DEF CommitSafe
<1> USE DEF HandleCall, HandleCommit, HandleRollback, HandleDrop, HandleTake, HandleCancel,
            HandleStep, TakeConn, Finish, ClearSession, DropClearNow, DropTryTake,
            BackgroundStep, BackgroundRollback, BackgroundClear, SharedTxnDrop, Discard
<1>3. PointStep(t) => SetIsolation(t) BY <1>2 DEF PointStep
<1>4. UNCHANGED <<opc, osave, via, res>> BY <1>3 DEF SetIsolation, owner
<1>5. \A w : (Failed(w)' <=> Failed(w)) /\ (Succeeded(w)' <=> Succeeded(w))
  BY <1>4 DEF Failed, Succeeded
<1>6. \A u \in Handles : (Doomed(u)' <=> Doomed(u)) /\ Done(u)' = Done(u)
  BY <1>4, <1>5 DEF Doomed, Done
<1>7. Keeps BY <1>3, KeepsOne DEF SetIsolation, CommitInv, FrameInv
<1>8. UNCHANGED db \/ \E c \in Conns : /\ SameButFor(c) /\ durable \subseteq durable'
                                       /\ (\A u \in Handles : ~Held(c, u)') \/ SetIsolation(t)
  <2>1. ASSUME NEW c \in Conns, GiveBack(c) PROVE \A u \in Handles : ~Held(c, u)'
    BY <1>0, <2>1, HoldersDiffer DEF GiveBack, Held
  <2>2. ASSUME NEW c \in Conns, SetIsolation(t), txs' = [txs EXCEPT ![c] = AbortsOnError(c)],
               UNCHANGED <<pending, mark, durable>>
        PROVE  SameButFor(c) /\ durable \subseteq durable'
    BY <1>0, <2>2 DEF SameButFor, DbType
  <2>3. CASE SetIsolation(t) BY <2>2, <2>3 DEF SetIsolation
  <2>4. ASSUME NEW c \in Conns, GiveBack(c),
               (\E a : EndTxn(c, a)) \/ CommitOk(c) \/ CommitFails(c) \/ UNCHANGED db
        PROVE  SameButFor(c) /\ durable \subseteq durable' /\ \A u \in Handles : ~Held(c, u)'
    BY <1>0, <2>1, <2>4, DbOne
  <2>5. CASE HandleCall(t) BY <2>4, <2>5
  <2>6. CASE HandleStep(t) BY <2>4, <2>6
  <2>7. CASE BackgroundStep(t) BY <2>4, <2>7
  <2> QED BY <1>3, <2>3, <2>5, <2>6, <2>7
<1>9. SetIsolation(t) => UNCHANGED db
  BY <1>0 DEF SetIsolation, CommitSafe, AbortsOnError, DbType, db
<1>10. \A c \in Conns, u \in Handles : Held(c, u)' => Grows(c) /\ mark'[c] = mark[c]
  BY <1>8, <1>9 DEF SameButFor, Grows, db
<1>11. durable \subseteq durable' BY <1>8 DEF db
<1>12. JoinedMark' BY <1>4, <1>7, <1>10, JoinedStays
<1>14. CASE \A u \in Handles : hop'[u] = "commit" /\ hres'[u] = "ok" => hop[u] = "commit" /\ hres[u] = "ok"
  <2>1. Kept' /\ Ended' BY <1>6, <1>7, <1>10, <1>11, <1>14, CommitKeeps
  <2> QED BY <1>1, <1>12, <2>1 DEF CommitInv
<1>15. ASSUME NEW c \in Conns, hpc[t] = "exec", holder[c] = Taker(t), GiveBack(c), CommitOk(c), UNCHANGED hop,
              hres' = [hres EXCEPT ![t] = "ok"]
       PROVE  CommitInv'
  <2>1. Held(c, t) BY <1>15 DEF Held
  <2>3. Doomed(t) \/ Done(t) \subseteq durable'
    <3> SUFFICES ASSUME ~Doomed(t), NEW w \in Done(t) PROVE w \in durable' OBVIOUS
    <3>1. w \in pending[c] /\ txs[c] = "open" BY <2>1 DEF CommitInv, Kept
    <3> QED BY <1>15, <3>1 DEF CommitOk, EndTxn
  <2>4. Kept'
    <3> SUFFICES ASSUME NEW d \in Conns, NEW u \in Handles, Held(d, u)', ~Doomed(u)'
                 PROVE  /\ txs'[d] # "none" /\ (Done(u) \subseteq pending[d])'
                        /\ Done(u)' # {} => txs'[d] = "open"
      BY DEF Kept
    <3>1. Held(d, u) /\ ~Doomed(u) /\ Grows(d) BY <1>6, <1>7, <1>10 DEF Keeps
    <3> QED BY <1>6, <3>1 DEF CommitInv, Kept, Grows
  <2>5. Ended'
    <3> SUFFICES ASSUME NEW u \in Handles, hop'[u] = "commit", hres'[u] = "ok"
                 PROVE  Doomed(u)' \/ (Done(u) \subseteq durable)'
      BY DEF Ended
    <3>1. CASE u = t BY <1>6, <2>3, <3>1
    <3>2. CASE u # t
      <4>1. hop[u] = "commit" /\ hres[u] = "ok" BY <1>0, <1>15, <3>2
      <4>2. Doomed(u) \/ Done(u) \subseteq durable BY <4>1 DEF CommitInv, Ended
      <4> QED BY <1>6, <1>11, <4>2
    <3> QED BY <3>1, <3>2
  <2> QED BY <1>1, <1>12, <2>4, <2>5 DEF CommitInv
<1>16. CASE Finish(t)
  <2> PICK c \in Conns : /\ holder[c] = Taker(t) /\ GiveBack(c)
                         /\ \/ CommitOk(c) /\ hres' = [hres EXCEPT ![t] = "ok"]
                            \/ hres' = [hres EXCEPT ![t] = "err"]
                            \/ hop[t] = "rollback"
    BY <1>16
  <2>1. UNCHANGED hop /\ hpc[t] = "exec" BY <1>16
  <2>2. \A u \in Handles \ {t} : hres'[u] = hres[u] BY <1>0, <1>16
  <2>3. CASE CommitOk(c) /\ hres' = [hres EXCEPT ![t] = "ok"] BY <1>15, <2>1, <2>3
  <2>4. CASE hres' = [hres EXCEPT ![t] = "err"] BY <1>0, <1>14, <2>1, <2>4
  <2>5. CASE hop[t] = "rollback" BY <1>0, <1>14, <2>1, <2>2, <2>5
  <2> QED BY <2>3, <2>4, <2>5
<1>17. CASE ~Finish(t)
  <2>1. CASE UNCHANGED <<hop, hres>> BY <1>14, <2>1
  <2>2. CASE HandleCommit(t) \/ HandleRollback(t) \/ HandleDrop(t)
    <3>1. hpc[t] = "live" /\ UNCHANGED hres /\ \A u \in Handles \ {t} : hop'[u] = hop[u]
      BY <1>0, <2>2
    <3>2. hres[t] = "none" BY <3>1 DEF CommitInv, FrameInv, Undecided
    <3> QED BY <1>14, <3>1, <3>2
  <2>3. CASE TakeConn(t) \/ HandleCancel(t)
    <3>1. UNCHANGED hop /\ (hres' = hres \/ \E r \in {"err", "cancelled"} : hres' = [hres EXCEPT ![t] = r])
      BY <2>3
    <3> QED BY <1>0, <1>14, <3>1
  <2> QED BY <1>3, <1>17, <2>1, <2>2, <2>3 DEF SetIsolation, handle
<1> QED BY <1>16, <1>17

(* What a step of a save does to the work that is done and to what failed.  *)
LEMMA SaveSettles ==
  ASSUME FrameInv, NEW s \in Saves, SaveStart(s) \/ SaveStep(s) \/ SaveCancel(s)
  PROVE  /\ \A t \in Handles : Doomed(t) => Doomed(t)'
         /\ \A t \in Handles, w \in Work : w \in Done(t)' =>
              w \in Done(t) \/ (w = s /\ via'[s] = t /\ s \in osave' /\ opc' = "s_end")
<1> USE DEF SaveStart, SaveStep, SaveRoute, SaveAcquire, SaveBegin, SavePoint, SaveDml, SaveManagedEnd,
            SaveRollbackTo, SaveRelease, SaveCancel, SaveEnds
<1>0. /\ s \in Work /\ osave \subseteq Saves /\ Saves \subseteq Work
      /\ via \in [Work -> Handles \cup {NoHandle}]
      /\ res \in [Work -> {"none", "ok", "err", "cancelled", "undone"}]
  BY DEF FrameInv, TypeOK, OwnerType, WorkType, Work
<1>1. \A w \in Work \ {s} : w \notin osave /\ w \notin osave' /\ via'[w] = via[w] /\ res'[w] = res[w]
  BY <1>0 DEF FrameInv, TypeOK, OwnerType, OneSave
<1>2. res[s] = "none" BY DEF FrameInv, SaveIsFresh
<1>3. Failed(s) => Failed(s)' /\ via'[s] = via[s]
  <2> SUFFICES ASSUME s \in osave, opc \in {"s_undo", "s_undone"}
               PROVE  Failed(s)' /\ via'[s] = via[s]
    BY <1>2 DEF Failed
  <2>1. UNCHANGED via OBVIOUS
  <2>2. (s \in osave' /\ opc' = "s_undone") \/ res'[s] \in {"err", "cancelled"} BY <1>0
  <2> QED BY <2>1, <2>2 DEF Failed
<1>4. Succeeded(s)' => (Succeeded(s) /\ via'[s] = via[s]) \/ (s \in osave' /\ opc' = "s_end")
  <2> SUFFICES ASSUME res'[s] = "ok" PROVE s \in osave /\ opc = "s_end" /\ via' = via
    BY DEF Succeeded
  <2> QED BY <1>0, <1>2
<1>5. \A t \in Handles : Doomed(t) => Doomed(t)' BY <1>1, <1>3 DEF Doomed, Failed
<1>6. \A t \in Handles, w \in Work : w \in Done(t)' =>
        w \in Done(t) \/ (w = s /\ via'[s] = t /\ s \in osave' /\ opc' = "s_end")
  BY <1>1, <1>4 DEF Done, Succeeded
<1> QED BY <1>5, <1>6

LEMMA SetMarkMarks ==
  ASSUME DbType, NEW c \in Conns, NEW n, SetMark(c, n), Provider # "mysql"
  PROVE  HasMark(c, n)'
<1>0. mark \in [Conns -> Seq(MarkEntry)] /\ mark[c] \in Seq(MarkEntry) BY DEF DbType, MarkEntry
<1>1. Len(mark[c]) \in Nat /\ DOMAIN mark[c] = 1 .. Len(mark[c]) BY <1>0, LenProperties
<1> DEFINE e == [name |-> n, work |-> pending[c]]
<1>2. mark'[c] = Append(mark[c], e) BY <1>0 DEF SetMark, AddMark
<1>3. Len(mark[c]) + 1 \in DOMAIN mark'[c] /\ mark'[c][Len(mark[c]) + 1] = e
  BY <1>0, <1>1, <1>2
<1> QED BY <1>3 DEF HasMark

(* A step of a save, given what it does to the connection of its slot.      *)
LEMMA CommitSaveConn ==
  ASSUME CommitInv, NEW s \in Saves, SaveStart(s) \/ SaveStep(s) \/ SaveCancel(s),
         NEW c \in Conns, SaveConn(s, c), SameButFor(c), durable \subseteq durable',
         \A t \in Handles : via[s] = t /\ holder[c] = Slot(t) /\ ~Doomed(t) /\ ~Doomed(t)' =>
           Grows(c) /\ (s \in osave' /\ opc' = "s_end" => s \in pending'[c] /\ txs'[c] = "open"),
         opc' = "s_end" => UNCHANGED via /\ s \in osave
  PROVE  Kept' /\ Ended'
<1>0. via \in [Work -> Handles \cup {NoHandle}] /\ s \in Work /\ hres' = hres /\ hop' = hop
  BY DEF CommitInv, FrameInv, TypeOK, WorkType, Work, SaveStart, SaveStep, SaveRoute, SaveAcquire, SaveBegin,
         SavePoint, SaveDml, SaveManagedEnd, SaveRollbackTo, SaveRelease, SaveCancel, handle
<1>1. Keeps
  BY KeepsOne DEF CommitInv, FrameInv, SaveStart, SaveStep, SaveRoute, SaveAcquire, SaveBegin,
         SavePoint, SaveDml, SaveManagedEnd, SaveRollbackTo, SaveRelease, SaveCancel
<1>2. /\ \A t \in Handles : Doomed(t) => Doomed(t)'
      /\ \A t \in Handles, w \in Work : w \in Done(t)' =>
           w \in Done(t) \/ (w = s /\ via'[s] = t /\ s \in osave' /\ opc' = "s_end")
  BY SaveSettles DEF CommitInv
<1>3. ASSUME NEW t \in Handles, Held(c, t) PROVE via[s] = t /\ holder[c] = Slot(t)
  BY <1>0, <1>3, HoldersDiffer, SlotsDiffer DEF SaveConn, Held
<1>4. \A d \in Conns, t \in Handles : Held(d, t)' /\ Held(d, t) /\ ~Doomed(t)' => Grows(d)
  BY <1>2, <1>3 DEF SameButFor, Grows
<1>5. ASSUME NEW t \in Handles, s \in osave', opc' = "s_end", via'[s] = t, ~Doomed(t)'
      PROVE  \E d \in Conns : holder[d] = Slot(t) /\ s \in pending'[d] /\ txs'[d] = "open"
  <2>1. via[s] = t /\ via[s] # NoHandle BY <1>5, NamesAssumption
  <2>2. holder[c] = Slot(t) BY <2>1 DEF SaveConn
  <2> QED BY <1>2, <1>5, <2>1, <2>2
<1> QED BY <1>0, <1>1, <1>2, <1>4, <1>5, CommitKeeps

LEMMA CommitSave ==
  ASSUME CommitInv, CommitSafe, NEW s \in Saves, SaveStart(s) \/ SaveStep(s) \/ SaveCancel(s)
  PROVE  CommitInv'
<1>0. /\ s \in Work /\ osave \subseteq Saves /\ DbType /\ holder \in [Conns -> Holders]
      /\ via \in [Work -> Handles \cup {NoHandle}]
      /\ res \in [Work -> {"none", "ok", "err", "cancelled", "undone"}]
  BY DEF CommitInv, FrameInv, TypeOK, OwnerType, WorkType, Work
<1>1. FrameInv' BY FrameSave DEF CommitInv
<1> USE DEF SaveStart, SaveStep, SaveRoute, SaveAcquire, SaveBegin, SavePoint, SaveDml, SaveManagedEnd,
            SaveRollbackTo, SaveRelease, SaveCancel
<1>2. UNCHANGED <<hpc, hop, hres>> BY DEF handle
<1>4. Keeps BY KeepsOne DEF CommitInv, FrameInv
<1>5. /\ \A t \in Handles : Doomed(t) => Doomed(t)'
      /\ \A t \in Handles, w \in Work : w \in Done(t)' =>
           w \in Done(t) \/ (w = s /\ via'[s] = t /\ s \in osave' /\ opc' = "s_end")
  BY SaveSettles DEF CommitInv
<1>6. ASSUME NEW c, SaveConn(s, c), NEW t \in Handles, holder[c] = Slot(t), s \in osave
      PROVE  via[s] = t
  BY <1>0, <1>6, HoldersDiffer, SlotsDiffer DEF SaveConn
<1>7. JoinedMark'
  <2> SUFFICES ASSUME Provider = "postgres", opc' \in {"s_dml", "s_more", "s_end"},
                      NEW r \in osave', NEW c \in Conns, via'[r] # NoHandle, Held(c, via[r])'
               PROVE  HasMark(c, r)'
    BY DEF JoinedMark
  <2>1. s \in osave /\ UNCHANGED <<osave, via>> /\ opc \in {"s_begin", "s_point", "s_dml", "s_more"}
    BY DEF SaveEnds
  <2>2. r = s BY <2>1 DEF CommitInv, FrameInv, OneSave
  <2>3. via[s] \in Handles /\ Held(c, via[s]) BY <1>0, <1>4, <2>1, <2>2 DEF Keeps, Held
  <2>4. ASSUME NEW d \in Conns, SaveConn(s, d) PROVE d = c
    <3>1. Held(d, via[s]) BY <2>1, <2>2, <2>4 DEF SaveConn, Held
    <3> QED BY <2>3, <3>1 DEF CommitInv, FrameInv, OneConn
  <2>5. CASE SavePoint(s)
    <3>1. PICK d \in Conns : SaveConn(s, d) /\ SetMark(d, s) BY <2>5 DEF SaveEnds
    <3> QED BY <1>0, <2>2, <2>4, <3>1, SetMarkMarks
  <2>6. CASE SaveDml(s)
    <3>1. HasMark(c, s) BY <2>1, <2>2, <2>3, <2>6 DEF CommitInv, JoinedMark
    <3>2. mark' = mark BY <2>6 DEF RunOk, RunFails, db
    <3> QED BY <2>2, <3>1, <3>2 DEF HasMark
  <2>7. CASE SaveBegin(s)
    BY <2>1, <2>2, <2>7 DEF CommitInv, FrameInv, ManagedIsAlone, BeginIsManaged
  <2> QED BY <2>1, <2>5, <2>6, <2>7 DEF SaveEnds
<1>8. ASSUME UNCHANGED db, s \in osave' => opc' # "s_end" PROVE CommitInv'
  <2>1. \A c \in Conns : Grows(c) BY <1>8 DEF Grows, db
  <2>2. Kept' /\ Ended' BY <1>2, <1>4, <1>5, <1>8, <2>1, CommitKeeps DEF db
  <2> QED BY <1>1, <1>7, <2>2 DEF CommitInv
<1>9. ASSUME NEW c \in Conns, SaveConn(s, c), SameButFor(c), durable \subseteq durable', opc' # "s_end",
             \A t \in Handles : via[s] = t /\ holder[c] = Slot(t) /\ ~Doomed(t) /\ ~Doomed(t)' => Grows(c)
      PROVE  CommitInv'
  BY <1>1, <1>7, <1>9, CommitSaveConn DEF CommitInv
<1>10. ASSUME s \in osave', opc' \in {"s_undo", "s_undone"}, UNCHANGED via
       PROVE  \A t \in Handles : via[s] = t => Doomed(t)'
  BY <1>0, <1>10 DEF Doomed, Failed
<1>11. ASSUME NEW how \in {"err", "cancelled"}, SaveEnds(s, how), UNCHANGED via
       PROVE  \A t \in Handles : via[s] = t => Doomed(t)'
  BY <1>0, <1>11 DEF Doomed, Failed, SaveEnds
<1>12. CASE SaveStart(s) \/ SaveRoute(s) \/ SaveAcquire(s) BY <1>8, <1>12 DEF SaveEnds
<1>13. CASE SaveBegin(s)
  <2>1. via[s] = NoHandle BY <1>13 DEF CommitInv, FrameInv, ManagedIsAlone, BeginIsManaged
  <2> PICK c \in Conns : holder[c] = Owner /\ (OpenTxn(c) \/ OpenFails(c)) BY <1>13
  <2> QED BY <1>0, <1>9, <1>13, <2>1, DbOne, NamesAssumption DEF SaveConn, SaveEnds
<1>14. CASE SavePoint(s)
  <2>1. ASSUME NEW c \in Conns, SaveConn(s, c), SetMark(c, s), opc' = "s_dml" PROVE CommitInv'
    <3>1. SameButFor(c) /\ durable \subseteq durable' BY <1>0, <2>1, DbOne
    <3>2. Grows(c) BY <1>0, <2>1 DEF SetMark, AddMark, Grows, DbType, db
    <3> QED BY <1>9, <2>1, <3>1, <3>2
  <2>2. ASSUME NEW c \in Conns, SaveConn(s, c), PointFails(c, s, "savepoint"), SaveEnds(s, "err")
        PROVE  CommitInv'
    <3>1. SameButFor(c) /\ durable \subseteq durable' BY <1>0, <2>2, DbOne
    <3>2. UNCHANGED via BY <1>14
    <3> QED BY <1>9, <1>11, <2>2, <3>1, <3>2 DEF SaveEnds
  <2>3. CASE UNCHANGED db /\ SaveEnds(s, "err") BY <1>8, <2>3 DEF SaveEnds
  <2> QED BY <1>14, <2>1, <2>2, <2>3 DEF SaveEnds
<1>15. CASE SaveDml(s)
  <2>0. UNCHANGED <<via, osave>> /\ s \in osave BY <1>15
  <2>1. ASSUME NEW c \in Conns, SaveConn(s, c), RunOk(c, s) PROVE CommitInv'
    <3>1. SameButFor(c) /\ durable \subseteq durable' BY <1>0, <2>1, DbOne
    <3>2. ASSUME NEW t \in Handles, via[s] = t, holder[c] = Slot(t), ~Doomed(t)
          PROVE  Grows(c) /\ s \in pending'[c] /\ txs'[c] = "open"
      <4>1. txs[c] # "none" BY <3>2 DEF CommitInv, Kept, Held
      <4>2. txs[c] = "open" BY <1>0, <2>1, <4>1 DEF RunOk, DbType
      <4>3. pending' = [pending EXCEPT ![c] = @ \cup {s}] /\ txs' = txs BY <2>1, <4>2 DEF RunOk
      <4>4. pending'[c] = pending[c] \cup {s} BY <1>0, <4>3 DEF DbType
      <4> QED BY <4>2, <4>3, <4>4 DEF Grows
    <3>3. Kept' /\ Ended' BY <2>0, <2>1, <3>1, <3>2, CommitSaveConn
    <3> QED BY <1>1, <1>7, <3>3 DEF CommitInv
  <2>2. ASSUME NEW c \in Conns, SaveConn(s, c), RunFails(c), opc' = "s_undo" PROVE CommitInv'
    <3>1. SameButFor(c) /\ durable \subseteq durable' BY <1>0, <2>2, DbOne
    <3> QED BY <1>9, <1>10, <2>0, <2>2, <3>1
  <2>3. CASE UNCHANGED db /\ opc' = "s_undo" BY <1>8, <2>3
  <2> QED BY <1>15, <2>1, <2>2, <2>3
<1>16. CASE SaveManagedEnd(s)
  <2> PICK c \in Conns : holder[c] = Owner /\ (CommitOk(c) \/ CommitFails(c) \/ EndTxn(c, FALSE)) BY <1>16
  <2>1. via[s] = NoHandle BY <1>16 DEF CommitInv, FrameInv, ManagedIsAlone
  <2>2. SameButFor(c) /\ durable \subseteq durable' BY <1>0, DbOne
  <2> QED BY <1>9, <1>16, <2>1, <2>2, NamesAssumption DEF SaveConn, SaveEnds
<1>17. CASE SaveRollbackTo(s)
  <2>0. UNCHANGED <<via, osave>> /\ s \in osave /\ opc' = "s_undone" BY <1>17
  <2>1. ASSUME NEW c \in Conns, SaveConn(s, c), RollbackToMark(c, s) \/ PointFails(c, s, "rollback_to")
        PROVE  CommitInv'
    <3>1. SameButFor(c) /\ durable \subseteq durable' BY <1>0, <2>1, DbOne
    <3> QED BY <1>9, <1>10, <2>0, <2>1, <3>1
  <2>2. CASE UNCHANGED db BY <1>8, <2>0, <2>2
  <2> QED BY <1>17, <2>1, <2>2
<1>18. CASE SaveRelease(s)
  <2>0. UNCHANGED via /\ s \in osave /\ opc' = "idle" BY <1>18 DEF SaveEnds
  <2>1. ASSUME NEW c \in Conns, SaveConn(s, c), ReleaseMark(c, s) \/ PointFails(c, s, "release")
        PROVE  CommitInv'
    <3>1. SameButFor(c) /\ durable \subseteq durable' BY <1>0, <2>1, DbOne
    <3>2. ASSUME NEW t \in Handles, via[s] = t, holder[c] = Slot(t), ~Doomed(t), ~Doomed(t)'
          PROVE  Grows(c)
      <4>1. opc = "s_end" BY <1>11, <1>18, <2>0, <3>2
      <4>2. CASE ReleaseMark(c, s)
        <5>1. UNCHANGED <<txs, pending>> BY <3>2, <4>2, HoldersDiffer DEF ReleaseMark
        <5> QED BY <5>1 DEF Grows
      <4>3. CASE PointFails(c, s, "release") /\ Provider # "postgres"
        BY <1>0, <4>3 DEF PointFails, AbortsOnError, Grows, DbType
      <4>4. CASE PointFails(c, s, "release") /\ Provider = "postgres"
        <5>1. HasMark(c, s)
          BY <2>0, <3>2, <4>1, <4>4, NamesAssumption DEF CommitInv, JoinedMark, Held
        <5>2. s \in Done(t) BY <1>0, <2>0, <3>2, <4>1 DEF Done, Succeeded
        <5>3. txs[c] = "open" BY <3>2, <5>2 DEF CommitInv, Kept, Held
        <5> QED BY <4>4, <5>1, <5>3 DEF PointFails, CommitSafe
      <4> QED BY <2>1, <4>2, <4>3, <4>4
    <3> QED BY <1>9, <2>0, <2>1, <3>1, <3>2
  <2>2. CASE UNCHANGED db BY <1>8, <2>0, <2>2
  <2> QED BY <1>18, <2>1, <2>2
<1>19. CASE SaveCancel(s)
  <2>0. UNCHANGED via /\ SaveEnds(s, "cancelled") /\ opc' = "idle" BY <1>19 DEF SaveEnds
  <2>1. ASSUME NEW c \in Conns, SaveConn(s, c), (\E a : EndTxn(c, a)) \/ InFlight(s, c) PROVE CommitInv'
    <3>1. SameButFor(c) /\ durable \subseteq durable' BY <1>0, <2>1, DbOne DEF InFlight
    <3> QED BY <1>9, <1>11, <2>0, <2>1, <3>1
  <2>2. CASE UNCHANGED db BY <1>8, <2>0, <2>2
  <2> QED BY <1>19, <2>1, <2>2
<1> QED BY <1>12, <1>13, <1>14, <1>15, <1>16, <1>17, <1>18, <1>19

LEMMA CommitNext == CommitSafe /\ CommitInv /\ [Next]_vars => CommitInv'
<1> SUFFICES ASSUME CommitSafe, CommitInv, [Next]_vars PROVE CommitInv' OBVIOUS
<1>1. CASE Next
  BY <1>1, CommitStmt, CommitBegin, CommitSave, CommitHandle DEF Next, CallerStep, HandleCall, PointStep
<1>2. CASE UNCHANGED vars
  <2> USE <1>2 DEF vars, owner, handle, db
  <2>1. FrameInv' BY FrameNext DEF CommitInv
  <2>2. \A t \in Handles : (Doomed(t)' <=> Doomed(t)) /\ Done(t)' = Done(t)
    BY DEF Doomed, Done, Failed, Succeeded
  <2>3. \A c \in Conns, t \in Handles : Held(c, t)' <=> Held(c, t) BY DEF Held
  <2>4. Kept' /\ Ended' BY <2>2, <2>3 DEF CommitInv, Kept, Ended
  <2>5. JoinedMark' BY DEF CommitInv, JoinedMark, HasMark, Held
  <2> QED BY <2>1, <2>4, <2>5 DEF CommitInv
<1> QED BY <1>1, <1>2

(* In a transaction in which every call succeeded, also where calls overlap *)
(* and futures are dropped, what the holder of the handle committed is      *)
(* durable, whatever else fails (CommittedIsDurable: SharedTxn::take,       *)
(* SessionConnection, save_changes in a scoped transaction).                *)
THEOREM CommitIsDurable == CommitSafe => (Spec => []CommittedIsDurable)
<1> SUFFICES ASSUME CommitSafe PROVE Spec => []CommittedIsDurable OBVIOUS
<1>1. CommitInv /\ [Next]_vars => CommitInv' BY CommitNext
<1> QED BY CommitInit, <1>1, CommitImplies, PTL DEF Spec

=============================================================================
