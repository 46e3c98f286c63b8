----------------------------- MODULE TxnSession -----------------------------
(***************************************************************************)
(* The connection session of one DbContext: session.rs, transaction.rs,    *)
(* the transaction frame of db_context/save_pipeline.rs and what the       *)
(* SQLite (pooled), PostgreSQL and MySQL connections do with a statement,  *)
(* a failed statement, a cancelled one and a discarded connection.         *)
(*                                                                         *)
(* Every connection has exactly one holder, because the code moves         *)
(* Box<dyn IAsyncConnection> values about: the pool, the future that       *)
(* borrowed it, the SharedTxn slot of a transaction, or the future of      *)
(* commit/rollback that took it out of the slot.  A closed connection is   *)
(* identified with the fresh one that replaces it in the pool.             *)
(*                                                                         *)
(* The actors are the owner of &mut DbContext (begins transactions, saves),*)
(* the holders of transaction handles (commit, rollback, drop), the tasks  *)
(* that run one statement each through the SessionProvider facade, and the *)
(* background rollbacks a dropped handle spawns.                           *)
(***************************************************************************)
EXTENDS FiniteSets, Integers, Sequences

CONSTANTS
  Conns,        \* connections of the write pool
  Stmts,        \* single statements: queries, bulk DML, raw SQL
  Saves,        \* calls of save_changes with something pending
  Handles,      \* transaction handles the owner may create
  Points,       \* names of savepoints the holder of a handle uses
  MaxPoints,    \* bound: savepoints the holder of a handle has at a time
  NoHandle,     \* stands for None in Option<Arc<SharedTxn>>
  Provider,     \* "sqlite" (file database, r2d2), "postgres" (deadpool) or
                \* "mysql" (sqlx)
  Faults,       \* database calls that may fail
  Cancels,      \* futures that may be dropped before they finish
  MayDrop,      \* handles may be dropped without commit or rollback
  Concurrent,   \* FALSE: every future is awaited before the next call
  RuntimeStops  \* the runtime may be gone when a handle is dropped

Work == Stmts \cup Saves

AllFaults == {"pool_timeout", "begin", "isolation", "stmt", "deadlock", "savepoint",
              "release", "rollback_to", "commit", "rollback"}
AllCancels == {"begin", "statement", "save", "commit"}

ASSUME NamesAssumption == /\ NoHandle \notin Handles
                          /\ Stmts \cap Saves = {}
                          /\ Points \cap Saves = {}
                          /\ MaxPoints \in Nat
ASSUME ModeAssumption == /\ Provider \in {"sqlite", "postgres", "mysql"}
                         /\ Faults \subseteq AllFaults
                         /\ Cancels \subseteq AllCancels
                         /\ {MayDrop, Concurrent, RuntimeStops} \subseteq BOOLEAN

VARIABLES
  holder,    \* who owns each connection
  txs,       \* database side: "none", "open" or "aborted" transaction
  pending,   \* database side: work done in that transaction
  mark,      \* database side: its savepoints, [name, pending when it was set]
  durable,   \* database side: work that is committed
  active,    \* Session::txn
  opc,       \* where the owner of the DbContext is
  osave,     \* the save in progress: {} or {s}
  scoped,    \* TxnSource::Session (TRUE) or Managed (FALSE)
  hpc,       \* where each handle is
  hop,       \* what is being done to each handle
  hres,      \* what commit / rollback returned
  bg,        \* the background rollback of each handle
  points,    \* what its holder knows: the savepoints it has, [name, done]
  tpc,       \* where each statement task is
  via,       \* the handle whose slot a piece of work is routed to
  res        \* how a piece of work ended

db == <<txs, pending, mark, durable>>
owner == <<opc, osave, scoped>>
handle == <<hpc, hop, hres, bg, points>>
vars == <<holder, db, active, owner, handle, tpc, via, res>>

Pool == <<"pool", NoHandle>>
Owner == <<"owner", NoHandle>>
Slot(t) == <<"slot", t>>       \* inside SharedTxn of t
Taker(t) == <<"taker", t>>     \* inside the ConnectionGuard of commit/rollback
User(k) == <<"task", k>>

-----------------------------------------------------------------------------
(* The two tokio mutexes.  The session lock is held by get_connection while *)
(* it clones the slot and by begin_with across its two awaits; the slot     *)
(* lock is held while a statement runs on the transaction's connection.     *)

LockFree == /\ \A k \in Stmts : tpc[k] # "route"
            /\ opc \notin {"b_pool", "b_exec"}
Busy(t) == \E k \in Stmts : tpc[k] = "run" /\ via[k] = t

(* A save locks the slot for each of its statements in turn, a step of its  *)
(* own below; only try_take can tell that one is in flight.                 *)
SaveMayRun(t) ==
  /\ opc \in {"s_point", "s_dml", "s_more", "s_end", "s_undo", "s_undone"}
  /\ \E s \in osave : via[s] = t

(* With Concurrent = FALSE a call starts only when no other is in progress. *)
Quiet == /\ opc = "idle"
         /\ \A k \in Stmts : tpc[k] \in {"idle", "done"}
         /\ \A t \in Handles : hpc[t] \in {"none", "live", "done"} /\ bg[t] = "none"
MayStart == Concurrent \/ Quiet

(* What the database does. *)
RunOk(c, w) ==
  /\ txs[c] # "aborted"
  /\ IF txs[c] = "open"
       THEN pending' = [pending EXCEPT ![c] = @ \cup {w}] /\ UNCHANGED durable
       ELSE durable' = durable \cup {w} /\ UNCHANGED pending
  /\ UNCHANGED <<txs, mark>>

AbortsOnError(c) == IF Provider = "postgres" /\ txs[c] = "open" THEN "aborted" ELSE txs[c]

EndTxn(c, applied) ==
  /\ durable' = durable \cup (IF applied THEN pending[c] ELSE {})
  /\ txs' = [txs EXCEPT ![c] = "none"]
  /\ pending' = [pending EXCEPT ![c] = {}]
  /\ mark' = [mark EXCEPT ![c] = <<>>]

(* An error: of the statement, or on MySQL the victim's of a deadlock, which *)
(* rolls the whole transaction back; what follows is in autocommit mode.    *)
RunFails(c) ==
  \/ /\ txs[c] = "aborted" \/ "stmt" \in Faults
     /\ txs' = [txs EXCEPT ![c] = AbortsOnError(c)]
     /\ UNCHANGED <<pending, mark, durable>>
  \/ /\ "deadlock" \in Faults /\ Provider = "mysql" /\ txs[c] = "open"
     /\ EndTxn(c, FALSE)

(* COMMIT of an aborted PostgreSQL transaction answers ROLLBACK, which the  *)
(* driver reports as success.                                               *)
CommitOk(c) == EndTxn(c, txs[c] = "open")

(* COMMIT fails: what follows (ROLLBACK, discard) leaves no transaction.    *)
(* When the connection broke, a server may have applied the COMMIT.         *)
CommitFails(c) ==
  /\ "commit" \in Faults
  /\ \E applied \in BOOLEAN :
       /\ applied => Provider # "sqlite" /\ txs[c] = "open"
       /\ EndTxn(c, applied)

GiveBack(c) == holder' = [holder EXCEPT ![c] = Pool]

(* Mutants: the connection is dropped where the code discards it; or closing *)
(* it commits the open transaction, as some drivers do.                     *)
Discard_JustDropped(c) == GiveBack(c) /\ UNCHANGED db
Discard_Commits(c) == GiveBack(c) /\ CommitOk(c)

(* IAsyncConnection::discard: roll back (SQLite) or close (the others).     *)
Discard(c) == GiveBack(c) /\ EndTxn(c, FALSE)
-----------------------------------------------------------------------------
(* One statement through the SessionProvider facade.                        *)

StmtStart(k) ==
  /\ tpc[k] = "idle" /\ MayStart /\ LockFree
  /\ tpc' = [tpc EXCEPT ![k] = "route"]
  /\ UNCHANGED <<holder, db, active, owner, handle, via, res>>

(* Mutant: statements ignore the session, as before session.rs existed.     *)
StmtRoute_AlwaysPool(k) ==
  /\ tpc[k] = "route"
  /\ tpc' = [tpc EXCEPT ![k] = "pool"]
  /\ UNCHANGED <<holder, db, active, owner, handle, via, res>>

StmtRoute(k) ==
  /\ tpc[k] = "route"
  /\ via' = [via EXCEPT ![k] = active]
  /\ tpc' = [tpc EXCEPT ![k] = IF active = NoHandle THEN "pool" ELSE "slot"]
  /\ UNCHANGED <<holder, db, active, owner, handle, res>>

StmtEnds(k, how) ==
  /\ tpc' = [tpc EXCEPT ![k] = "done"]
  /\ res' = [res EXCEPT ![k] = how]

StmtAcquire(k) ==
  /\ tpc[k] = "pool"
  /\ \/ \E c \in Conns :
          /\ holder[c] = Pool
          /\ holder' = [holder EXCEPT ![c] = User(k)]
          /\ tpc' = [tpc EXCEPT ![k] = "run"]
          /\ UNCHANGED res
     \/ /\ "pool_timeout" \in Faults
        /\ \A c \in Conns : holder[c] # Pool
        /\ StmtEnds(k, "err") /\ UNCHANGED holder
  /\ UNCHANGED <<db, active, owner, handle, via>>

(* Mutant: a statement on a consumed transaction is silently skipped.       *)
StmtLockSlot_SkipsConsumed(k) ==
  /\ tpc[k] = "slot" /\ ~Busy(via[k])
  /\ IF \E c \in Conns : holder[c] = Slot(via[k])
       THEN tpc' = [tpc EXCEPT ![k] = "run"] /\ UNCHANGED res
       ELSE StmtEnds(k, "ok")
  /\ UNCHANGED <<holder, db, active, owner, handle, via>>

(* SessionConnection::execute locks the slot, and finds the connection or   *)
(* reports that the transaction is already consumed.                        *)
StmtLockSlot(k) ==
  /\ tpc[k] = "slot" /\ ~Busy(via[k])
  /\ IF \E c \in Conns : holder[c] = Slot(via[k])
       THEN tpc' = [tpc EXCEPT ![k] = "run"] /\ UNCHANGED res
       ELSE StmtEnds(k, "err")
  /\ UNCHANGED <<holder, db, active, owner, handle, via>>

StmtConn(k, c) == holder[c] = IF via[k] = NoHandle THEN User(k) ELSE Slot(via[k])

StmtRun(k) ==
  /\ tpc[k] = "run"
  /\ \E c \in Conns :
       /\ StmtConn(k, c)
       /\ \/ RunOk(c, k) /\ StmtEnds(k, "ok")
          \/ RunFails(c) /\ StmtEnds(k, "err")
       /\ IF via[k] = NoHandle THEN GiveBack(c) ELSE UNCHANGED holder
  /\ UNCHANGED <<active, owner, handle, via>>

(* The future is dropped while the statement runs; the statement may have   *)
(* taken effect.  A pooled SQLite connection was moved into spawn_blocking, *)
(* so the wrapper is left without it and the blocking task returns it to    *)
(* the pool with the transaction it is in.                                  *)
StmtCancel(k) ==
  /\ "statement" \in Cancels
  /\ tpc[k] = "run"
  /\ \E c \in Conns :
       /\ StmtConn(k, c)
       /\ RunOk(c, k) \/ UNCHANGED db
       /\ IF via[k] = NoHandle \/ Provider = "sqlite" THEN GiveBack(c) ELSE UNCHANGED holder
  /\ StmtEnds(k, "cancelled")
  /\ UNCHANGED <<active, owner, handle, via>>

-----------------------------------------------------------------------------
(* begin_transaction / use_transaction: Session::begin_with.                *)

(* Mutant: begin_with does not look at the slot.                            *)
NotActive_Unchecked == TRUE
NotActive == active = NoHandle

BeginLock ==
  /\ opc = "idle" /\ MayStart /\ LockFree
  /\ NotActive                      \* otherwise: "already active", no change
  /\ \E t \in Handles : hpc[t] = "none"
  /\ opc' = "b_pool"
  /\ UNCHANGED <<holder, db, active, osave, scoped, handle, tpc, via, res>>

BeginAcquire ==
  /\ opc = "b_pool"
  /\ \/ \E c \in Conns :
          /\ holder[c] = Pool
          /\ holder' = [holder EXCEPT ![c] = Owner]
          /\ opc' = "b_exec"
     \/ /\ "pool_timeout" \in Faults
        /\ \A c \in Conns : holder[c] # Pool
        /\ opc' = "idle" /\ UNCHANGED holder
  /\ UNCHANGED <<db, active, osave, scoped, handle, tpc, via, res>>

(* BEGIN on a connection that is already in a transaction: an error in      *)
(* SQLite, a warning in PostgreSQL, unless that transaction is aborted, and *)
(* a commit of that transaction in MySQL.                                   *)
OpenTxn(c) ==
  /\ txs[c] # "aborted"
  /\ Provider = "sqlite" => txs[c] = "none"
  /\ txs' = [txs EXCEPT ![c] = IF @ = "none" THEN "open" ELSE @]
  /\ IF Provider = "mysql"
       THEN /\ durable' = durable \cup pending[c]
            /\ pending' = [pending EXCEPT ![c] = {}]
            /\ mark' = [mark EXCEPT ![c] = <<>>]
       ELSE UNCHANGED <<pending, mark, durable>>

OpenFails(c) ==
  /\ "begin" \in Faults \/ txs[c] = "aborted" \/ (Provider = "sqlite" /\ txs[c] # "none")
  /\ UNCHANGED db

BeginOk(t) ==
  /\ opc = "b_exec" /\ hpc[t] = "none"
  /\ \E c \in Conns :
       /\ holder[c] = Owner
       /\ OpenTxn(c)
       /\ holder' = [holder EXCEPT ![c] = Slot(t)]
  /\ active' = t
  /\ hpc' = [hpc EXCEPT ![t] = "live"]
  /\ opc' = "idle"
  /\ UNCHANGED <<osave, scoped, hop, hres, bg, points, tpc, via, res>>

(* BEGIN fails; or BEGIN succeeds, setting the isolation level fails and    *)
(* the best-effort ROLLBACK may fail as well (default                       *)
(* begin_transaction_with; SQLite rejects the level before BEGIN, and MySQL *)
(* sets it before).  The connection is dropped without a guard, so it       *)
(* returns to the pool as it is.                                            *)
BeginFails ==
  /\ opc = "b_exec"
  /\ \E c \in Conns :
       /\ holder[c] = Owner
       /\ \/ OpenFails(c)
          \/ /\ "isolation" \in Faults /\ Provider = "postgres"
             /\ \/ EndTxn(c, FALSE)
                \/ /\ "rollback" \in Faults
                   /\ txs' = [txs EXCEPT ![c] = "aborted"]
                   /\ UNCHANGED <<pending, mark, durable>>
          \/ "isolation" \in Faults /\ Provider = "mysql" /\ UNCHANGED db
       /\ GiveBack(c)
  /\ opc' = "idle"
  /\ UNCHANGED <<active, osave, scoped, handle, tpc, via, res>>

(* The future of begin_with is dropped at the BEGIN.                        *)
BeginCancel ==
  /\ "begin" \in Cancels
  /\ opc = "b_exec"
  /\ \E c \in Conns :
       /\ holder[c] = Owner
       /\ OpenTxn(c) \/ UNCHANGED db
       /\ GiveBack(c)
  /\ opc' = "idle"
  /\ UNCHANGED <<active, osave, scoped, handle, tpc, via, res>>

-----------------------------------------------------------------------------
(* The transaction frame of save_changes.                                   *)

SaveStart(s) ==
  /\ opc = "idle" /\ MayStart /\ LockFree
  /\ res[s] = "none"
  /\ osave' = {s}
  /\ scoped' = (active # NoHandle)          \* session.is_active()
  /\ opc' = "s_route"
  /\ UNCHANGED <<holder, db, active, handle, tpc, via, res>>

(* Mutant: the save in progress is not reset.                               *)
SaveEnds_KeepsSave(s, how) ==
  /\ opc' = "idle" /\ scoped' = FALSE /\ UNCHANGED osave
  /\ res' = [res EXCEPT ![s] = how]

SaveEnds(s, how) ==
  /\ opc' = "idle" /\ osave' = {} /\ scoped' = FALSE
  /\ res' = [res EXCEPT ![s] = how]

(* provider.get_connection(), after is_active() released the session lock.  *)
SaveRoute(s) ==
  /\ opc = "s_route" /\ s \in osave /\ LockFree
  /\ via' = [via EXCEPT ![s] = active]
  /\ opc' = IF active = NoHandle THEN "s_pool" ELSE "s_point"
  /\ UNCHANGED <<holder, db, active, osave, scoped, handle, tpc, res>>

SaveAcquire(s) ==
  /\ opc = "s_pool" /\ s \in osave
  /\ \/ \E c \in Conns :
          /\ holder[c] = Pool
          /\ holder' = [holder EXCEPT ![c] = Owner]
          /\ opc' = IF scoped THEN "s_point" ELSE "s_begin"
          /\ UNCHANGED <<osave, scoped, res>>
     \/ /\ "pool_timeout" \in Faults
        /\ \A c \in Conns : holder[c] # Pool
        /\ SaveEnds(s, "err") /\ UNCHANGED holder
  /\ UNCHANGED <<db, active, handle, tpc, via>>

SaveBegin(s) ==
  /\ opc = "s_begin" /\ s \in osave
  /\ \E c \in Conns :
       /\ holder[c] = Owner
       /\ \/ /\ OpenTxn(c) /\ opc' = "s_dml"
             /\ UNCHANGED <<holder, osave, scoped, res>>
          \/ OpenFails(c) /\ GiveBack(c) /\ SaveEnds(s, "err")
  /\ UNCHANGED <<active, handle, tpc, via>>

(* The connection a statement of the save runs on: the managed one, or the  *)
(* slot of the transaction it joined, whose lock each statement takes.      *)
SaveConn(s, c) ==
  IF via[s] = NoHandle THEN holder[c] = Owner ELSE holder[c] = Slot(via[s])
SaveSlotFree(s) == via[s] # NoHandle => ~Busy(via[s])
SaveConsumed(s) == via[s] # NoHandle /\ \A c \in Conns : holder[c] # Slot(via[s])

(* SAVEPOINT, ROLLBACK TO and RELEASE.  A name stands for its newest        *)
(* savepoint; MySQL deletes an older one of the same name.  The connection  *)
(* of a TxnSource::Session that came from the pool is not in a transaction: *)
(* SAVEPOINT then opens one in SQLite, which RELEASE commits, fails in      *)
(* PostgreSQL, and sets nothing in MySQL.                                   *)
HasMark(c, n) == \E i \in DOMAIN mark[c] : mark[c][i].name = n

Newest(marks, n, i) ==
  /\ i \in DOMAIN marks /\ marks[i].name = n
  /\ \A j \in DOMAIN marks : j > i => marks[j].name # n

Without(marks, i) == SubSeq(marks, 1, i - 1) \o SubSeq(marks, i + 1, Len(marks))

AddMark(c, marks, n) == mark' = [mark EXCEPT ![c] = Append(marks, [name |-> n, work |-> pending[c]])]

SetMark(c, n) ==
  \/ /\ txs[c] = "open" \/ (txs[c] = "none" /\ Provider = "sqlite")
     /\ txs' = [txs EXCEPT ![c] = "open"]
     /\ IF Provider = "mysql" /\ HasMark(c, n)
          THEN \E i \in DOMAIN mark[c] : Newest(mark[c], n, i) /\ AddMark(c, Without(mark[c], i), n)
          ELSE AddMark(c, mark[c], n)
     /\ UNCHANGED <<pending, durable>>
  \/ txs[c] = "none" /\ Provider = "mysql" /\ UNCHANGED db

(* Mutants: the whole transaction is rolled back; or only RELEASE is issued.*)
RollbackToMark_Everything(c, n) ==
  /\ HasMark(c, n)
  /\ pending' = [pending EXCEPT ![c] = {}]
  /\ txs' = [txs EXCEPT ![c] = "open"]
  /\ UNCHANGED <<mark, durable>>
RollbackToMark_Forgotten(c, n) ==
  /\ HasMark(c, n)
  /\ txs' = [txs EXCEPT ![c] = "open"]
  /\ UNCHANGED <<pending, mark, durable>>

RollbackToMark(c, n) ==
  /\ \E i \in DOMAIN mark[c] :
       /\ Newest(mark[c], n, i)
       /\ pending' = [pending EXCEPT ![c] = mark[c][i].work]
       /\ mark' = [mark EXCEPT ![c] = SubSeq(@, 1, i)]
  /\ txs' = [txs EXCEPT ![c] = "open"]
  /\ UNCHANGED durable

ReleaseMark(c, n) ==
  /\ txs[c] = "open"
  /\ \E i \in DOMAIN mark[c] :
       /\ Newest(mark[c], n, i)
       /\ IF holder[c] = Owner
            THEN EndTxn(c, TRUE)
            ELSE /\ mark' = [mark EXCEPT ![c] = SubSeq(@, 1, i - 1)]
                 /\ UNCHANGED <<txs, pending, durable>>

PointFails(c, n, fault) ==
  /\ \/ fault \in Faults
     \/ txs[c] = "aborted" /\ fault # "rollback_to"
     \/ ~HasMark(c, n) /\ fault # "savepoint"
  /\ txs' = [txs EXCEPT ![c] = AbortsOnError(c)]
  /\ UNCHANGED <<pending, mark, durable>>

SavePoint(s) ==
  /\ opc = "s_point" /\ s \in osave /\ SaveSlotFree(s)
  /\ \/ \E c \in Conns :
          /\ SaveConn(s, c) /\ SetMark(c, s)
          /\ opc' = "s_dml"
          /\ UNCHANGED <<holder, osave, scoped, res>>
     \/ \E c \in Conns :
          /\ SaveConn(s, c)
          /\ \/ PointFails(c, s, "savepoint")
             \/ txs[c] = "none" /\ Provider = "postgres" /\ UNCHANGED db
          /\ IF via[s] = NoHandle THEN GiveBack(c) ELSE UNCHANGED holder
          /\ SaveEnds(s, "err")
     \/ SaveConsumed(s) /\ SaveEnds(s, "err") /\ UNCHANGED <<holder, db>>
  /\ UNCHANGED <<active, handle, tpc, via>>

(* The DML of the save: a first statement that writes (s_dml) and the rest  *)
(* of it (s_more), either of which may fail.                                *)
SaveDml(s) ==
  /\ opc \in {"s_dml", "s_more"} /\ s \in osave /\ SaveSlotFree(s)
  /\ \/ \E c \in Conns :
          /\ SaveConn(s, c)
          /\ \/ RunOk(c, s) /\ opc' = IF opc = "s_dml" THEN "s_more" ELSE "s_end"
             \/ RunFails(c) /\ opc' = "s_undo"
     \/ SaveConsumed(s) /\ opc' = "s_undo" /\ UNCHANGED db
  /\ UNCHANGED <<holder, active, osave, scoped, handle, tpc, via, res>>

(* fail_save and the tail of save_changes for a managed transaction.  A     *)
(* failed ROLLBACK makes the guard discard the connection.                  *)
SaveManagedEnd(s) ==
  /\ opc \in {"s_end", "s_undo"} /\ s \in osave /\ ~scoped
  /\ \E c \in Conns :
       /\ holder[c] = Owner
       /\ \/ opc = "s_end" /\ CommitOk(c) /\ SaveEnds(s, "ok")
          \/ opc = "s_end" /\ CommitFails(c) /\ SaveEnds(s, "err")
          \/ opc = "s_undo" /\ EndTxn(c, FALSE) /\ SaveEnds(s, "err")
       /\ GiveBack(c)
  /\ UNCHANGED <<active, handle, tpc, via>>

(* fail_save in a scoped transaction: ROLLBACK TO, whose error is ignored.  *)
SaveRollbackTo(s) ==
  /\ opc = "s_undo" /\ s \in osave /\ scoped /\ SaveSlotFree(s)
  /\ \/ \E c \in Conns : SaveConn(s, c) /\ RollbackToMark(c, s)
     \/ \E c \in Conns : SaveConn(s, c) /\ PointFails(c, s, "rollback_to")
     \/ SaveConsumed(s) /\ UNCHANGED db
  /\ opc' = "s_undone"
  /\ UNCHANGED <<holder, active, osave, scoped, handle, tpc, via, res>>

(* RELEASE, after the DML or after ROLLBACK TO; its error is ignored.       *)
SaveRelease(s) ==
  /\ opc \in {"s_end", "s_undone"} /\ s \in osave /\ scoped /\ SaveSlotFree(s)
  /\ \/ \E c \in Conns :
          /\ SaveConn(s, c)
          /\ ReleaseMark(c, s) \/ PointFails(c, s, "release")
          /\ IF via[s] = NoHandle THEN GiveBack(c) ELSE UNCHANGED holder
     \/ SaveConsumed(s) /\ UNCHANGED <<holder, db>>
  /\ SaveEnds(s, IF opc = "s_end" THEN "ok" ELSE "err")
  /\ UNCHANGED <<active, handle, tpc, via>>

(* What the statement in flight may still do when its future is dropped.    *)
InFlight(s, c) ==
  \/ UNCHANGED db
  \/ opc = "s_begin" /\ OpenTxn(c)
  \/ opc = "s_point" /\ SetMark(c, s)
  \/ opc \in {"s_dml", "s_more"} /\ RunOk(c, s)
  \/ opc \in {"s_end", "s_undone"} /\ scoped /\ ReleaseMark(c, s)
  \/ opc = "s_undo" /\ scoped /\ RollbackToMark(c, s)
  \/ opc = "s_end" /\ ~scoped /\ CommitOk(c)

(* save_changes is cancelled.  A managed connection is discarded by the     *)
(* guard, once it exists, and one in a slot stays there; SQLite's returns   *)
(* from spawn_blocking to the pool.  One that was borrowed without a guard  *)
(* goes back as it is.                                                      *)
SaveCancel(s) ==
  /\ (IF opc = "s_begin" THEN "begin" ELSE "save") \in Cancels
  /\ s \in osave /\ opc # "idle"
  /\ \/ /\ opc \in {"s_route", "s_pool"} \/ ~SaveSlotFree(s) \/ SaveConsumed(s)
        /\ UNCHANGED <<holder, db>>
     \/ /\ opc \notin {"s_route", "s_pool"} /\ SaveSlotFree(s)
        /\ \E c \in Conns :
             /\ SaveConn(s, c)
             /\ IF Provider # "sqlite" /\ ~scoped /\ opc # "s_begin"
                  THEN \E applied \in BOOLEAN :
                         /\ applied => opc = "s_end"
                         /\ EndTxn(c, applied)
                  ELSE InFlight(s, c)
             /\ IF Provider # "sqlite" /\ via[s] # NoHandle
                  THEN UNCHANGED holder
                  ELSE GiveBack(c)
  /\ SaveEnds(s, "cancelled")
  /\ UNCHANGED <<active, handle, tpc, via>>

-----------------------------------------------------------------------------
(* The transaction handle.                                                  *)

HandleTake(t, op) ==
  /\ hpc[t] = "live" /\ MayStart
  /\ hop' = [hop EXCEPT ![t] = op]
  /\ hpc' = [hpc EXCEPT ![t] = IF op = "drop" THEN "drop" ELSE "take"]
  /\ points' = [points EXCEPT ![t] = <<>>]
  /\ UNCHANGED <<holder, db, active, owner, hres, bg, tpc, via, res>>

HandleCommit(t) == HandleTake(t, "commit")
HandleRollback(t) == HandleTake(t, "rollback")
HandleDrop(t) == MayDrop /\ HandleTake(t, "drop")

(* create_point, rollback_point and release_point: one statement each, with *)
(* the slot locked.  Where the slot has lost its connection they return an  *)
(* error and change nothing.  What the holder of the handle knows (points)  *)
(* decides which work it takes for undone.                                  *)
PointCall(t) == hpc[t] = "live" /\ MayStart /\ ~Busy(t)

Acknowledged(t) == {w \in Work : via[w] = t /\ res[w] = "ok"}

CreatePoint(t, n) ==
  /\ PointCall(t) /\ Len(points[t]) < MaxPoints
  /\ \E c \in Conns :
       /\ holder[c] = Slot(t)
       /\ \/ /\ SetMark(c, n)
             /\ points' = [points EXCEPT ![t] = Append(@, [name |-> n, done |-> Acknowledged(t)])]
          \/ PointFails(c, n, "savepoint") /\ UNCHANGED points
  /\ UNCHANGED <<holder, active, owner, hpc, hop, hres, bg, tpc, via, res>>

RollbackPoint(t, n) ==
  /\ PointCall(t)
  /\ \E c \in Conns :
       /\ holder[c] = Slot(t)
       /\ \/ /\ RollbackToMark(c, n)
             /\ \E i \in DOMAIN points[t] :
                  /\ Newest(points[t], n, i)
                  /\ points' = [points EXCEPT ![t] = SubSeq(@, 1, i)]
                  /\ res' = [w \in Work |-> IF w \in Acknowledged(t) \ points[t][i].done
                                              THEN "undone" ELSE res[w]]
          \/ PointFails(c, n, "rollback_to") /\ UNCHANGED <<points, res>>
  /\ UNCHANGED <<holder, active, owner, hpc, hop, hres, bg, tpc, via>>

ReleasePoint(t, n) ==
  /\ PointCall(t)
  /\ \E c \in Conns :
       /\ holder[c] = Slot(t)
       /\ \/ /\ ReleaseMark(c, n)
             /\ \E i \in DOMAIN points[t] :
                  /\ Newest(points[t], n, i)
                  /\ points' = [points EXCEPT ![t] = SubSeq(@, 1, i - 1)]
          \/ PointFails(c, n, "release") /\ UNCHANGED points
  /\ UNCHANGED <<holder, active, owner, hpc, hop, hres, bg, tpc, via, res>>

(* set_isolation inside the transaction.  Success has no effect on what is  *)
(* modelled; PostgreSQL refuses it after a statement, and an error there    *)
(* aborts the transaction.                                                  *)
SetIsolation(t) ==
  /\ PointCall(t) /\ "isolation" \in Faults
  /\ \E c \in Conns :
       /\ holder[c] = Slot(t)
       /\ txs' = [txs EXCEPT ![c] = AbortsOnError(c)]
  /\ UNCHANGED <<holder, pending, mark, durable, active, owner, handle, tpc, via, res>>

(* SharedTxn::take waits for the slot lock.  A slot whose connection was    *)
(* lost to a cancelled SQLite statement yields an error.                    *)
TakeConn(t) ==
  /\ hpc[t] = "take" /\ ~Busy(t)
  /\ \/ \E c \in Conns :
          /\ holder[c] = Slot(t)
          /\ holder' = [holder EXCEPT ![c] = Taker(t)]
          /\ hpc' = [hpc EXCEPT ![t] = "exec"]
          /\ UNCHANGED hres
     \/ /\ \A c \in Conns : holder[c] # Slot(t)
        /\ hpc' = [hpc EXCEPT ![t] = "clear"]
        /\ hres' = [hres EXCEPT ![t] = "err"]
        /\ UNCHANGED holder
  /\ UNCHANGED <<db, active, owner, hop, bg, points, tpc, via, res>>

Finish(t) ==
  /\ hpc[t] = "exec"
  /\ \E c \in Conns :
       /\ holder[c] = Taker(t)
       /\ \/ /\ hop[t] = "commit" /\ CommitOk(c)
             /\ hres' = [hres EXCEPT ![t] = "ok"]
          \/ /\ hop[t] = "commit" /\ CommitFails(c)
             /\ hres' = [hres EXCEPT ![t] = "err"]
          \/ /\ hop[t] = "rollback" /\ EndTxn(c, FALSE)
             /\ hres' = [hres EXCEPT ![t] = "ok"]
          \/ /\ hop[t] = "rollback" /\ "rollback" \in Faults /\ EndTxn(c, FALSE)
             /\ hres' = [hres EXCEPT ![t] = "err"]
       /\ GiveBack(c)
  /\ hpc' = [hpc EXCEPT ![t] = "clear"]
  /\ UNCHANGED <<active, owner, hop, bg, points, tpc, via, res>>

(* session.clear().await                                                    *)
ClearSession(t) ==
  /\ hpc[t] = "clear" /\ LockFree
  /\ active' = NoHandle
  /\ hpc' = [hpc EXCEPT ![t] = "drop"]
  /\ UNCHANGED <<holder, db, owner, hop, hres, bg, points, tpc, via, res>>

(* Mutant: drop does not clear the session.                                 *)
DropClearNow_Missing(t) ==
  /\ hpc[t] = "drop"
  /\ hpc' = [hpc EXCEPT ![t] = IF hop[t] = "drop" THEN "try" ELSE "done"]
  /\ UNCHANGED <<holder, db, active, owner, hop, hres, bg, points, tpc, via, res>>

(* DbTransaction::drop, run by every end of a handle: clear_now() clears    *)
(* the session only if nobody holds its lock.                               *)
DropClearNow(t) ==
  /\ hpc[t] = "drop"
  /\ active' = IF LockFree THEN NoHandle ELSE active
  /\ hpc' = [hpc EXCEPT ![t] = IF hop[t] = "drop" THEN "try" ELSE "done"]
  /\ UNCHANGED <<holder, db, owner, hop, hres, bg, points, tpc, via, res>>

(* Rest of drop for a handle that was never consumed: an idle connection is *)
(* discarded, a busy one is left to a background task.                      *)
DropTryTake(t) ==
  /\ hpc[t] = "try"
  /\ \/ ~Busy(t) /\ \E c \in Conns : holder[c] = Slot(t) /\ Discard(c) /\ UNCHANGED bg
     \/ /\ ~Busy(t) /\ \A c \in Conns : holder[c] # Slot(t)
        /\ UNCHANGED <<holder, db, bg>>
     \/ /\ Busy(t) \/ SaveMayRun(t)
        /\ \/ bg' = [bg EXCEPT ![t] = "take"]
           \/ RuntimeStops /\ UNCHANGED bg
        /\ UNCHANGED <<holder, db>>
  /\ hpc' = [hpc EXCEPT ![t] = "done"]
  /\ UNCHANGED <<active, owner, hop, hres, points, tpc, via, res>>

(* Mutant: the background task takes the session lock before the slot.      *)
BackgroundRollback_LocksFirst(t) ==
  /\ bg[t] = "take" /\ ~Busy(t) /\ LockFree
  /\ \/ \E c \in Conns : holder[c] = Slot(t) /\ Discard(c)
     \/ (\A c \in Conns : holder[c] # Slot(t)) /\ UNCHANGED <<holder, db>>
  /\ bg' = [bg EXCEPT ![t] = "clear"]
  /\ UNCHANGED <<active, owner, hpc, hop, hres, points, tpc, via, res>>

BackgroundRollback(t) ==
  /\ bg[t] = "take" /\ ~Busy(t)
  /\ \/ \E c \in Conns : holder[c] = Slot(t) /\ Discard(c)
     \/ (\A c \in Conns : holder[c] # Slot(t)) /\ UNCHANGED <<holder, db>>
  /\ bg' = [bg EXCEPT ![t] = "clear"]
  /\ UNCHANGED <<active, owner, hpc, hop, hres, points, tpc, via, res>>

(* session.clear().await of the background task: whatever is registered.    *)
BackgroundClear(t) ==
  /\ bg[t] = "clear" /\ LockFree
  /\ active' = NoHandle
  /\ bg' = [bg EXCEPT ![t] = "none"]
  /\ UNCHANGED <<holder, db, owner, hpc, hop, hres, points, tpc, via, res>>

(* The future of commit / rollback is dropped: the guard discards the       *)
(* connection (SQLite: the blocking task returns it to the pool), and the   *)
(* handle, whose state was taken, runs only clear_now().                    *)
HandleCancel(t) ==
  /\ "commit" \in Cancels
  /\ hpc[t] \in {"take", "exec", "clear"}
  /\ IF hpc[t] = "exec"
       THEN \E c \in Conns :
              /\ holder[c] = Taker(t) /\ GiveBack(c)
              /\ \/ Provider # "sqlite" /\ EndTxn(c, FALSE)
                 \/ Provider = "sqlite" /\ UNCHANGED db
                 \/ hop[t] = "commit" /\ CommitOk(c)
                 \/ hop[t] = "rollback" /\ EndTxn(c, FALSE)
       ELSE UNCHANGED <<holder, db>>
  /\ hpc' = [hpc EXCEPT ![t] = "drop"]
  /\ hres' = [hres EXCEPT ![t] = "cancelled"]
  /\ UNCHANGED <<active, owner, hop, bg, points, tpc, via, res>>

(* SharedTxn::drop: the last reference is gone and a connection is left.    *)
Referenced(t) ==
  \/ active = t \/ hpc[t] \in {"live", "take", "try"} \/ bg[t] = "take"
  \/ hpc[t] = "drop" /\ hop[t] = "drop"
  \/ \E k \in Stmts : via[k] = t /\ tpc[k] \in {"slot", "run"}
  \/ \E s \in osave : via[s] = t

(* Mutant: SharedTxn has no Drop.                                           *)
SharedTxnDrop_Missing(t) == FALSE /\ t \in Handles /\ UNCHANGED vars

SharedTxnDrop(t) ==
  /\ ~Referenced(t)
  /\ \E c \in Conns : holder[c] = Slot(t) /\ Discard(c)
  /\ UNCHANGED <<active, owner, handle, tpc, via, res>>

-----------------------------------------------------------------------------
Init ==
  /\ holder = [c \in Conns |-> Pool]
  /\ txs = [c \in Conns |-> "none"]
  /\ pending = [c \in Conns |-> {}]
  /\ mark = [c \in Conns |-> <<>>]
  /\ durable = {}
  /\ active = NoHandle
  /\ opc = "idle" /\ osave = {} /\ scoped = FALSE
  /\ hpc = [t \in Handles |-> "none"]
  /\ hop = [t \in Handles |-> "none"]
  /\ hres = [t \in Handles |-> "none"]
  /\ bg = [t \in Handles |-> "none"]
  /\ points = [t \in Handles |-> <<>>]
  /\ tpc = [k \in Stmts |-> "idle"]
  /\ via = [w \in Work |-> NoHandle]
  /\ res = [w \in Work |-> "none"]

StmtStep(k) == StmtRoute(k) \/ StmtAcquire(k) \/ StmtLockSlot(k) \/ StmtRun(k)
BeginStep == BeginAcquire \/ (\E t \in Handles : BeginOk(t)) \/ BeginFails
SaveStep(s) == \/ SaveRoute(s) \/ SaveAcquire(s) \/ SaveBegin(s) \/ SavePoint(s)
               \/ SaveDml(s) \/ SaveManagedEnd(s) \/ SaveRollbackTo(s) \/ SaveRelease(s)
HandleStep(t) == \/ TakeConn(t) \/ Finish(t) \/ ClearSession(t)
                 \/ DropClearNow(t) \/ DropTryTake(t)
BackgroundStep(t) == BackgroundRollback(t) \/ BackgroundClear(t) \/ SharedTxnDrop(t)

(* What the caller decides: to start a call, or to drop one in progress.    *)
CallerStep ==
  \/ \E k \in Stmts : StmtStart(k) \/ StmtCancel(k)
  \/ BeginLock \/ BeginCancel
  \/ \E s \in Saves : SaveStart(s) \/ SaveCancel(s)
  \/ \E t \in Handles : HandleCommit(t) \/ HandleRollback(t) \/ HandleDrop(t) \/ HandleCancel(t)
  \/ \E t \in Handles, n \in Points : CreatePoint(t, n) \/ RollbackPoint(t, n) \/ ReleasePoint(t, n)
  \/ \E t \in Handles : SetIsolation(t)

Next ==
  \/ CallerStep
  \/ \E k \in Stmts : StmtStep(k)
  \/ BeginStep
  \/ \E s \in Saves : SaveStep(s)
  \/ \E t \in Handles : HandleStep(t) \/ BackgroundStep(t)

Spec == Init /\ [][Next]_vars

(* The runtime polls every future that is ready, and the tokio mutexes are  *)
(* FIFO; nothing obliges the caller to start, finish or drop anything.      *)
Fairness ==
  /\ \A k \in Stmts : WF_vars(StmtStep(k))
  /\ WF_vars(BeginStep)
  /\ \A s \in Saves : WF_vars(SaveStep(s))
  /\ \A t \in Handles : WF_vars(HandleStep(t)) /\ WF_vars(BackgroundStep(t))

FairSpec == Spec /\ Fairness

-----------------------------------------------------------------------------
Holders == {Pool, Owner} \cup {Slot(t) : t \in Handles}
             \cup {Taker(t) : t \in Handles} \cup {User(k) : k \in Stmts}

(* A savepoint lives inside a transaction.                                  *)
DbType ==
  /\ txs \in [Conns -> {"none", "open", "aborted"}]
  /\ pending \in [Conns -> SUBSET Work]
  /\ mark \in [Conns -> Seq([name : Points \cup Saves, work : SUBSET Work])]
  /\ \A c \in Conns : txs[c] = "none" => mark[c] = <<>>
  /\ durable \subseteq Work

(* The owner has a save in progress exactly while it is in save_changes.    *)
OwnerType ==
  /\ opc \in {"idle", "b_pool", "b_exec", "s_route", "s_pool", "s_begin", "s_point",
              "s_dml", "s_more", "s_end", "s_undo", "s_undone"}
  /\ osave \subseteq Saves
  /\ opc \in {"idle", "b_pool", "b_exec"} <=> osave = {}
  /\ scoped \in BOOLEAN

HandleType ==
  /\ hpc \in [Handles -> {"none", "live", "take", "exec", "clear", "drop", "try", "done"}]
  /\ hop \in [Handles -> {"none", "commit", "rollback", "drop"}]
  /\ hres \in [Handles -> {"none", "ok", "err", "cancelled"}]
  /\ bg \in [Handles -> {"none", "take", "clear"}]
  /\ points \in [Handles -> Seq([name : Points, done : SUBSET Work])]

WorkType ==
  /\ tpc \in [Stmts -> {"idle", "route", "pool", "slot", "run", "done"}]
  /\ via \in [Work -> Handles \cup {NoHandle}]
  /\ res \in [Work -> {"none", "ok", "err", "cancelled", "undone"}]

(* Type invariant of the session, the pool and the tasks.                   *)
TypeOK ==
  /\ holder \in [Conns -> Holders]
  /\ active \in Handles \cup {NoHandle}
  /\ DbType /\ OwnerType /\ HandleType /\ WorkType

(* A connection in the pool is never inside a transaction, whatever failed  *)
(* or was dropped on the way (ConnectionGuard::drop, discard,               *)
(* SharedTxn::drop, the early returns of begin_with and save_changes).      *)
PoolIsClean ==
  \A c \in Conns : holder[c] = Pool => txs[c] = "none" /\ pending[c] = {}

(* While a handle has not been consumed, its transaction is the one every   *)
(* call on the context runs in (Session::txn).                              *)
HandleOwnsSession == \A t \in Handles : hpc[t] = "live" => active = t

(* Work the caller was told has succeeded survives: autocommitted work and  *)
(* managed saves at once, work inside a transaction when its commit returns *)
(* Ok, unless rollback_point took it back.                                  *)
AcknowledgedIsDurable ==
  \A w \in Work :
    /\ res[w] = "ok"
    /\ \/ via[w] = NoHandle
       \/ \E t \in Handles : via[w] = t /\ hop[t] = "commit" /\ hres[t] = "ok"
    => w \in durable

(* The same where calls overlap and anything may fail, for a transaction in *)
(* which every call succeeded: a failed statement aborts it in PostgreSQL,  *)
(* and a failed save rolls back to its savepoint.                           *)
CommittedIsDurable ==
  \A t \in Handles :
    hop[t] = "commit" /\ hres[t] = "ok" =>
      LET work == {w \in Work : via[w] = t} IN
      (\A w \in work : res[w] = "ok") => work \subseteq durable

(* Nothing routed to a transaction that was rolled back or dropped is ever  *)
(* committed, neither by it nor through a connection it left behind.        *)
AbandonedIsGone ==
  \A w \in Work, t \in Handles :
    via[w] = t /\ hop[t] \in {"rollback", "drop"} => w \notin durable

(* A save that returned Err left nothing behind (fail_save), and neither    *)
(* did work that rollback_point took back: not in the database, and not in  *)
(* the transaction, also where saves set savepoints of their own between    *)
(* create_point and rollback_point.                                         *)
UndoneIsGone ==
  \A w \in Work :
    res[w] = "undone" \/ (w \in Saves /\ res[w] = "err")
    => w \notin durable /\ \A c \in Conns : w \notin pending[c]

(* A consumed handle does not stay registered: the context can begin again  *)
(* and its statements go back to the pool (clear, clear_now, the background *)
(* clear).                                                                  *)
SessionRecovers == \A t \in Handles : hpc[t] = "done" ~> active # t

(* The connection of a handle that is gone and no longer registered returns *)
(* to the pool, also when a statement was using it and the runtime could not*)
(* run the background task (DbTransaction::drop, SharedTxn::drop).          *)
ConnectionsReturn ==
  \A t \in Handles, c \in Conns :
    hpc[t] = "done" /\ active # t /\ holder[c] = Slot(t) ~> holder[c] # Slot(t)

(* A transaction nobody has ended, or one a session did not recover from,   *)
(* keeps its connection: for as long as that takes a full pool stays full.  *)
HandleIsHeld == \E t \in Handles : hpc[t] = "live" \/ (hpc[t] = "done" /\ active = t)

(* No two calls wait for each other, nor for something nobody gives back:   *)
(* begin_with holds the session lock while it waits for a connection of the *)
(* pool, a statement holds the slot lock while it runs, commit needs the    *)
(* slot and then the session lock, and so does the background rollback,     *)
(* which may be what a begin waits for.  Every call returns, and every      *)
(* background rollback ends, unless a transaction is held to the end.       *)
CallsReturn ==
  /\ opc # "idle" ~> opc = "idle" \/ []HandleIsHeld
  /\ \A k \in Stmts : tpc[k] = "route" ~> tpc[k] = "done" \/ []HandleIsHeld
  /\ \A t \in Handles : hpc[t] = "take" ~> hpc[t] = "done" \/ []HandleIsHeld
  /\ \A t \in Handles : bg[t] = "take" ~> bg[t] = "none" \/ []HandleIsHeld

=============================================================================
