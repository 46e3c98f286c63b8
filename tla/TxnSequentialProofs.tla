------------------------ MODULE TxnSequentialProofs -------------------------
(* A context whose calls are awaited one after the other: work acknowledged *)
(* in a transaction of TxnSession is durable after its commit, also where   *)
(* savepoints are used and other work failed, and what a failed save or a   *)
(* rollback_point took back is nowhere.                                     *)
EXTENDS TxnSessionProofs

SeqSafe == ~Concurrent /\ SafeUse /\ SlotsAreKept
EarlierInv == PoolInv /\ CallInv /\ GoneInv /\ FrameInv

(* The savepoints of a connection, q, where P is pending: each has the work *)
(* of those below it, all of which is still pending; and in MySQL names are *)
(* unique.                                                                  *)
StackOk(q, P) ==
  /\ \A i, j \in DOMAIN q : i < j => q[i].work \subseteq q[j].work
  /\ \A i \in DOMAIN q : q[i].work \subseteq P
  /\ Provider = "mysql" => \A i, j \in DOMAIN q : q[i].name = q[j].name => i = j

(* How the savepoints of a connection, q, and those the holder of the handle*)
(* knows, p, go together: f leads from each of its savepoints in q to the   *)
(* one in p, in order and by name; the newest of a name in q is the newest  *)
(* in p; and both have the same acknowledged work A.                        *)
Paired(q, p, A, f) == \A i \in DOMAIN q : q[i].name \in Points =>
  /\ f[i] \in DOMAIN p
  /\ p[f[i]].name = q[i].name
  /\ q[i].work \cap A = p[f[i]].done \cap A
  /\ \A j \in DOMAIN q : j < i /\ q[j].name \in Points => f[j] < f[i]
  /\ \A l \in DOMAIN p : l > f[i] /\ p[l].name = q[i].name =>
       \E j \in DOMAIN q : j > i /\ q[j].name \in Points /\ f[j] = l
Pairs(q, p, A) == \E f \in [DOMAIN q -> Nat] : Paired(q, p, A, f)

StacksGrow == \A c \in Conns : StackOk(mark[c], pending[c])
HeldIsOpen == \A c \in Conns, t \in Handles : Held(c, t) => txs[c] # "none"

(* Uncommitted work outside a joined transaction is that of a managed save. *)
PooledIsManaged == \A c \in Conns, w \in Work : Holds(c, w) /\ via[w] = NoHandle =>
  w \in osave /\ holder[c] = Owner /\ ~scoped /\ opc \in InSave

(* A save uses the session it found, is not committed before it ends, no    *)
(* savepoint has any of it, and when it joined a transaction its own is the *)
(* last one.                                                                *)
ScopedIsJoined == osave # {} =>
  /\ scoped <=> active # NoHandle
  /\ opc = "s_point" => scoped
  /\ opc # "s_route" => \A s \in osave : via[s] = active
SaveIsOpen == \A s \in osave :
  /\ s \notin durable
  /\ \A c \in Conns : \A i \in DOMAIN mark[c] : s \notin mark[c][i].work
  /\ ~scoped /\ opc \in InSave => \A c \in Conns : holder[c] = Owner => txs[c] # "none"
SaveIsMarked == scoped /\ opc \in InSave => \A s \in osave : \E c \in Conns :
  /\ holder[c] = Slot(via[s]) /\ mark[c] # <<>> /\ mark[c][Len(mark[c])].name = s
SaveIsPending == opc \in {"s_more", "s_end"} => \A s \in osave, c \in Conns : SaveConn(s, c) => s \in pending[c]

PointsAreSettled == \A t \in Handles : \A i \in DOMAIN points[t] : \A w \in points[t][i].done : res[w] # "none"
AckIsPending == \A c \in Conns, t \in Handles : Held(c, t) => Acknowledged(t) \subseteq pending[c]
AckIsMarked == scoped /\ opc \in InSave => \A s \in osave, c \in Conns :
  holder[c] = Slot(via[s]) => Acknowledged(via[s]) \subseteq mark[c][Len(mark[c])].work
PointsMatch == \A t \in Handles, c \in Conns :
  hpc[t] = "live" /\ holder[c] = Slot(t) => Pairs(mark[c], points[t], Acknowledged(t))

SeqInv ==
  /\ EarlierInv
  /\ StacksGrow /\ HeldIsOpen /\ PooledIsManaged
  /\ ScopedIsJoined /\ SaveIsOpen /\ SaveIsMarked /\ SaveIsPending
  /\ PointsAreSettled /\ AckIsPending /\ AckIsMarked /\ PointsMatch

KeepSafe == Provider = "postgres" =>
  Points = {} /\ {"stmt", "savepoint", "release", "rollback_to", "isolation"} \cap Faults = {}
NeverAborted == \A c \in Conns : txs[c] # "aborted"
AckInv == NeverAborted /\ AcknowledgedIsDurable

UndoSafe == "rollback_to" \notin Faults /\ (Provider # "sqlite" => "commit" \notin Faults)
UndoneIsNowhere == \A w \in Work : res[w] = "undone" \/ (w \in Saves /\ res[w] = "err") \/ (w \in osave /\ opc = "s_undone") => ~Written(w)

-----------------------------------------------------------------------------
(* Stacks of savepoints.                                                    *)

(* What is below a place of a stack.                                        *)
LEMMA CutStack ==
  ASSUME NEW R, NEW q \in Seq(R), NEW a \in 0 .. Len(q)
  PROVE  /\ SubSeq(q, 1, a) \in Seq(R)
         /\ Len(SubSeq(q, 1, a)) = a /\ DOMAIN SubSeq(q, 1, a) = 1 .. a
         /\ 1 .. a \subseteq DOMAIN q
         /\ \A j \in 1 .. a : SubSeq(q, 1, a)[j] = q[j]
<1>1. Len(q) \in Nat /\ DOMAIN q = 1 .. Len(q) BY LenProperties
<1>2. \A j \in 1 .. a : q[j] \in R BY <1>1, ElementOfSeq
<1>3. SubSeq(q, 1, a) \in Seq(R) /\ Len(SubSeq(q, 1, a)) = a /\ \A j \in 1 .. a : SubSeq(q, 1, a)[j] = q[j]
  BY <1>1, <1>2, SubSeqProperties
<1> QED BY <1>1, <1>3, LenProperties

LEMMA GrownStack ==
  ASSUME NEW R, NEW q \in Seq(R), NEW e \in R
  PROVE  /\ Append(q, e) \in Seq(R) /\ Append(q, e) # <<>>
         /\ Len(q) \in Nat /\ Len(Append(q, e)) = Len(q) + 1
         /\ DOMAIN q = 1 .. Len(q) /\ DOMAIN Append(q, e) = 1 .. Len(q) + 1
         /\ \A j \in DOMAIN q : Append(q, e)[j] = q[j]
         /\ Append(q, e)[Len(q) + 1] = e
<1>1. Append(q, e) \in Seq(R) /\ Append(q, e) # <<>> /\ Len(Append(q, e)) = Len(q) + 1 BY AppendProperties
<1>2. Len(q) \in Nat /\ DOMAIN q = 1 .. Len(q) BY LenProperties
<1>3. DOMAIN Append(q, e) = 1 .. Len(q) + 1 BY <1>1, LenProperties
<1> QED BY <1>1, <1>2, <1>3, AppendProperties

(* Where the savepoints that stay were before one was deleted.              *)
Shift(i, j) == IF j < i THEN j ELSE j + 1

LEMMA ShiftedStack ==
  ASSUME NEW R, NEW q \in Seq(R), NEW i \in DOMAIN q
  PROVE  /\ Without(q, i) \in Seq(R)
         /\ Len(q) \in Nat /\ DOMAIN q = 1 .. Len(q) /\ DOMAIN Without(q, i) = 1 .. Len(q) - 1
         /\ \A j \in DOMAIN Without(q, i) : /\ Shift(i, j) \in DOMAIN q /\ Shift(i, j) # i
                                            /\ Without(q, i)[j] = q[Shift(i, j)]
<1>1. Len(q) \in Nat /\ DOMAIN q = 1 .. Len(q) /\ i \in 1 .. Len(q) BY LenProperties
<1> DEFINE a == SubSeq(q, 1, i - 1)
           b == SubSeq(q, i + 1, Len(q))
<1>2. \A m \in 1 .. Len(q) : q[m] \in R BY ElementOfSeq
<1>3. a \in Seq(R) /\ Len(a) = i - 1 /\ \A m \in 1 .. i - 1 : a[m] = q[m]
  BY <1>1, <1>2, SubSeqProperties
<1>4. b \in Seq(R) /\ Len(b) = Len(q) - i /\ \A m \in 1 .. Len(q) - i : b[m] = q[i + m]
  BY <1>1, <1>2, SubSeqProperties
<1> HIDE DEF a, b
<1>5. Without(q, i) = a \o b BY DEF Without, a, b
<1>6. /\ a \o b \in Seq(R) /\ Len(a \o b) = Len(q) - 1
      /\ \A m \in 1 .. Len(q) - 1 : (a \o b)[m] = IF m <= i - 1 THEN a[m] ELSE b[m - (i - 1)]
  <2>1. /\ a \o b \in Seq(R) /\ Len(a \o b) = Len(a) + Len(b)
        /\ \A m \in 1 .. Len(a) + Len(b) : (a \o b)[m] = IF m <= Len(a) THEN a[m] ELSE b[m - Len(a)]
    BY <1>3, <1>4, ConcatProperties
  <2>2. Len(a) + Len(b) = Len(q) - 1 BY <1>1, <1>3, <1>4
  <2> QED BY <1>3, <2>1, <2>2
<1>7. DOMAIN (a \o b) = 1 .. Len(q) - 1 BY <1>6, LenProperties
<1>8. ASSUME NEW j \in 1 .. Len(q) - 1
      PROVE  /\ Shift(i, j) \in DOMAIN q /\ Shift(i, j) # i
             /\ (a \o b)[j] = q[Shift(i, j)]
  <2>1. CASE j < i BY <1>1, <1>3, <1>6, <2>1 DEF Shift
  <2>2. CASE ~(j < i)
    <3>1. j - (i - 1) \in 1 .. Len(q) - i /\ i + (j - (i - 1)) = j + 1 /\ ~(j <= i - 1) BY <1>1, <2>2
    <3>2. (a \o b)[j] = q[j + 1] BY <1>4, <1>6, <3>1
    <3> QED BY <1>1, <2>2, <3>2 DEF Shift
  <2> QED BY <2>1, <2>2
<1> QED BY <1>1, <1>5, <1>6, <1>7, <1>8

LEMMA StackLess ==
  ASSUME NEW R, NEW q \in Seq(R), NEW P, StackOk(q, P), NEW a \in 0 .. Len(q)
  PROVE  /\ StackOk(SubSeq(q, 1, a), P)
         /\ a \in DOMAIN q => StackOk(SubSeq(q, 1, a), q[a].work)
<1>1. /\ DOMAIN SubSeq(q, 1, a) = 1 .. a /\ 1 .. a \subseteq DOMAIN q
      /\ \A j \in 1 .. a : SubSeq(q, 1, a)[j] = q[j]
  BY CutStack
<1>2. Len(q) \in Nat BY LenProperties
<1>3. a \in DOMAIN q => \A j \in 1 .. a : q[j].work \subseteq q[a].work
  <2> SUFFICES ASSUME a \in DOMAIN q, NEW j \in 1 .. a PROVE q[j].work \subseteq q[a].work OBVIOUS
  <2>1. j = a \/ j < a BY <1>2
  <2> QED BY <1>1, <2>1 DEF StackOk
<1> DEFINE o == SubSeq(q, 1, a)
<1>4. DOMAIN o = 1 .. a /\ \A j \in DOMAIN o : j \in DOMAIN q /\ o[j] = q[j] BY <1>1
<1> HIDE DEF o
<1>5. StackOk(o, P)
  <2>1. \A i, j \in DOMAIN o : i < j => o[i].work \subseteq o[j].work BY <1>4 DEF StackOk
  <2>2. \A i \in DOMAIN o : o[i].work \subseteq P BY <1>4 DEF StackOk
  <2>3. Provider = "mysql" => \A i, j \in DOMAIN o : o[i].name = o[j].name => i = j BY <1>4 DEF StackOk
  <2> QED BY <2>1, <2>2, <2>3 DEF StackOk
<1>6. a \in DOMAIN q => StackOk(o, q[a].work)
  <2> SUFFICES ASSUME a \in DOMAIN q PROVE StackOk(o, q[a].work) OBVIOUS
  <2>1. \A j \in DOMAIN o : o[j].work \subseteq q[a].work BY <1>3, <1>4
  <2> QED BY <1>5, <2>1 DEF StackOk
<1>7. StackOk(o, P) /\ (a \in DOMAIN q => StackOk(o, q[a].work)) BY <1>5, <1>6
<1> QED BY <1>7 DEF o

LEMMA StackMore ==
  ASSUME NEW R, NEW q \in Seq(R), NEW P, StackOk(q, P), NEW n, [name |-> n, work |-> P] \in R,
         Provider = "mysql" => \A i \in DOMAIN q : q[i].name # n
  PROVE  StackOk(Append(q, [name |-> n, work |-> P]), P)
<1> DEFINE e == [name |-> n, work |-> P]
<1>1. /\ DOMAIN q = 1 .. Len(q) /\ DOMAIN Append(q, e) = 1 .. Len(q) + 1 /\ Len(q) \in Nat
      /\ \A j \in DOMAIN q : Append(q, e)[j] = q[j]
      /\ Append(q, e)[Len(q) + 1] = e
  BY GrownStack
<1>2. e.name = n /\ e.work = P OBVIOUS
<1> HIDE DEF e
<1>3. ASSUME NEW i \in 1 .. Len(q) + 1, NEW j \in 1 .. Len(q) + 1, i < j
      PROVE  Append(q, e)[i].work \subseteq Append(q, e)[j].work
  <2>1. i \in DOMAIN q BY <1>1, <1>3
  <2>2. CASE j = Len(q) + 1 BY <1>1, <1>2, <2>1, <2>2 DEF StackOk
  <2>3. CASE j \in DOMAIN q BY <1>1, <1>3, <2>1, <2>3 DEF StackOk
  <2> QED BY <1>1, <2>2, <2>3
<1>4. ASSUME NEW i \in 1 .. Len(q) + 1 PROVE Append(q, e)[i].work \subseteq P
  <2>1. i \in DOMAIN q \/ i = Len(q) + 1 BY <1>1
  <2> QED BY <1>1, <1>2, <2>1 DEF StackOk
<1>5. ASSUME Provider = "mysql", NEW i \in 1 .. Len(q) + 1, NEW j \in 1 .. Len(q) + 1,
             Append(q, e)[i].name = Append(q, e)[j].name
      PROVE  i = j
  <2>1. (i \in DOMAIN q \/ i = Len(q) + 1) /\ (j \in DOMAIN q \/ j = Len(q) + 1) BY <1>1
  <2> QED BY <1>1, <1>2, <1>5, <2>1 DEF StackOk
<1>6. StackOk(Append(q, e), P) BY <1>1, <1>3, <1>4, <1>5 DEF StackOk
<1> QED BY <1>6 DEF e

(* Deleting the newest of a name, where names are unique.                   *)
LEMMA StackWithout ==
  ASSUME NEW R, NEW q \in Seq(R), NEW P, StackOk(q, P), NEW n, NEW i, Newest(q, n, i)
  PROVE  /\ StackOk(Without(q, i), P)
         /\ Provider = "mysql" => \A j \in DOMAIN Without(q, i) : Without(q, i)[j].name # n
<1>1. i \in DOMAIN q /\ q[i].name = n BY DEF Newest
<1>2. /\ Len(q) \in Nat /\ DOMAIN q = 1 .. Len(q) /\ DOMAIN Without(q, i) = 1 .. Len(q) - 1
      /\ \A j \in DOMAIN Without(q, i) : /\ Shift(i, j) \in DOMAIN q /\ Shift(i, j) # i
                                         /\ Without(q, i)[j] = q[Shift(i, j)]
  BY <1>1, ShiftedStack
<1> DEFINE o == Without(q, i)
<1>4. \A j \in DOMAIN o : Shift(i, j) \in DOMAIN q /\ Shift(i, j) # i /\ o[j] = q[Shift(i, j)] BY <1>2
<1>5. \A j, l \in DOMAIN o : (j < l => Shift(i, j) < Shift(i, l)) /\ (Shift(i, j) = Shift(i, l) => j = l)
  <2>1. DOMAIN o = 1 .. Len(q) - 1 BY <1>2
  <2> HIDE DEF o
  <2> QED BY <1>1, <1>2, <2>1 DEF Shift
<1> HIDE DEF o
<1>6. \A j, l \in DOMAIN o : j < l => o[j].work \subseteq o[l].work BY <1>4, <1>5 DEF StackOk
<1>7. \A j \in DOMAIN o : o[j].work \subseteq P BY <1>4 DEF StackOk
<1>8. Provider = "mysql" => /\ \A j, l \in DOMAIN o : o[j].name = o[l].name => j = l
                           /\ \A j \in DOMAIN o : o[j].name # n
  BY <1>1, <1>4, <1>5 DEF StackOk
<1>9. StackOk(o, P) /\ (Provider = "mysql" => \A j \in DOMAIN o : o[j].name # n)
  BY <1>6, <1>7, <1>8 DEF StackOk
<1> QED BY <1>9 DEF o

(* What the operations of the database do to the stacks.                    *)
DbStep(c) ==
  \/ \E w \in Work : RunOk(c, w)
  \/ \E a : EndTxn(c, a)
  \/ OpenTxn(c)
  \/ UNCHANGED <<pending, mark>>
  \/ \E n \in Points \cup Saves : SetMark(c, n) \/ RollbackToMark(c, n) \/ ReleaseMark(c, n)

LEMMA StackStep ==
  ASSUME DbType, StacksGrow, NEW c \in Conns, DbStep(c)
  PROVE  StacksGrow'
<1>0. /\ pending \in [Conns -> SUBSET Work] /\ mark \in [Conns -> Seq(MarkEntry)] /\ mark[c] \in Seq(MarkEntry)
      /\ StackOk(mark[c], pending[c])
  BY DEF DbType, MarkEntry, StacksGrow
<1>1. ASSUME NEW q, NEW P, mark' = [mark EXCEPT ![c] = q], pending' = [pending EXCEPT ![c] = P], StackOk(q, P)
      PROVE  StacksGrow'
  BY <1>0, <1>1 DEF StacksGrow
<1>2. ASSUME NEW q, mark' = [mark EXCEPT ![c] = q], UNCHANGED pending, StackOk(q, pending[c])
      PROVE  StacksGrow'
  BY <1>0, <1>2 DEF StacksGrow
<1>3. StackOk(<<>>, {}) BY DEF StackOk
<1>4. ASSUME NEW w \in Work, RunOk(c, w) PROVE StacksGrow'
  <2>1. StackOk(mark[c], pending[c] \cup {w}) BY <1>0 DEF StackOk
  <2>2. mark' = mark /\ (pending' = pending \/ pending' = [pending EXCEPT ![c] = @ \cup {w}])
    BY <1>4 DEF RunOk
  <2> QED BY <1>0, <2>1, <2>2 DEF StacksGrow
<1>5. ASSUME NEW a, EndTxn(c, a) PROVE StacksGrow' BY <1>1, <1>3, <1>5 DEF EndTxn
<1>6. CASE UNCHANGED <<pending, mark>> BY <1>6 DEF StacksGrow
<1>7. CASE OpenTxn(c) BY <1>1, <1>3, <1>6, <1>7 DEF OpenTxn
<1>8. ASSUME NEW n \in Points \cup Saves, SetMark(c, n) PROVE StacksGrow'
  <2>1. CASE UNCHANGED db BY <1>6, <2>1 DEF db
  <2>2. ASSUME NEW q \in Seq(MarkEntry), AddMark(c, q, n), UNCHANGED pending, StackOk(q, pending[c]),
               Provider = "mysql" => \A i \in DOMAIN q : q[i].name # n
        PROVE  StacksGrow'
    <3>1. [name |-> n, work |-> pending[c]] \in MarkEntry BY <1>0 DEF MarkEntry
    <3>2. StackOk(Append(q, [name |-> n, work |-> pending[c]]), pending[c]) BY <2>2, <3>1, StackMore
    <3> QED BY <1>2, <2>2, <3>2 DEF AddMark
  <2>3. ASSUME NEW i \in DOMAIN mark[c], Newest(mark[c], n, i), AddMark(c, Without(mark[c], i), n),
               UNCHANGED pending
        PROVE  StacksGrow'
    <3>1. Without(mark[c], i) \in Seq(MarkEntry) BY <1>0, Stacks
    <3>2. /\ StackOk(Without(mark[c], i), pending[c])
          /\ Provider = "mysql" => \A j \in DOMAIN Without(mark[c], i) : Without(mark[c], i)[j].name # n
      BY <1>0, <2>3, StackWithout
    <3> QED BY <2>2, <2>3, <3>1, <3>2
  <2>4. CASE AddMark(c, mark[c], n) /\ UNCHANGED pending /\ ~(Provider = "mysql" /\ HasMark(c, n))
    BY <1>0, <2>2, <2>4 DEF HasMark
  <2> QED BY <1>8, <2>1, <2>3, <2>4 DEF SetMark
<1>9. ASSUME NEW n \in Points \cup Saves, RollbackToMark(c, n) PROVE StacksGrow'
  <2> PICK i \in DOMAIN mark[c] : /\ pending' = [pending EXCEPT ![c] = mark[c][i].work]
                                  /\ mark' = [mark EXCEPT ![c] = SubSeq(mark[c], 1, i)]
    BY <1>0, <1>9 DEF RollbackToMark
  <2>1. i \in 0 .. Len(mark[c]) BY <1>0, LenProperties
  <2>2. StackOk(SubSeq(mark[c], 1, i), mark[c][i].work) BY <1>0, <2>1, StackLess
  <2> QED BY <1>1, <2>2
<1>10. ASSUME NEW n \in Points \cup Saves, ReleaseMark(c, n) PROVE StacksGrow'
  <2> PICK i \in DOMAIN mark[c] :
        \/ EndTxn(c, TRUE)
        \/ mark' = [mark EXCEPT ![c] = SubSeq(mark[c], 1, i - 1)] /\ UNCHANGED pending
    BY <1>0, <1>10 DEF ReleaseMark
  <2>1. i - 1 \in 0 .. Len(mark[c]) BY <1>0, LenProperties
  <2>2. StackOk(SubSeq(mark[c], 1, i - 1), pending[c]) BY <1>0, <2>1, StackLess
  <2> QED BY <1>2, <1>5, <2>2
<1> QED BY <1>4, <1>5, <1>6, <1>7, <1>8, <1>9, <1>10 DEF DbStep

(* Every step of the system is at most one operation on one connection.     *)
LEMMA NextIsDbStep ==
  ASSUME TypeOK, [Next]_vars
  PROVE  UNCHANGED <<pending, mark>> \/ \E c \in Conns : DbStep(c)
<1>1. CASE UNCHANGED vars BY <1>1 DEF vars, db
<1>2. ASSUME NEW c \in Conns,
             \/ \E w \in Work : RunOk(c, w)
             \/ RunFails(c) \/ CommitOk(c) \/ CommitFails(c) \/ OpenTxn(c) \/ OpenFails(c)
             \/ \E a : EndTxn(c, a)
             \/ \E n \in Points \cup Saves : \/ SetMark(c, n) \/ RollbackToMark(c, n) \/ ReleaseMark(c, n)
                                            \/ \E f : PointFails(c, n, f)
      PROVE  DbStep(c)
  BY <1>2 DEF DbStep, RunFails, CommitOk, CommitFails, OpenFails, PointFails, db
<1>3. ASSUME NEW k \in Stmts, StmtStart(k) \/ StmtCancel(k) \/ StmtStep(k)
      PROVE  UNCHANGED <<pending, mark>> \/ \E c \in Conns : DbStep(c)
  <2>1. k \in Work BY DEF Work
  <2> QED BY <1>2, <1>3, <2>1 DEF StmtStart, StmtCancel, StmtStep, StmtRoute, StmtAcquire, StmtLockSlot, StmtRun, db
<1>4. CASE BeginLock \/ BeginCancel \/ BeginStep
  BY <1>2, <1>4 DEF BeginLock, BeginCancel, BeginStep, BeginAcquire, BeginOk, BeginFails, DbStep, db
<1>5. ASSUME NEW s \in Saves, SaveStart(s) \/ SaveCancel(s) \/ SaveStep(s)
      PROVE  UNCHANGED <<pending, mark>> \/ \E c \in Conns : DbStep(c)
  <2>1. s \in Work BY DEF Work
  <2>2. ASSUME NEW c \in Conns, InFlight(s, c) PROVE UNCHANGED <<pending, mark>> \/ DbStep(c)
    BY <1>2, <2>1, <2>2 DEF InFlight, db
  <2>3. CASE SaveCancel(s) BY <1>2, <2>2, <2>3 DEF SaveCancel, db
  <2> QED BY <1>2, <1>5, <2>1, <2>3 DEF SaveStart, SaveStep, SaveRoute, SaveAcquire, SaveBegin, SavePoint,
           SaveDml, SaveManagedEnd, SaveRollbackTo, SaveRelease, db
<1>6. ASSUME NEW t \in Handles, HandleCall(t) \/ HandleStep(t) \/ BackgroundStep(t)
      PROVE  UNCHANGED <<pending, mark>> \/ \E c \in Conns : DbStep(c)
  BY <1>2, <1>6 DEF HandleCall, HandleCommit, HandleRollback, HandleDrop, HandleTake, HandleCancel,
     HandleStep, TakeConn, Finish, ClearSession, DropClearNow, DropTryTake,
     BackgroundStep, BackgroundRollback, BackgroundClear, SharedTxnDrop, Discard, db
<1>7. ASSUME NEW t \in Handles, PointStep(t)
      PROVE  UNCHANGED <<pending, mark>> \/ \E c \in Conns : DbStep(c)
  BY <1>2, <1>7 DEF PointStep, SetIsolation, CreatePoint, RollbackPoint, ReleasePoint
<1> QED BY <1>1, <1>3, <1>4, <1>5, <1>6, <1>7 DEF Next, CallerStep, HandleCall, PointStep

LEMMA StackNext == TypeOK /\ StacksGrow /\ [Next]_vars => StacksGrow'
<1> SUFFICES ASSUME TypeOK, StacksGrow, [Next]_vars PROVE StacksGrow' OBVIOUS
<1>1. CASE UNCHANGED <<pending, mark>> BY <1>1 DEF StacksGrow
<1> QED BY <1>1, NextIsDbStep, StackStep DEF TypeOK

-----------------------------------------------------------------------------
(* The savepoints of the connection and those the holder of the handle      *)
(* knows, operation by operation.                                           *)
PointEntry == [name : Points, done : SUBSET Work]

LEMMA PairsEmpty ==
  ASSUME NEW p, NEW A
  PROVE  Pairs(<<>>, p, A)
<1>1. DOMAIN <<>> = {} OBVIOUS
<1>2. Paired(<<>>, p, A, [i \in DOMAIN <<>> |-> 0]) BY <1>1 DEF Paired
<1> QED BY <1>2 DEF Pairs

(* The acknowledged work changes, but not that in a savepoint.              *)
LEMMA PairsWork ==
  ASSUME NEW q, NEW p, NEW A, NEW B, Pairs(q, p, A),
         \A w \in B \ A : /\ \A i \in DOMAIN q : w \notin q[i].work
                          /\ \A l \in DOMAIN p : w \notin p[l].done
  PROVE  Pairs(q, p, B)
<1> PICK f \in [DOMAIN q -> Nat] : Paired(q, p, A, f) BY DEF Pairs
<1>1. ASSUME NEW i \in DOMAIN q, q[i].name \in Points
      PROVE  q[i].work \cap B = p[f[i]].done \cap B
  <2>1. f[i] \in DOMAIN p /\ q[i].work \cap A = p[f[i]].done \cap A BY <1>1 DEF Paired
  <2> QED BY <2>1
<1>2. Paired(q, p, B, f) BY <1>1 DEF Paired
<1> QED BY <1>2 DEF Pairs

(* A savepoint that is none of the holder's.                                *)
LEMMA PairsOther ==
  ASSUME NEW R, NEW q \in Seq(R), NEW p, NEW A, Pairs(q, p, A), NEW e \in R, e.name \notin Points
  PROVE  Pairs(Append(q, e), p, A)
<1> PICK f \in [DOMAIN q -> Nat] : Paired(q, p, A, f) BY DEF Pairs
<1> DEFINE g == [i \in 1 .. Len(q) + 1 |-> IF i \in DOMAIN q THEN f[i] ELSE 0]
<1>1. /\ DOMAIN q = 1 .. Len(q) /\ DOMAIN Append(q, e) = 1 .. Len(q) + 1 /\ Len(q) \in Nat
      /\ \A j \in DOMAIN q : Append(q, e)[j] = q[j]
      /\ Append(q, e)[Len(q) + 1] = e
  BY GrownStack
<1>2. g \in [DOMAIN Append(q, e) -> Nat] /\ \A i \in DOMAIN q : g[i] = f[i] BY <1>1
<1> HIDE DEF g
<1>3. \A i \in DOMAIN Append(q, e) : Append(q, e)[i].name \in Points => i \in DOMAIN q BY <1>1
<1>4. Paired(Append(q, e), p, A, g) BY <1>1, <1>2, <1>3 DEF Paired
<1> QED BY <1>2, <1>4 DEF Pairs

(* create_point.                                                            *)
LEMMA PairsCreate ==
  ASSUME NEW R, NEW q \in Seq(R), NEW S, NEW p \in Seq(S), NEW A, Pairs(q, p, A),
         NEW e \in R, NEW d \in S, e.name \in Points, d.name = e.name, e.work \cap A = d.done \cap A
  PROVE  Pairs(Append(q, e), Append(p, d), A)
<1> PICK f \in [DOMAIN q -> Nat] : Paired(q, p, A, f) BY DEF Pairs
<1> DEFINE g == [i \in 1 .. Len(q) + 1 |-> IF i \in DOMAIN q THEN f[i] ELSE Len(p) + 1]
<1>1. /\ DOMAIN q = 1 .. Len(q) /\ DOMAIN Append(q, e) = 1 .. Len(q) + 1 /\ Len(q) \in Nat
      /\ \A j \in DOMAIN q : Append(q, e)[j] = q[j]
      /\ Append(q, e)[Len(q) + 1] = e
  BY GrownStack
<1>2. /\ DOMAIN p = 1 .. Len(p) /\ DOMAIN Append(p, d) = 1 .. Len(p) + 1 /\ Len(p) \in Nat
      /\ \A j \in DOMAIN p : Append(p, d)[j] = p[j]
      /\ Append(p, d)[Len(p) + 1] = d
  BY GrownStack
<1>3. /\ g \in [DOMAIN Append(q, e) -> Nat]
      /\ \A i \in DOMAIN q : g[i] = f[i]
      /\ g[Len(q) + 1] = Len(p) + 1
  BY <1>1, <1>2
<1> HIDE DEF g
<1> SUFFICES ASSUME NEW i \in DOMAIN Append(q, e), Append(q, e)[i].name \in Points
             PROVE  /\ g[i] \in DOMAIN Append(p, d)
                    /\ Append(p, d)[g[i]].name = Append(q, e)[i].name
                    /\ Append(q, e)[i].work \cap A = Append(p, d)[g[i]].done \cap A
                    /\ \A j \in DOMAIN Append(q, e) : j < i /\ Append(q, e)[j].name \in Points => g[j] < g[i]
                    /\ \A l \in DOMAIN Append(p, d) : l > g[i] /\ Append(p, d)[l].name = Append(q, e)[i].name =>
                         \E j \in DOMAIN Append(q, e) : j > i /\ Append(q, e)[j].name \in Points /\ g[j] = l
  BY <1>3 DEF Pairs, Paired
<1>4. CASE i = Len(q) + 1
  <2>1. \A j \in DOMAIN q : q[j].name \in Points => f[j] \in 1 .. Len(p) BY <1>2 DEF Paired
  <2> QED BY <1>1, <1>2, <1>3, <1>4, <2>1
<1>5. CASE i \in DOMAIN q
  <2>1. /\ f[i] \in DOMAIN p /\ p[f[i]].name = q[i].name
        /\ q[i].work \cap A = p[f[i]].done \cap A
        /\ \A j \in DOMAIN q : j < i /\ q[j].name \in Points => f[j] < f[i]
        /\ \A l \in DOMAIN p : l > f[i] /\ p[l].name = q[i].name =>
             \E j \in DOMAIN q : j > i /\ q[j].name \in Points /\ f[j] = l
    BY <1>1, <1>5 DEF Paired
  <2>2. ASSUME NEW l \in DOMAIN Append(p, d), l > g[i], Append(p, d)[l].name = Append(q, e)[i].name
        PROVE  \E j \in DOMAIN Append(q, e) : j > i /\ Append(q, e)[j].name \in Points /\ g[j] = l
    <3>1. CASE l = Len(p) + 1 BY <1>1, <1>3, <1>5, <3>1
    <3>2. CASE l \in DOMAIN p
      <4>1. PICK j \in DOMAIN q : j > i /\ q[j].name \in Points /\ f[j] = l
        BY <1>1, <1>2, <1>3, <1>5, <2>1, <2>2, <3>2
      <4> QED BY <1>1, <1>3, <4>1
    <3> QED BY <1>2, <2>2, <3>1, <3>2
  <2>3. \A j \in DOMAIN Append(q, e) : j < i /\ Append(q, e)[j].name \in Points => g[j] < g[i]
    BY <1>1, <1>3, <1>5, <2>1
  <2> QED BY <1>1, <1>2, <1>3, <1>5, <2>1, <2>2, <2>3
<1>6. i = Len(q) + 1 \/ i \in DOMAIN q BY <1>1
<1> QED BY <1>4, <1>5, <1>6

(* Where names are unique, deleting a savepoint.                            *)
LEMMA PairsWithout ==
  ASSUME NEW R, NEW q \in Seq(R), NEW p, NEW A, Pairs(q, p, A), NEW i \in DOMAIN q,
         \A j, l \in DOMAIN q : q[j].name = q[l].name => j = l
  PROVE  Pairs(Without(q, i), p, A)
<1> PICK f \in [DOMAIN q -> Nat] : Paired(q, p, A, f) BY DEF Pairs
<1> DEFINE o == Without(q, i)
           g == [j \in DOMAIN o |-> f[Shift(i, j)]]
<1>1. /\ DOMAIN q = 1 .. Len(q) /\ Len(q) \in Nat /\ DOMAIN o = 1 .. Len(q) - 1
      /\ \A j \in DOMAIN o : Shift(i, j) \in DOMAIN q /\ o[j] = q[Shift(i, j)]
  BY ShiftedStack
<1>2. \A j, l \in DOMAIN o : j < l => Shift(i, j) < Shift(i, l) BY <1>1 DEF Shift
<1>3. g \in [DOMAIN o -> Nat] /\ \A j \in DOMAIN o : g[j] = f[Shift(i, j)] BY <1>1
<1> HIDE DEF o, g
<1>4. ASSUME NEW j \in DOMAIN o, o[j].name \in Points
      PROVE  \A l \in DOMAIN p : ~(l > f[Shift(i, j)] /\ p[l].name = o[j].name)
  <2> SUFFICES ASSUME NEW l \in DOMAIN p, l > f[Shift(i, j)], p[l].name = o[j].name PROVE FALSE OBVIOUS
  <2>1. PICK m \in DOMAIN q : m > Shift(i, j) /\ q[m].name \in Points /\ f[m] = l
    BY <1>1, <1>4 DEF Paired
  <2>2. q[m].name = p[l].name BY <2>1 DEF Paired
  <2> QED BY <1>1, <2>1, <2>2
<1>5. Paired(o, p, A, g) BY <1>1, <1>2, <1>3, <1>4 DEF Paired
<1>6. Pairs(o, p, A) BY <1>3, <1>5 DEF Pairs
<1> QED BY <1>6 DEF o

(* rollback_point, release_point, and the savepoint of a save is released.  *)
LEMMA PairsCut ==
  ASSUME NEW R, NEW q \in Seq(R), NEW S, NEW p \in Seq(S), NEW A, NEW f \in [DOMAIN q -> Nat], Paired(q, p, A, f),
         NEW a \in 0 .. Len(q), NEW b \in 0 .. Len(p),
         \A j \in DOMAIN q : q[j].name \in Points => (j <= a <=> f[j] <= b)
  PROVE  Pairs(SubSeq(q, 1, a), SubSeq(p, 1, b), A)
<1> DEFINE o == SubSeq(q, 1, a)
           r == SubSeq(p, 1, b)
           g == [j \in DOMAIN o |-> f[j]]
<1>1. /\ DOMAIN o = 1 .. a /\ 1 .. a \subseteq DOMAIN q /\ \A j \in 1 .. a : o[j] = q[j]
      /\ DOMAIN q = 1 .. Len(q) /\ Len(q) \in Nat
  BY CutStack, LenProperties
<1>2. /\ DOMAIN r = 1 .. b /\ 1 .. b \subseteq DOMAIN p /\ \A j \in 1 .. b : r[j] = p[j]
      /\ DOMAIN p = 1 .. Len(p) /\ Len(p) \in Nat
  BY CutStack, LenProperties
<1>3. g \in [DOMAIN o -> Nat] /\ \A j \in DOMAIN o : g[j] = f[j] BY <1>1
<1> SUFFICES Pairs(o, r, A) OBVIOUS
<1> HIDE DEF o, r, g
<1> SUFFICES ASSUME NEW i \in DOMAIN o, o[i].name \in Points
             PROVE  /\ g[i] \in DOMAIN r /\ r[g[i]].name = o[i].name
                    /\ o[i].work \cap A = r[g[i]].done \cap A
                    /\ \A j \in DOMAIN o : j < i /\ o[j].name \in Points => g[j] < g[i]
                    /\ \A l \in DOMAIN r : l > g[i] /\ r[l].name = o[i].name =>
                         \E j \in DOMAIN o : j > i /\ o[j].name \in Points /\ g[j] = l
  BY <1>3 DEF Pairs, Paired
<1>4. /\ i \in DOMAIN q /\ o[i] = q[i] /\ g[i] = f[i] /\ i <= a BY <1>1, <1>3
<1>5. /\ f[i] \in DOMAIN p /\ p[f[i]].name = q[i].name
      /\ q[i].work \cap A = p[f[i]].done \cap A
      /\ \A j \in DOMAIN q : j < i /\ q[j].name \in Points => f[j] < f[i]
      /\ \A l \in DOMAIN p : l > f[i] /\ p[l].name = q[i].name =>
           \E j \in DOMAIN q : j > i /\ q[j].name \in Points /\ f[j] = l
  BY <1>4 DEF Paired
<1>6. f[i] \in 1 .. b BY <1>2, <1>4, <1>5
<1>7. \A j \in DOMAIN o : j < i /\ o[j].name \in Points => g[j] < g[i] BY <1>1, <1>3, <1>4, <1>5
<1>8. ASSUME NEW l \in DOMAIN r, l > g[i], r[l].name = o[i].name
      PROVE  \E j \in DOMAIN o : j > i /\ o[j].name \in Points /\ g[j] = l
  <2>1. PICK j \in DOMAIN q : j > i /\ q[j].name \in Points /\ f[j] = l BY <1>2, <1>4, <1>5, <1>8
  <2>2. j \in 1 .. a BY <1>1, <1>2, <2>1
  <2> QED BY <1>1, <1>3, <2>1, <2>2
<1> QED BY <1>2, <1>4, <1>5, <1>6, <1>7, <1>8

(* The newest savepoint of a name is the same for both.                     *)
LEMMA PairsNewest ==
  ASSUME NEW q \in Seq(MarkEntry), NEW p \in Seq(PointEntry), NEW A, Pairs(q, p, A),
         NEW n \in Points, NEW i, NEW l, Newest(q, n, i), Newest(p, n, l)
  PROVE  /\ i \in DOMAIN q /\ l \in DOMAIN p
         /\ q[i].work \cap A = p[l].done \cap A
         /\ Pairs(SubSeq(q, 1, i), SubSeq(p, 1, l), A)
         /\ Pairs(SubSeq(q, 1, i - 1), SubSeq(p, 1, l - 1), A)
<1> PICK f \in [DOMAIN q -> Nat] : Paired(q, p, A, f) BY DEF Pairs
<1>1. /\ i \in DOMAIN q /\ l \in DOMAIN p /\ q[i].name = n /\ p[l].name = n
      /\ \A j \in DOMAIN q : j > i => q[j].name # n
      /\ \A j \in DOMAIN p : j > l => p[j].name # n
  BY DEF Newest
<1>2. /\ DOMAIN q = 1 .. Len(q) /\ Len(q) \in Nat /\ DOMAIN p = 1 .. Len(p) /\ Len(p) \in Nat BY LenProperties
<1>3. f[i] \in DOMAIN p /\ p[f[i]].name = n /\ q[i].work \cap A = p[f[i]].done \cap A BY <1>1 DEF Paired
<1>4. ~(f[i] > l) BY <1>1, <1>3
<1>5. ~(l > f[i])
  <2> SUFFICES ASSUME l > f[i] PROVE FALSE OBVIOUS
  <2>1. PICK j \in DOMAIN q : j > i /\ q[j].name \in Points /\ f[j] = l BY <1>1 DEF Paired
  <2>2. q[j].name = n BY <1>1, <2>1 DEF Paired
  <2> QED BY <1>1, <2>1, <2>2
<1>6. f[i] = l BY <1>1, <1>2, <1>3, <1>4, <1>5
<1>7. ASSUME NEW j \in DOMAIN q, q[j].name \in Points
      PROVE  (j <= i <=> f[j] <= l) /\ (j <= i - 1 <=> f[j] <= l - 1)
  <2>1. f[j] \in 1 .. Len(p) BY <1>2, <1>7 DEF Paired
  <2>2. (j < i => f[j] < f[i]) /\ (i < j => f[i] < f[j]) BY <1>1, <1>7 DEF Paired
  <2> QED BY <1>1, <1>2, <1>6, <2>1, <2>2
<1>8. Pairs(SubSeq(q, 1, i), SubSeq(p, 1, l), A)
  <2>1. i \in 0 .. Len(q) /\ l \in 0 .. Len(p) BY <1>1, <1>2
  <2> QED BY <1>7, <2>1, PairsCut
<1>9. Pairs(SubSeq(q, 1, i - 1), SubSeq(p, 1, l - 1), A)
  <2>1. i - 1 \in 0 .. Len(q) /\ l - 1 \in 0 .. Len(p) BY <1>1, <1>2
  <2> QED BY <1>7, <2>1, PairsCut
<1> QED BY <1>1, <1>3, <1>6, <1>8, <1>9

(* The last savepoint is not one of the holder's, and is released.          *)
LEMMA PairsDropLast ==
  ASSUME NEW R, NEW q \in Seq(R), NEW S, NEW p \in Seq(S), NEW A, Pairs(q, p, A),
         q # <<>>, q[Len(q)].name \notin Points
  PROVE  Pairs(SubSeq(q, 1, Len(q) - 1), p, A)
<1> PICK f \in [DOMAIN q -> Nat] : Paired(q, p, A, f) BY DEF Pairs
<1>1. /\ DOMAIN q = 1 .. Len(q) /\ Len(q) \in Nat /\ DOMAIN p = 1 .. Len(p) /\ Len(p) \in Nat
      /\ Len(q) - 1 \in 0 .. Len(q) /\ Len(p) \in 0 .. Len(p)
  BY LenProperties, EmptySeq
<1>2. \A j \in DOMAIN q : q[j].name \in Points => (j <= Len(q) - 1 <=> f[j] <= Len(p))
  BY <1>1 DEF Paired
<1>3. Pairs(SubSeq(q, 1, Len(q) - 1), SubSeq(p, 1, Len(p)), A) BY <1>1, <1>2, PairsCut
<1> QED BY <1>3, SubSeqFull

-----------------------------------------------------------------------------
(* One call at a time.                                                      *)

LEMMA EarlierInit == Init => EarlierInv
  BY PoolInit, CallInit, GoneInit, FrameInit DEF EarlierInv

LEMMA EarlierNext == SeqSafe /\ EarlierInv /\ [Next]_vars => EarlierInv'
  BY PoolNext, CallNext, GoneNext, FrameNext DEF SeqSafe, EarlierInv

LEMMA EarlierType ==
  ASSUME EarlierInv
  PROVE  /\ TypeOK /\ DbType /\ Saves \subseteq Work /\ Stmts \subseteq Work /\ osave \subseteq Saves
         /\ holder \in [Conns -> Holders] /\ active \in Handles \cup {NoHandle}
         /\ txs \in [Conns -> {"none", "open", "aborted"}] /\ pending \in [Conns -> SUBSET Work]
         /\ mark \in [Conns -> Seq(MarkEntry)] /\ durable \subseteq Work
         /\ hpc \in [Handles -> {"none", "live", "take", "exec", "clear", "drop", "try", "done"}]
         /\ points \in [Handles -> Seq(PointEntry)]
         /\ tpc \in [Stmts -> {"idle", "route", "pool", "slot", "run", "done"}]
         /\ via \in [Work -> Handles \cup {NoHandle}]
         /\ res \in [Work -> {"none", "ok", "err", "cancelled", "undone"}]
  BY DEF EarlierInv, FrameInv, TypeOK, DbType, OwnerType, HandleType, WorkType, MarkEntry, PointEntry, Work

(* While a save is in progress, nothing else happens but that the last      *)
(* reference to an old transaction goes.                                    *)
LEMMA SavesAlone ==
  ASSUME SeqSafe, EarlierInv, Next, osave # {}
  PROVE  \/ \E s \in osave : SaveStep(s) \/ SaveCancel(s)
         \/ \E t \in Handles : SharedTxnDrop(t)
<1>0. /\ osave \subseteq Saves /\ opc \notin {"idle", "b_pool", "b_exec"}
      /\ tpc \in [Stmts -> {"idle", "route", "pool", "slot", "run", "done"}]
      /\ hpc \in [Handles -> {"none", "live", "take", "exec", "clear", "drop", "try", "done"}]
  BY EarlierType DEF TypeOK, OwnerType
<1>1. ~MayStart BY <1>0 DEF SeqSafe, MayStart, Quiet
<1>2. /\ \A k \in Stmts : tpc[k] \in {"idle", "done"}
      /\ \A t \in Handles : hpc[t] \in {"none", "live", "done"} /\ bg[t] = "none"
  BY <1>0 DEF EarlierInv, CallInv, OwnerAlone, StmtAtRest, HandleAtRest, NoBackground
<1>3. \A k \in Stmts : ~StmtStart(k) /\ ~StmtStep(k) /\ ~StmtCancel(k)
  BY <1>1, <1>2 DEF StmtStart, StmtStep, StmtRoute, StmtAcquire, StmtLockSlot, StmtRun, StmtCancel
<1>4. ~BeginLock /\ ~BeginStep /\ ~BeginCancel
  BY <1>0 DEF BeginLock, BeginStep, BeginAcquire, BeginOk, BeginFails, BeginCancel
<1>5. \A t \in Handles : ~HandleCall(t) /\ ~HandleStep(t) /\ ~PointStep(t) /\ (BackgroundStep(t) => SharedTxnDrop(t))
  BY <1>1, <1>2 DEF HandleCall, HandleCommit, HandleRollback, HandleDrop, HandleTake, HandleCancel,
     HandleStep, TakeConn, Finish, ClearSession, DropClearNow, DropTryTake,
     BackgroundStep, BackgroundRollback, BackgroundClear,
     PointStep, PointCall, SetIsolation, CreatePoint, RollbackPoint, ReleasePoint
<1>6. \A s \in Saves : /\ ~SaveStart(s)
                       /\ SaveStep(s) \/ SaveCancel(s) => s \in osave
  BY <1>0 DEF SaveStart, SaveStep, SaveRoute, SaveAcquire, SaveBegin, SavePoint, SaveDml, SaveManagedEnd,
     SaveRollbackTo, SaveRelease, SaveCancel
<1> QED BY <1>3, <1>4, <1>5, <1>6 DEF Next, CallerStep, HandleCall, PointStep

(* A successful statement adds itself to what its connection has, or is     *)
(* committed at once.                                                       *)
LEMMA RunAdds ==
  ASSUME DbType, NEW c \in Conns, NEW w \in Work, RunOk(c, w)
  PROVE  /\ txs[c] # "aborted" /\ txs' = txs /\ mark' = mark
         /\ txs[c] = "open" => pending' = [pending EXCEPT ![c] = @ \cup {w}] /\ durable' = durable
         /\ txs[c] = "none" => pending' = pending /\ durable' = durable \cup {w}
         /\ \A d \in Conns, v \in Work : Holds(d, v)' => Holds(d, v) \/ (d = c /\ v = w /\ txs[c] = "open")
<1>1. /\ txs \in [Conns -> {"none", "open", "aborted"}] /\ pending \in [Conns -> SUBSET Work]
      /\ mark \in [Conns -> Seq(MarkEntry)]
  BY DEF DbType, MarkEntry
<1> QED BY <1>1 DEF RunOk, Holds

(* What a step adds to a connection is the statement it runs; a save that is*)
(* cancelled may still run one in the transaction it joined.                *)
Writes(w, c) ==
  /\ txs[c] = "open"
  /\ \/ w \in Stmts /\ tpc[w] = "run" /\ StmtConn(w, c) /\ (StmtRun(w) \/ StmtCancel(w))
     \/ w \in Saves /\ w \in osave /\ SaveConn(w, c) /\ (SaveDml(w) \/ (SaveCancel(w) /\ via[w] # NoHandle))

LEMMA SaveCancels ==
  ASSUME SeqSafe, EarlierInv, ScopedIsJoined, NEW s \in Saves, SaveCancel(s)
  PROVE  /\ Provider # "sqlite" /\ opc # "s_begin" /\ s \in osave /\ via' = via
         /\ SaveEnds(s, "cancelled")
         /\ \/ UNCHANGED <<holder, db>> /\ (opc \in {"s_route", "s_pool"} \/ via[s] # NoHandle)
            \/ /\ via[s] = NoHandle /\ ~scoped
               /\ \E c \in Conns : holder[c] = Owner /\ GiveBack(c) /\ \E a \in BOOLEAN : EndTxn(c, a)
            \/ /\ via[s] # NoHandle /\ scoped /\ opc \notin {"s_route", "s_pool"}
               /\ \E c \in Conns : SaveConn(s, c) /\ InFlight(s, c) /\ UNCHANGED holder
<1>0. active \in Handles \cup {NoHandle} /\ NoHandle \notin Handles BY EarlierType, NamesAssumption
<1>1. s \in osave /\ via' = via /\ SaveEnds(s, "cancelled") BY DEF SaveCancel
<1>2. Provider # "sqlite" BY DEF SeqSafe, SafeUse, SaveCancel
<1>3. opc # "s_begin" BY DEF SeqSafe, SafeUse, SaveCancel
<1>4. CASE UNCHANGED <<holder, db>> /\ (opc \in {"s_route", "s_pool"} \/ ~SaveSlotFree(s) \/ SaveConsumed(s))
  BY <1>1, <1>2, <1>3, <1>4 DEF SaveSlotFree, SaveConsumed
<1>5. ASSUME opc \notin {"s_route", "s_pool"}, NEW c \in Conns, SaveConn(s, c),
             IF Provider # "sqlite" /\ ~scoped /\ opc # "s_begin"
               THEN \E applied \in BOOLEAN : EndTxn(c, applied)
               ELSE InFlight(s, c),
             IF Provider # "sqlite" /\ via[s] # NoHandle THEN UNCHANGED holder ELSE GiveBack(c)
      PROVE  \/ /\ via[s] = NoHandle /\ ~scoped
                /\ \E d \in Conns : holder[d] = Owner /\ GiveBack(d) /\ \E a \in BOOLEAN : EndTxn(d, a)
             \/ /\ via[s] # NoHandle /\ scoped /\ opc \notin {"s_route", "s_pool"}
                /\ \E d \in Conns : SaveConn(s, d) /\ InFlight(s, d) /\ UNCHANGED holder
  <2>1. via[s] = active /\ (scoped <=> active # NoHandle) BY <1>1, <1>5 DEF ScopedIsJoined
  <2>2. CASE scoped BY <1>5, <2>1, <2>2, <1>2
  <2>3. CASE ~scoped BY <1>2, <1>3, <1>5, <2>1, <2>3 DEF SaveConn
  <2> QED BY <2>2, <2>3
<1> QED BY <1>1, <1>2, <1>3, <1>4, <1>5 DEF SaveCancel

LEMMA InFlightAdds ==
  ASSUME EarlierInv, NEW s \in Saves, s \in osave, NEW c \in Conns, SaveConn(s, c), via[s] # NoHandle, scoped, InFlight(s, c)
  PROVE  /\ \A d \in Conns, w \in Work : Holds(d, w)' =>
              Holds(d, w) \/ (w = s /\ d = c /\ txs[c] = "open" /\ opc \in {"s_dml", "s_more"})
         /\ durable' = durable
<1>0. DbType /\ s \in Work /\ via[s] \in Handles /\ holder[c] = Slot(via[s]) BY EarlierType DEF SaveConn
<1>1. holder[c] # Owner /\ txs[c] # "none" BY <1>0, HoldersDiffer DEF EarlierInv, GoneInv, SlotIsOpen
<1>2. CASE UNCHANGED db BY <1>2 DEF db, Holds
<1>3. CASE opc = "s_begin" /\ OpenTxn(c) BY <1>3 DEF EarlierInv, FrameInv, BeginIsManaged
<1>4. CASE SetMark(c, s) \/ RollbackToMark(c, s) \/ ReleaseMark(c, s)
  BY <1>0, <1>1, <1>4, MarkAddsNothing DEF AddsNothing
<1>5. CASE opc \in {"s_dml", "s_more"} /\ RunOk(c, s)
  BY <1>0, <1>1, <1>5, RunAdds, EarlierType
<1> QED BY <1>2, <1>3, <1>4, <1>5 DEF InFlight

LEMMA NextAdds ==
  ASSUME SeqSafe, EarlierInv, ScopedIsJoined, [Next]_vars, NEW c \in Conns, NEW w \in Work, Holds(c, w)'
  PROVE  Holds(c, w) \/ Writes(w, c)
<1>0. DbType BY EarlierType
<1>1. ASSUME NEW d \in Conns, AddsNothing(d) PROVE Holds(c, w) BY <1>1 DEF AddsNothing
<1>2. ASSUME UNCHANGED db PROVE Holds(c, w) BY <1>2 DEF db, Holds
<1>3. ASSUME NEW d \in Conns, NEW v \in Work, RunOk(d, v), txs[d] = "open" => Writes(v, d)
      PROVE  Holds(c, w) \/ Writes(w, c)
  BY <1>0, <1>3, RunAdds
<1>4. ASSUME NEW d \in Conns, \/ RunFails(d) \/ OpenTxn(d) \/ OpenFails(d)
                              \/ \E a : EndTxn(d, a)
                              \/ CommitOk(d) \/ CommitFails(d)
                              \/ UNCHANGED <<pending, mark, durable>> /\ \A e \in Conns \ {d} : txs'[e] = txs[e]
                              \/ \E n : \/ SetMark(d, n) \/ RollbackToMark(d, n) \/ ReleaseMark(d, n)
                                        \/ \E f : PointFails(d, n, f)
      PROVE  Holds(c, w)
  <2>1. CASE UNCHANGED <<pending, mark, durable>> BY <2>1 DEF Holds
  <2> QED BY <1>0, <1>1, <1>4, <2>1, TxnAddsNothing, EndAddsNothing, MarkAddsNothing DEF CommitOk, CommitFails
<1>5. CASE UNCHANGED vars BY <1>2, <1>5 DEF vars
<1>6. ASSUME NEW k \in Stmts, StmtStart(k) \/ StmtStep(k) \/ StmtCancel(k)
      PROVE  Holds(c, w) \/ Writes(w, c)
  <2>1. k \in Work BY EarlierType
  <2>2. CASE StmtStart(k) \/ StmtRoute(k) \/ StmtAcquire(k) \/ StmtLockSlot(k)
    BY <1>2, <2>2 DEF StmtStart, StmtRoute, StmtAcquire, StmtLockSlot
  <2>3. CASE StmtRun(k)
    <3> PICK d \in Conns : StmtConn(k, d) /\ (RunOk(d, k) \/ RunFails(d)) BY <2>3 DEF StmtRun
    <3>1. txs[d] = "open" => Writes(k, d) BY <2>3 DEF Writes, StmtRun
    <3> QED BY <1>3, <1>4, <2>1, <3>1
  <2>4. CASE StmtCancel(k)
    <3> PICK d \in Conns : StmtConn(k, d) /\ (RunOk(d, k) \/ UNCHANGED db) BY <2>4 DEF StmtCancel
    <3>1. txs[d] = "open" => Writes(k, d) BY <2>4 DEF Writes, StmtCancel
    <3> QED BY <1>2, <1>3, <2>1, <3>1
  <2> QED BY <1>6, <2>2, <2>3, <2>4 DEF StmtStep
<1>7. CASE BeginLock \/ BeginStep \/ BeginCancel
  <2>1. CASE BeginLock \/ BeginAcquire BY <1>2, <2>1 DEF BeginLock, BeginAcquire
  <2>2. CASE (\E t \in Handles : BeginOk(t)) \/ BeginCancel BY <1>2, <1>4, <2>2 DEF BeginOk, BeginCancel
  <2>3. CASE BeginFails
    <3> PICK d \in Conns : \/ OpenFails(d) \/ EndTxn(d, FALSE) \/ UNCHANGED db
                           \/ txs' = [txs EXCEPT ![d] = "aborted"] /\ UNCHANGED <<pending, mark, durable>>
      BY <2>3 DEF BeginFails
    <3>1. CASE txs' = [txs EXCEPT ![d] = "aborted"] /\ UNCHANGED <<pending, mark, durable>> BY <3>1 DEF Holds
    <3> QED BY <1>2, <1>4, <3>1
  <2> QED BY <1>7, <2>1, <2>2, <2>3 DEF BeginStep
<1>8. ASSUME NEW s \in Saves, SaveStart(s) \/ SaveStep(s) \/ SaveCancel(s)
      PROVE  Holds(c, w) \/ Writes(w, c)
  <2>0. s \in Work BY EarlierType
  <2>1. CASE SaveStart(s) \/ SaveRoute(s) \/ SaveAcquire(s) BY <1>2, <2>1 DEF SaveStart, SaveRoute, SaveAcquire
  <2>2. CASE SaveBegin(s) \/ SavePoint(s) \/ SaveManagedEnd(s) \/ SaveRollbackTo(s) \/ SaveRelease(s)
    BY <1>2, <1>4, <2>2 DEF SaveBegin, SavePoint, SaveManagedEnd, SaveRollbackTo, SaveRelease
  <2>3. CASE SaveDml(s)
    <3>1. CASE UNCHANGED db BY <1>2, <3>1
    <3>2. ASSUME NEW d \in Conns, SaveConn(s, d), RunOk(d, s) \/ RunFails(d) PROVE Holds(c, w) \/ Writes(w, c)
      <4>1. txs[d] = "open" => Writes(s, d) BY <2>3, <3>2 DEF Writes, SaveDml
      <4> QED BY <1>3, <1>4, <2>0, <3>2, <4>1
    <3> QED BY <2>3, <3>1, <3>2 DEF SaveDml
  <2>4. CASE SaveCancel(s)
    <3>1. s \in osave BY <2>4 DEF SaveCancel
    <3>2. ASSUME NEW d \in Conns, SaveConn(s, d), via[s] # NoHandle, scoped, InFlight(s, d)
          PROVE  Holds(c, w) \/ Writes(w, c)
      BY <2>4, <3>1, <3>2, InFlightAdds DEF Writes
    <3> QED BY <1>2, <1>4, <2>4, <3>2, SaveCancels
  <2> QED BY <1>8, <2>1, <2>2, <2>3, <2>4 DEF SaveStep
<1>9. ASSUME NEW t \in Handles, HandleCall(t) \/ HandleStep(t) \/ BackgroundStep(t)
      PROVE  Holds(c, w)
  <2>1. CASE HandleCommit(t) \/ HandleRollback(t) \/ HandleDrop(t) \/ TakeConn(t) \/ ClearSession(t)
             \/ DropClearNow(t) \/ BackgroundClear(t)
    <3>1. UNCHANGED db BY <2>1 DEF HandleCommit, HandleRollback, HandleDrop, HandleTake, TakeConn, ClearSession,
         DropClearNow, BackgroundClear
    <3> QED BY <1>2, <3>1
  <2>2. CASE HandleCancel(t)
    <3>1. CASE UNCHANGED db BY <1>2, <3>1
    <3>2. ASSUME NEW d \in Conns, EndTxn(d, FALSE) \/ CommitOk(d) PROVE Holds(c, w) BY <1>4, <3>2
    <3> QED BY <2>2, <3>1, <3>2 DEF HandleCancel
  <2>3. CASE Finish(t)
    <3>1. ASSUME NEW d \in Conns, EndTxn(d, FALSE) \/ CommitOk(d) \/ CommitFails(d) PROVE Holds(c, w)
      BY <1>4, <3>1
    <3> QED BY <2>3, <3>1 DEF Finish
  <2>4. CASE DropTryTake(t) \/ BackgroundRollback(t) \/ SharedTxnDrop(t)
    BY <1>2, <1>4, <2>4 DEF DropTryTake, BackgroundRollback, SharedTxnDrop, Discard, db
  <2> QED BY <1>9, <2>1, <2>2, <2>3, <2>4 DEF HandleCall, HandleStep, BackgroundStep
<1>10. ASSUME NEW t \in Handles, PointStep(t) PROVE Holds(c, w)
  <2>1. CASE SetIsolation(t) BY <2>1 DEF SetIsolation, Holds
  <2> QED BY <1>4, <1>10, <2>1 DEF PointStep, CreatePoint, RollbackPoint, ReleasePoint
<1> QED BY <1>5, <1>6, <1>7, <1>8, <1>9, <1>10 DEF Next, CallerStep, HandleCall, PointStep

(* No step but the end of a commit or a rollback works on a connection that *)
(* such a call has taken from its slot.                                     *)
LEMMA NextTouches ==
  ASSUME EarlierInv, [Next]_vars
  PROVE  \/ UNCHANGED db
         \/ \E d \in Conns : /\ SameButFor(d) /\ durable \subseteq durable'
                             /\ holder'[d] = Pool \/ \A t \in Handles : holder[d] # Taker(t)
<1> DEFINE Goal == \/ UNCHANGED db
                   \/ \E d \in Conns : /\ SameButFor(d) /\ durable \subseteq durable'
                                       /\ holder'[d] = Pool \/ \A t \in Handles : holder[d] # Taker(t)
<1>0. DbType /\ holder \in [Conns -> Holders] /\ txs \in [Conns -> {"none", "open", "aborted"}] BY EarlierType
<1>1. ASSUME NEW d \in Conns,
             \/ (\E w : RunOk(d, w)) \/ RunFails(d) \/ CommitOk(d) \/ CommitFails(d)
             \/ (\E a : EndTxn(d, a)) \/ OpenTxn(d) \/ OpenFails(d) \/ UNCHANGED db
             \/ \E n : \/ SetMark(d, n) \/ RollbackToMark(d, n) \/ ReleaseMark(d, n)
                      \/ \E f : PointFails(d, n, f),
             GiveBack(d) \/ \A t \in Handles : holder[d] # Taker(t)
      PROVE  Goal
  BY <1>0, <1>1, DbOne DEF GiveBack
<1>2. ASSUME UNCHANGED db PROVE Goal BY <1>2
<1>3. ASSUME NEW d \in Conns, NEW h, txs' = [txs EXCEPT ![d] = h], UNCHANGED <<pending, mark, durable>>,
             GiveBack(d) \/ \A t \in Handles : holder[d] # Taker(t)
      PROVE  Goal
  BY <1>0, <1>3 DEF GiveBack, SameButFor
<1> SUFFICES Goal OBVIOUS
<1> HIDE DEF Goal
<1>4. ASSUME NEW k \in Stmts, StmtStart(k) \/ StmtStep(k) \/ StmtCancel(k) PROVE Goal
  <2>1. CASE StmtStart(k) \/ StmtRoute(k) \/ StmtAcquire(k) \/ StmtLockSlot(k)
    BY <1>2, <2>1 DEF StmtStart, StmtRoute, StmtAcquire, StmtLockSlot
  <2>2. ASSUME NEW d \in Conns, StmtConn(k, d) PROVE \A t \in Handles : holder[d] # Taker(t)
    BY <2>2, HoldersDiffer, SlotsDiffer DEF StmtConn
  <2>3. CASE StmtRun(k)
    <3> PICK d \in Conns : StmtConn(k, d) /\ (RunOk(d, k) \/ RunFails(d)) BY <2>3 DEF StmtRun
    <3> QED BY <1>1, <2>2
  <2>4. CASE StmtCancel(k)
    <3> PICK d \in Conns : StmtConn(k, d) /\ (RunOk(d, k) \/ UNCHANGED db) BY <2>4 DEF StmtCancel
    <3> QED BY <1>1, <2>2
  <2> QED BY <1>4, <2>1, <2>3, <2>4 DEF StmtStep
<1>5. \A d \in Conns : holder[d] = Owner => \A t \in Handles : holder[d] # Taker(t) BY HoldersDiffer
<1>6. CASE BeginLock \/ BeginStep \/ BeginCancel
  <2>1. CASE BeginLock \/ BeginAcquire BY <1>2, <2>1 DEF BeginLock, BeginAcquire
  <2>2. CASE (\E t \in Handles : BeginOk(t)) \/ BeginCancel BY <1>1, <1>5, <2>2 DEF BeginOk, BeginCancel
  <2>3. CASE BeginFails
    <3> PICK d \in Conns : /\ GiveBack(d)
                           /\ \/ OpenFails(d) \/ EndTxn(d, FALSE) \/ UNCHANGED db
                              \/ txs' = [txs EXCEPT ![d] = "aborted"] /\ UNCHANGED <<pending, mark, durable>>
      BY <2>3 DEF BeginFails
    <3> QED BY <1>1, <1>3
  <2> QED BY <1>6, <2>1, <2>2, <2>3 DEF BeginStep
<1>7. ASSUME NEW s \in Saves, SaveStart(s) \/ SaveStep(s) \/ SaveCancel(s) PROVE Goal
  <2>1. CASE SaveStart(s) \/ SaveRoute(s) \/ SaveAcquire(s) BY <1>2, <2>1 DEF SaveStart, SaveRoute, SaveAcquire
  <2>2. ASSUME NEW d \in Conns, SaveConn(s, d) PROVE \A t \in Handles : holder[d] # Taker(t)
    BY <2>2, HoldersDiffer, SlotsDiffer DEF SaveConn
  <2>3. CASE SaveBegin(s) \/ SaveManagedEnd(s)
    <3> PICK d \in Conns : /\ holder[d] = Owner
                           /\ \/ OpenTxn(d) \/ OpenFails(d) \/ CommitOk(d) \/ CommitFails(d) \/ EndTxn(d, FALSE)
      BY <2>3 DEF SaveBegin, SaveManagedEnd
    <3> QED BY <1>1, <1>5
  <2>4. CASE SavePoint(s) \/ SaveDml(s) \/ SaveRollbackTo(s) \/ SaveRelease(s)
    <3>1. ASSUME ~UNCHANGED db
          PROVE  \E d \in Conns : /\ SaveConn(s, d)
                                  /\ \/ SetMark(d, s) \/ PointFails(d, s, "savepoint") \/ RunOk(d, s) \/ RunFails(d)
                                     \/ RollbackToMark(d, s) \/ PointFails(d, s, "rollback_to")
                                     \/ ReleaseMark(d, s) \/ PointFails(d, s, "release")
      BY <2>4, <3>1 DEF SavePoint, SaveDml, SaveRollbackTo, SaveRelease
    <3> QED BY <1>1, <1>2, <2>2, <3>1
  <2>5. CASE SaveCancel(s)
    <3>1. ASSUME ~UNCHANGED db
          PROVE  \E d \in Conns : SaveConn(s, d) /\ (InFlight(s, d) \/ \E a \in BOOLEAN : EndTxn(d, a))
      BY <2>5, <3>1 DEF SaveCancel
    <3>2. ASSUME NEW d \in Conns, SaveConn(s, d), InFlight(s, d) PROVE Goal BY <1>1, <2>2, <3>2 DEF InFlight
    <3> QED BY <1>1, <1>2, <2>2, <3>1, <3>2
  <2> QED BY <1>7, <2>1, <2>3, <2>4, <2>5 DEF SaveStep
<1>8. \A d \in Conns, t \in Handles : holder[d] = Slot(t) => \A u \in Handles : holder[d] # Taker(u)
  BY SlotsDiffer
<1>9. ASSUME NEW t \in Handles, HandleCall(t) \/ HandleStep(t) \/ BackgroundStep(t) PROVE Goal
  <2>1. CASE HandleCommit(t) \/ HandleRollback(t) \/ HandleDrop(t) \/ TakeConn(t) \/ ClearSession(t)
             \/ DropClearNow(t) \/ BackgroundClear(t)
    <3>1. UNCHANGED db BY <2>1 DEF HandleCommit, HandleRollback, HandleDrop, HandleTake, TakeConn, ClearSession,
         DropClearNow, BackgroundClear
    <3> QED BY <1>2, <3>1
  <2>2. CASE HandleCancel(t)
    <3>2. ASSUME NEW d \in Conns, GiveBack(d), EndTxn(d, FALSE) \/ CommitOk(d) PROVE Goal BY <1>1, <3>2
    <3> QED BY <1>2, <2>2, <3>2 DEF HandleCancel
  <2>3. CASE Finish(t)
    <3>1. ASSUME NEW d \in Conns, GiveBack(d), EndTxn(d, FALSE) \/ CommitOk(d) \/ CommitFails(d) PROVE Goal
      BY <1>1, <3>1
    <3> QED BY <2>3, <3>1 DEF Finish
  <2>4. CASE DropTryTake(t) \/ BackgroundRollback(t) \/ SharedTxnDrop(t)
    <3>1. ASSUME NEW d \in Conns, Discard(d) PROVE Goal BY <1>1, <3>1 DEF Discard
    <3> QED BY <1>2, <2>4, <3>1 DEF DropTryTake, BackgroundRollback, SharedTxnDrop
  <2> QED BY <1>9, <2>1, <2>2, <2>3, <2>4 DEF HandleCall, HandleStep, BackgroundStep
<1>10. ASSUME NEW t \in Handles, PointStep(t) PROVE Goal
  <2>1. CASE SetIsolation(t) BY <1>3, <1>8, <2>1 DEF SetIsolation
  <2>2. ASSUME NEW n \in Points, CreatePoint(t, n) \/ RollbackPoint(t, n) \/ ReleasePoint(t, n) PROVE Goal
    <3> PICK d \in Conns : /\ holder[d] = Slot(t)
                           /\ \/ SetMark(d, n) \/ PointFails(d, n, "savepoint")
                              \/ RollbackToMark(d, n) \/ PointFails(d, n, "rollback_to")
                              \/ ReleaseMark(d, n) \/ PointFails(d, n, "release")
      BY <2>2 DEF CreatePoint, RollbackPoint, ReleasePoint
    <3> QED BY <1>1, <1>8
  <2> QED BY <1>10, <2>1, <2>2 DEF PointStep
<1>11. CASE UNCHANGED vars BY <1>2, <1>11 DEF vars
<1> QED BY <1>4, <1>6, <1>7, <1>9, <1>10, <1>11 DEF Next, CallerStep, HandleCall, PointStep

LEMMA TakerNext ==
  ASSUME EarlierInv, [Next]_vars, NEW c \in Conns, NEW t \in Handles, holder'[c] = Taker(t)
  PROVE  \/ holder[c] = Taker(t)
         \/ TakeConn(t) /\ holder[c] = Slot(t)
<1>0. holder \in [Conns -> Holders] BY EarlierType
<1>1. ASSUME NEW d \in Conns, NEW h, holder' = [holder EXCEPT ![d] = h], h # Taker(t)
      PROVE  holder[c] = Taker(t)
  BY <1>0, <1>1
<1>2. ASSUME UNCHANGED holder PROVE holder[c] = Taker(t) BY <1>2
<1>3. ASSUME NEW k \in Stmts, StmtStart(k) \/ StmtStep(k) \/ StmtCancel(k) PROVE holder[c] = Taker(t)
  BY <1>1, <1>2, <1>3, HoldersDiffer
     DEF StmtStart, StmtStep, StmtRoute, StmtAcquire, StmtLockSlot, StmtRun, StmtCancel, GiveBack
<1>4. ASSUME BeginLock \/ BeginStep \/ BeginCancel PROVE holder[c] = Taker(t)
  <2>1. ASSUME NEW u \in Handles, BeginOk(u) PROVE holder[c] = Taker(t)
    BY <1>1, <2>1, SlotsDiffer DEF BeginOk
  <2>2. CASE BeginLock \/ BeginAcquire \/ BeginFails \/ BeginCancel
    BY <1>1, <1>2, <2>2, HoldersDiffer DEF BeginLock, BeginAcquire, BeginFails, BeginCancel, GiveBack
  <2> QED BY <1>4, <2>1, <2>2 DEF BeginStep
<1>5. ASSUME NEW s \in Saves, SaveStart(s) \/ SaveStep(s) \/ SaveCancel(s) PROVE holder[c] = Taker(t)
  BY <1>1, <1>2, <1>5, HoldersDiffer
     DEF SaveStart, SaveStep, SaveRoute, SaveAcquire, SaveBegin, SavePoint, SaveDml, SaveManagedEnd,
         SaveRollbackTo, SaveRelease, SaveCancel, GiveBack
<1>6. ASSUME NEW u \in Handles, HandleCall(u) \/ HandleStep(u) \/ BackgroundStep(u), ~TakeConn(u)
      PROVE  holder[c] = Taker(t)
  BY <1>1, <1>2, <1>6, HoldersDiffer
     DEF HandleCall, HandleCommit, HandleRollback, HandleDrop, HandleTake, HandleCancel,
         HandleStep, Finish, ClearSession, DropClearNow, DropTryTake,
         BackgroundStep, BackgroundRollback, BackgroundClear, SharedTxnDrop, Discard, GiveBack
<1>7. ASSUME NEW u \in Handles, TakeConn(u)
      PROVE  holder[c] = Taker(t) \/ (TakeConn(t) /\ holder[c] = Slot(t))
  <2>1. CASE UNCHANGED holder BY <1>2, <2>1
  <2>2. ASSUME NEW d \in Conns, holder[d] = Slot(u), holder' = [holder EXCEPT ![d] = Taker(u)]
        PROVE  holder[c] = Taker(t) \/ (TakeConn(t) /\ holder[c] = Slot(t))
    <3>1. CASE c # d BY <1>0, <2>2, <3>1
    <3>2. CASE c = d BY <1>0, <1>7, <2>2, <3>2, SlotsDiffer
    <3> QED BY <3>1, <3>2
  <2> QED BY <1>7, <2>1, <2>2 DEF TakeConn
<1>8. ASSUME NEW u \in Handles, PointStep(u) PROVE holder[c] = Taker(t)
  BY <1>2, <1>8 DEF PointStep, SetIsolation, CreatePoint, RollbackPoint, ReleasePoint
<1>9. CASE UNCHANGED vars BY <1>2, <1>9 DEF vars
<1> QED BY <1>3, <1>4, <1>5, <1>6, <1>7, <1>8, <1>9 DEF Next, CallerStep, HandleCall, PointStep

LEMMA HeldNext ==
  ASSUME EarlierInv, EarlierInv', HeldIsOpen, [Next]_vars
  PROVE  HeldIsOpen'
<1> SUFFICES ASSUME NEW c \in Conns, NEW t \in Handles, Held(c, t)' PROVE txs'[c] # "none"
  BY DEF HeldIsOpen
<1>1. CASE holder'[c] = Slot(t) BY <1>1 DEF EarlierInv, GoneInv, SlotIsOpen
<1>2. CASE holder'[c] = Taker(t)
  <2>1. Held(c, t) BY <1>2, TakerNext DEF Held
  <2>2. txs[c] # "none" BY <2>1 DEF HeldIsOpen
  <2>3. CASE TakeConn(t) BY <2>2, <2>3 DEF TakeConn, db
  <2>4. CASE holder[c] = Taker(t)
    <3>1. CASE UNCHANGED db BY <2>2, <3>1 DEF db
    <3>2. ASSUME NEW d \in Conns, SameButFor(d), holder'[d] = Pool \/ \A u \in Handles : holder[d] # Taker(u)
          PROVE  txs'[c] # "none"
      <4>1. c # d BY <1>2, <2>4, <3>2, HoldersDiffer
      <4> QED BY <2>2, <3>2, <4>1 DEF SameButFor
    <3> QED BY <3>1, <3>2, NextTouches
  <2> QED BY <1>2, <2>3, <2>4, TakerNext
<1> QED BY <1>1, <1>2 DEF Held

-----------------------------------------------------------------------------
(* The save in progress.                                                    *)

LEMMA NoSaveSteps ==
  ASSUME EarlierInv, [Next]_vars, osave = {}
  PROVE  osave' = {} \/ \E s \in Saves : SaveStart(s)
<1>1. \A s \in Saves : ~SaveStep(s) /\ ~SaveCancel(s)
  BY DEF SaveStep, SaveRoute, SaveAcquire, SaveBegin, SavePoint, SaveDml, SaveManagedEnd,
     SaveRollbackTo, SaveRelease, SaveCancel
<1>2. CASE UNCHANGED vars BY <1>2 DEF vars, owner
<1>3. ASSUME NEW k \in Stmts, StmtStart(k) \/ StmtStep(k) \/ StmtCancel(k) PROVE osave' = {}
  BY <1>3 DEF StmtStart, StmtStep, StmtRoute, StmtAcquire, StmtLockSlot, StmtRun, StmtCancel, owner
<1>4. ASSUME BeginLock \/ BeginStep \/ BeginCancel PROVE osave' = {}
  BY <1>4 DEF BeginLock, BeginStep, BeginAcquire, BeginOk, BeginFails, BeginCancel
<1>5. ASSUME NEW t \in Handles, HandleCall(t) \/ HandleStep(t) \/ BackgroundStep(t) \/ PointStep(t) PROVE osave' = {}
  BY <1>5 DEF HandleCall, HandleCommit, HandleRollback, HandleDrop, HandleTake, HandleCancel,
     HandleStep, TakeConn, Finish, ClearSession, DropClearNow, DropTryTake,
     BackgroundStep, BackgroundRollback, BackgroundClear, SharedTxnDrop,
     PointStep, SetIsolation, CreatePoint, RollbackPoint, ReleasePoint, owner
<1> QED BY <1>1, <1>2, <1>3, <1>4, <1>5 DEF Next, CallerStep, HandleCall, PointStep

LEMMA SaveCases ==
  ASSUME EarlierInv, NEW s \in Saves, SaveStep(s) \/ SaveCancel(s)
  PROVE  /\ s \in osave /\ UNCHANGED <<active, hpc, hop, hres, bg, points, tpc>>
         /\ \/ osave' = {} /\ ~scoped' /\ opc' = "idle" /\ via' = via
            \/ UNCHANGED <<osave, scoped, res>> /\ opc' # "s_route" /\ opc # "s_route" /\ via' = via
            \/ SaveRoute(s) /\ UNCHANGED <<osave, scoped, res, holder, db>> /\ opc = "s_route"
  BY DEF SaveStep, SaveRoute, SaveAcquire, SaveBegin, SavePoint, SaveDml, SaveManagedEnd,
         SaveRollbackTo, SaveRelease, SaveCancel, SaveEnds, handle

LEMMA ScopedNext ==
  ASSUME SeqSafe, EarlierInv, ScopedIsJoined, [Next]_vars
  PROVE  ScopedIsJoined'
<1>1. CASE osave' = {} BY <1>1 DEF ScopedIsJoined
<1>2. ASSUME NEW s \in Saves, SaveStart(s) PROVE ScopedIsJoined'
  BY <1>2 DEF ScopedIsJoined, SaveStart
<1>3. CASE UNCHANGED vars BY <1>3 DEF vars, owner, ScopedIsJoined
<1>4. ASSUME NEW s \in osave, SaveStep(s) \/ SaveCancel(s) PROVE ScopedIsJoined'
  <2>0. s \in Saves /\ s \in Work /\ osave = {s} /\ via \in [Work -> Handles \cup {NoHandle}]
    BY EarlierType DEF EarlierInv, PoolInv, OneSave
  <2>1. CASE SaveRoute(s) BY <2>0, <2>1 DEF ScopedIsJoined, SaveRoute
  <2>2. CASE UNCHANGED <<osave, scoped, active, via>> /\ opc # "s_route" /\ opc' # "s_route"
    <3>1. opc' = "s_point" => scoped
      <4>1. SaveAcquire(s) \/ opc' # "s_point"
        BY <1>4, <2>2 DEF SaveStep, SaveRoute, SaveAcquire, SaveBegin, SavePoint, SaveDml, SaveManagedEnd,
           SaveRollbackTo, SaveRelease, SaveCancel, SaveEnds
      <4> QED BY <4>1 DEF SaveAcquire, SaveEnds
    <3> QED BY <2>2, <3>1 DEF ScopedIsJoined
  <2> QED BY <1>1, <1>4, <2>0, <2>1, <2>2, SaveCases
<1>5. ASSUME NEW t \in Handles, SharedTxnDrop(t) PROVE ScopedIsJoined'
  BY <1>5 DEF SharedTxnDrop, owner, ScopedIsJoined
<1> QED BY <1>1, <1>2, <1>3, <1>4, <1>5, NoSaveSteps, SavesAlone

(* The last reference to an old transaction goes: its connection does.      *)
LEMMA DropLast ==
  ASSUME EarlierInv, NEW t \in Handles, SharedTxnDrop(t)
  PROVE  /\ UNCHANGED <<durable, active, opc, osave, scoped, hpc, hop, hres, points, tpc, via, res>>
         /\ active # t /\ \A s \in osave : via[s] # t
         /\ \E c \in Conns : /\ holder[c] = Slot(t) /\ holder' = [holder EXCEPT ![c] = Pool]
                             /\ SameButFor(c) /\ \A w \in Work : ~Holds(c, w)'
<1> PICK c \in Conns : holder[c] = Slot(t) /\ Discard(c) BY DEF SharedTxnDrop
<1>1. GiveBack(c) /\ EndTxn(c, FALSE) BY DEF Discard
<1>2. SameButFor(c) BY <1>1, EarlierType, DbOne
<1>3. \A w \in Work : ~Holds(c, w)' BY <1>1, EarlierType, EndAddsNothing
<1> QED BY <1>1, <1>2, <1>3 DEF SharedTxnDrop, Referenced, owner, handle, EndTxn, GiveBack

LEMMA ViaIsKept ==
  ASSUME SeqSafe, EarlierInv, [Next]_vars, NEW w \in Work, Written(w)
  PROVE  via'[w] = via[w]
<1>0. via \in [Work -> Handles \cup {NoHandle}] BY EarlierType
<1>1. ASSUME NEW k \in Stmts, StmtRoute(k) PROVE via'[w] = via[w]
  <2>1. w # k BY <1>1 DEF EarlierInv, GoneInv, StmtsRunOnce, StmtRoute
  <2> QED BY <1>0, <1>1, <2>1 DEF StmtRoute
<1>2. ASSUME NEW s \in Saves, SaveRoute(s) PROVE via'[w] = via[w]
  <2>1. w # s BY <1>2 DEF EarlierInv, GoneInv, SavesRunOnce, SaveRoute, InSave
  <2> QED BY <1>0, <1>2, <2>1 DEF SaveRoute
<1>3. CASE UNCHANGED via BY <1>3
<1>4. ASSUME NEW k \in Stmts, StmtStart(k) \/ StmtStep(k) \/ StmtCancel(k) PROVE UNCHANGED via \/ StmtRoute(k)
  BY <1>4 DEF StmtStart, StmtStep, StmtAcquire, StmtLockSlot, StmtRun, StmtCancel
<1>5. ASSUME BeginLock \/ BeginStep \/ BeginCancel PROVE UNCHANGED via
  BY <1>5 DEF BeginLock, BeginStep, BeginAcquire, BeginOk, BeginFails, BeginCancel
<1>6. ASSUME NEW t \in Handles, HandleCall(t) \/ HandleStep(t) \/ BackgroundStep(t) \/ PointStep(t) PROVE UNCHANGED via
  BY <1>6 DEF HandleCall, HandleCommit, HandleRollback, HandleDrop, HandleTake, HandleCancel,
     HandleStep, TakeConn, Finish, ClearSession, DropClearNow, DropTryTake,
     BackgroundStep, BackgroundRollback, BackgroundClear, SharedTxnDrop,
     PointStep, SetIsolation, CreatePoint, RollbackPoint, ReleasePoint
<1>7. ASSUME NEW s \in Saves, SaveStart(s) PROVE UNCHANGED via BY <1>7 DEF SaveStart
<1>8. ASSUME NEW s \in Saves, SaveStep(s) \/ SaveCancel(s) PROVE UNCHANGED via \/ SaveRoute(s)
  BY <1>8, SaveCases
<1>9. CASE UNCHANGED vars BY <1>9 DEF vars
<1> QED BY <1>1, <1>2, <1>3, <1>4, <1>5, <1>6, <1>7, <1>8, <1>9 DEF Next, CallerStep, HandleCall, PointStep

LEMMA PooledNext ==
  ASSUME SeqSafe, EarlierInv, ScopedIsJoined, PooledIsManaged, [Next]_vars
  PROVE  PooledIsManaged'
<1> SUFFICES ASSUME NEW c \in Conns, NEW w \in Work, Holds(c, w)', via'[w] = NoHandle
             PROVE  w \in osave' /\ holder'[c] = Owner /\ ~scoped' /\ opc' \in InSave
  BY DEF PooledIsManaged
<1>0. holder \in [Conns -> Holders] /\ active \in Handles \cup {NoHandle} /\ NoHandle \notin Handles /\ DbType
      /\ osave \subseteq Saves
  BY EarlierType, NamesAssumption
<1>1. CASE Holds(c, w)
  <2>1. via[w] = NoHandle BY <1>1, ViaIsKept DEF Written
  <2>2. w \in osave /\ holder[c] = Owner /\ ~scoped /\ opc \in InSave BY <1>1, <2>1 DEF PooledIsManaged
  <2>3. CASE UNCHANGED vars BY <2>2, <2>3 DEF vars, owner
  <2>4. ASSUME NEW t \in Handles, SharedTxnDrop(t) PROVE w \in osave' /\ holder'[c] = Owner /\ ~scoped' /\ opc' \in InSave
    <3> PICK d \in Conns : holder[d] = Slot(t) /\ holder' = [holder EXCEPT ![d] = Pool]
      BY <2>4, DropLast
    <3>1. c # d BY <2>2, HoldersDiffer
    <3> QED BY <1>0, <2>2, <2>4, <3>1, DropLast
  <2>5. ASSUME NEW s \in osave, SaveStep(s) \/ SaveCancel(s)
        PROVE  w \in osave' /\ holder'[c] = Owner /\ ~scoped' /\ opc' \in InSave
    <3>1. s = w /\ s \in Saves BY <1>0, <2>2 DEF EarlierInv, PoolInv, OneSave
    <3>2. ASSUME NEW d \in Conns, holder[d] = Owner, NEW a, EndTxn(d, a) PROVE FALSE
      <4>1. d = c BY <2>2, <3>2 DEF EarlierInv, PoolInv, OwnerHasOne
      <4> QED BY <1>0, <3>2, <4>1, EndAddsNothing
    <3>3. CASE SaveCancel(s) BY <1>0, <2>1, <2>2, <3>1, <3>2, <3>3, SaveCancels DEF InSave
    <3>4. CASE SaveManagedEnd(s) BY <3>2, <3>4 DEF SaveManagedEnd, CommitOk, CommitFails
    <3>5. CASE SaveDml(s) BY <2>2, <3>1, <3>5 DEF SaveDml, InSave
    <3>6. ~(SaveRoute(s) \/ SaveAcquire(s) \/ SaveBegin(s) \/ SavePoint(s) \/ SaveRollbackTo(s) \/ SaveRelease(s))
      BY <2>2 DEF InSave, SaveRoute, SaveAcquire, SaveBegin, SavePoint, SaveRollbackTo, SaveRelease
    <3> QED BY <2>5, <3>3, <3>4, <3>5, <3>6 DEF SaveStep
  <2> QED BY <2>2, <2>3, <2>4, <2>5, SavesAlone
<1>2. CASE Writes(w, c)
  <2>1. CASE w \in Stmts /\ (StmtRun(w) \/ StmtCancel(w)) /\ StmtConn(w, c)
    <3>1. via[w] = NoHandle BY <2>1 DEF StmtRun, StmtCancel
    <3>2. holder[c] = User(w) BY <2>1, <3>1 DEF StmtConn
    <3>3. txs[c] = "none" BY <2>1, <3>2 DEF EarlierInv, PoolInv, StmtIsClean, IsClean
    <3> QED BY <1>2, <3>3 DEF Writes
  <2>2. CASE w \in osave /\ SaveDml(w) /\ SaveConn(w, c)
    <3>1. via[w] = NoHandle BY <2>2 DEF SaveDml
    <3>2. holder[c] = Owner BY <2>2, <3>1 DEF SaveConn
    <3>3. ~scoped BY <2>2, <3>1 DEF ScopedIsJoined, SaveDml
    <3> QED BY <2>2, <3>2, <3>3 DEF SaveDml, InSave
  <2>3. CASE w \in Saves /\ w \in osave /\ SaveCancel(w) /\ via[w] # NoHandle
    BY <2>3 DEF SaveCancel
  <2> QED BY <1>2, <2>1, <2>2, <2>3 DEF Writes
<1> QED BY <1>1, <1>2, NextAdds

(* A savepoint that is set inside a transaction goes on top of the others;  *)
(* MySQL takes away an older one of its name.                               *)
LEMMA SetMarkSlot ==
  ASSUME DbType, StacksGrow, NEW c \in Conns, txs[c] # "none", NEW n, SetMark(c, n)
  PROVE  /\ UNCHANGED <<pending, durable>>
         /\ \E q \in Seq(MarkEntry) :
              /\ mark' = [mark EXCEPT ![c] = Append(q, [name |-> n, work |-> pending[c]])]
              /\ \A i \in DOMAIN q : \E j \in DOMAIN mark[c] : q[i] = mark[c][j]
              /\ \A p, A : Pairs(mark[c], p, A) => Pairs(q, p, A)
<1>0. mark[c] \in Seq(MarkEntry) /\ StackOk(mark[c], pending[c]) BY DEF DbType, MarkEntry, StacksGrow
<1>1. UNCHANGED <<pending, durable>> BY DEF SetMark
<1>2. CASE AddMark(c, mark[c], n) BY <1>0, <1>1, <1>2 DEF AddMark
<1>3. ASSUME Provider = "mysql", NEW i \in DOMAIN mark[c], AddMark(c, Without(mark[c], i), n)
      PROVE  \E q \in Seq(MarkEntry) :
               /\ mark' = [mark EXCEPT ![c] = Append(q, [name |-> n, work |-> pending[c]])]
               /\ \A l \in DOMAIN q : \E j \in DOMAIN mark[c] : q[l] = mark[c][j]
               /\ \A p, A : Pairs(mark[c], p, A) => Pairs(q, p, A)
  <2>1. /\ Without(mark[c], i) \in Seq(MarkEntry)
        /\ \A l \in DOMAIN Without(mark[c], i) : \E j \in DOMAIN mark[c] : Without(mark[c], i)[l] = mark[c][j]
    BY <1>0, WithoutKeeps
  <2>2. \A j, l \in DOMAIN mark[c] : mark[c][j].name = mark[c][l].name => j = l BY <1>0, <1>3 DEF StackOk
  <2>3. ASSUME NEW p, NEW A, Pairs(mark[c], p, A) PROVE Pairs(Without(mark[c], i), p, A)
    BY <1>0, <2>2, <2>3, PairsWithout
  <2> QED BY <1>3, <2>1, <2>3 DEF AddMark
<1> QED BY <1>1, <1>2, <1>3 DEF SetMark

(* Where a save works once it has set its savepoint in the transaction it   *)
(* joined.                                                                  *)
LEMMA JoinedConn ==
  ASSUME EarlierInv, ScopedIsJoined, SaveIsMarked, NEW s \in osave, scoped, opc \in InSave
  PROVE  /\ via[s] = active /\ via[s] \in Handles
         /\ \E c \in Conns : /\ holder[c] = Slot(via[s]) /\ \A d \in Conns : SaveConn(s, d) <=> d = c
                             /\ mark[c] # <<>> /\ mark[c][Len(mark[c])].name = s
                             /\ txs[c] # "none"
<1>0. active \in Handles \cup {NoHandle} /\ NoHandle \notin Handles BY EarlierType, NamesAssumption
<1>1. via[s] = active /\ active # NoHandle BY DEF ScopedIsJoined, InSave
<1>2. PICK c \in Conns : holder[c] = Slot(via[s]) /\ mark[c] # <<>> /\ mark[c][Len(mark[c])].name = s
  BY DEF SaveIsMarked
<1>3. \A d \in Conns : holder[d] = Slot(via[s]) => d = c
  BY <1>0, <1>1, <1>2 DEF EarlierInv, FrameInv, OneConn, Held
<1>4. txs[c] # "none" BY <1>0, <1>1, <1>2 DEF EarlierInv, GoneInv, SlotIsOpen
<1> QED BY <1>0, <1>1, <1>2, <1>3, <1>4 DEF SaveConn

LEMMA LastIsNewest ==
  ASSUME NEW R, NEW q \in Seq(R), q # <<>>
  PROVE  /\ Len(q) \in DOMAIN q /\ Len(q) - 1 \in 0 .. Len(q)
         /\ \A i : Newest(q, q[Len(q)].name, i) => i = Len(q)
         /\ SubSeq(q, 1, Len(q)) = q
<1>1. Len(q) \in Nat /\ DOMAIN q = 1 .. Len(q) /\ Len(q) # 0 BY LenProperties, EmptySeq
<1>2. SubSeq(q, 1, Len(q)) = q BY SubSeqFull
<1> QED BY <1>1, <1>2 DEF Newest

(* What such a save then does: nothing, its statement, back to its savepoint*)
(* or its release.                                                          *)
JoinedOutcome(s, c) ==
  \/ UNCHANGED <<pending, mark>> /\ (osave' # {} => opc' \notin {"s_more", "s_end"})
  \/ /\ opc \in {"s_dml", "s_more"} /\ txs[c] = "open"
     /\ pending' = [pending EXCEPT ![c] = @ \cup {s}] /\ UNCHANGED mark
  \/ /\ opc = "s_undo" /\ pending' = [pending EXCEPT ![c] = mark[c][Len(mark[c])].work]
     /\ UNCHANGED mark /\ (osave' # {} => opc' = "s_undone")
  \/ /\ opc \in {"s_end", "s_undone"} /\ osave' = {}
     /\ mark' = [mark EXCEPT ![c] = SubSeq(@, 1, Len(mark[c]) - 1)] /\ UNCHANGED pending
SaveContinues(s) ==
  \/ UNCHANGED <<osave, scoped, res>> /\ opc' \in InSave
  \/ osave' = {} /\ \E how \in {"ok", "err", "cancelled"} :
       res' = [res EXCEPT ![s] = how] /\ (how = "ok" => opc = "s_end")

LEMMA JoinedStep ==
  ASSUME SeqSafe, EarlierInv, ScopedIsJoined, SaveIsMarked, NEW s \in osave, scoped, opc \in InSave,
         SaveStep(s) \/ SaveCancel(s)
  PROVE  /\ UNCHANGED <<holder, durable, active, via, hpc, hop, hres, points>> /\ SaveContinues(s)
         /\ \E c \in Conns : /\ holder[c] = Slot(via[s]) /\ SameButFor(c) /\ JoinedOutcome(s, c)
                             /\ mark[c] # <<>> /\ mark[c][Len(mark[c])].name = s
<1>0. DbType /\ s \in Saves /\ s \in Work /\ NoHandle \notin Handles BY EarlierType, NamesAssumption
<1>1. PICK c \in Conns : /\ holder[c] = Slot(via[s]) /\ \A d \in Conns : SaveConn(s, d) <=> d = c
                         /\ mark[c] # <<>> /\ mark[c][Len(mark[c])].name = s
                         /\ txs[c] # "none"
  BY JoinedConn
<1>2. via[s] # NoHandle /\ holder[c] # Owner /\ ~SaveConsumed(s) /\ mark[c] \in Seq(MarkEntry)
  <2>1. via[s] \in Handles BY JoinedConn
  <2>2. mark[c] \in Seq(MarkEntry) BY EarlierType
  <2> QED BY <1>0, <1>1, <2>1, <2>2, HoldersDiffer DEF SaveConsumed
<1>3. UNCHANGED <<active, via, hpc, hop, hres, points>> BY <1>0, SaveCases, <1>2 DEF SaveRoute, InSave
<1>4. /\ Len(mark[c]) \in DOMAIN mark[c] /\ \A i : Newest(mark[c], s, i) => i = Len(mark[c])
      /\ SubSeq(mark[c], 1, Len(mark[c])) = mark[c]
  BY <1>1, <1>2, LastIsNewest
<1>5. ASSUME RollbackToMark(c, s)
      PROVE  /\ pending' = [pending EXCEPT ![c] = mark[c][Len(mark[c])].work] /\ UNCHANGED <<mark, durable>>
             /\ SameButFor(c)
  <2>1. pending' = [pending EXCEPT ![c] = mark[c][Len(mark[c])].work] /\ mark' = [mark EXCEPT ![c] = mark[c]]
    BY <1>4, <1>5 DEF RollbackToMark
  <2> QED BY <1>0, <1>5, <2>1, DbOne DEF RollbackToMark, DbType
<1>6. ASSUME ReleaseMark(c, s)
      PROVE  /\ mark' = [mark EXCEPT ![c] = SubSeq(@, 1, Len(mark[c]) - 1)] /\ UNCHANGED <<pending, durable>>
             /\ SameButFor(c)
  <2> PICK i \in DOMAIN mark[c] : /\ Newest(mark[c], s, i)
                                  /\ mark' = [mark EXCEPT ![c] = SubSeq(@, 1, i - 1)]
                                  /\ UNCHANGED <<txs, pending, durable>>
    BY <1>2, <1>6 DEF ReleaseMark
  <2>1. i = Len(mark[c]) BY <1>4
  <2> QED BY <1>0, <1>6, <2>1, DbOne
<1>7. ASSUME RunOk(c, s)
      PROVE  /\ txs[c] = "open" /\ pending' = [pending EXCEPT ![c] = @ \cup {s}] /\ UNCHANGED <<mark, durable>>
             /\ SameButFor(c)
  BY <1>0, <1>1, <1>7, RunAdds, DbOne, EarlierType
<1>8. ASSUME NEW f, PointFails(c, s, f) PROVE UNCHANGED <<pending, mark, durable>> /\ SameButFor(c)
  BY <1>0, <1>8, DbOne DEF PointFails
<1>9. ASSUME RunFails(c) PROVE UNCHANGED <<pending, mark, durable>> /\ SameButFor(c)
  BY <1>0, <1>9, DbOne DEF RunFails, SeqSafe, SlotsAreKept
<1>10. ASSUME UNCHANGED db PROVE UNCHANGED <<pending, mark, durable>> /\ SameButFor(c)
  BY <1>10 DEF db, SameButFor
<1> DEFINE Goal == /\ UNCHANGED <<holder, durable>> /\ SaveContinues(s)
                   /\ SameButFor(c) /\ JoinedOutcome(s, c)
<1> SUFFICES Goal BY <1>1, <1>3
<1>11. CASE SaveDml(s)
  <2>1. UNCHANGED <<holder, osave, scoped, res>> BY <1>11 DEF SaveDml
  <2>2. \/ RunOk(c, s) /\ opc \in {"s_dml", "s_more"} /\ opc' \in {"s_more", "s_end"}
        \/ RunFails(c) /\ opc' = "s_undo"
    BY <1>1, <1>2, <1>11 DEF SaveDml
  <2>3. SaveContinues(s) BY <2>1, <2>2 DEF SaveContinues, InSave
  <2> QED BY <1>7, <1>9, <2>1, <2>2, <2>3 DEF JoinedOutcome
<1>12. CASE SaveRollbackTo(s)
  <2>1. UNCHANGED <<holder, osave, scoped, res>> /\ opc = "s_undo" /\ opc' = "s_undone" BY <1>12 DEF SaveRollbackTo
  <2>2. RollbackToMark(c, s) \/ PointFails(c, s, "rollback_to") BY <1>1, <1>2, <1>12 DEF SaveRollbackTo
  <2>3. SaveContinues(s) BY <2>1, <2>2 DEF SaveContinues, InSave
  <2> QED BY <1>5, <1>8, <2>1, <2>2, <2>3 DEF JoinedOutcome
<1>13. CASE SaveRelease(s)
  <2>1. UNCHANGED holder /\ opc \in {"s_end", "s_undone"} BY <1>2, <1>13 DEF SaveRelease
  <2>2. ReleaseMark(c, s) \/ PointFails(c, s, "release") BY <1>1, <1>2, <1>13 DEF SaveRelease
  <2>3. SaveContinues(s) /\ osave' = {} BY <1>13, <2>1 DEF SaveContinues, SaveRelease, SaveEnds
  <2> QED BY <1>6, <1>8, <2>1, <2>2, <2>3 DEF JoinedOutcome
<1>14. CASE SaveCancel(s)
  <2>1. SaveEnds(s, "cancelled") BY <1>0, <1>14, SaveCancels
  <2>2. SaveContinues(s) /\ osave' = {} BY <2>1 DEF SaveContinues, SaveEnds
  <2>3. UNCHANGED holder /\ (UNCHANGED db \/ InFlight(s, c)) BY <1>0, <1>1, <1>2, <1>14, SaveCancels
  <2>4. \/ UNCHANGED db
        \/ opc \in {"s_dml", "s_more"} /\ RunOk(c, s)
        \/ opc \in {"s_end", "s_undone"} /\ ReleaseMark(c, s)
        \/ opc = "s_undo" /\ RollbackToMark(c, s)
    BY <2>3 DEF InFlight, InSave
  <2> QED BY <1>5, <1>6, <1>7, <1>10, <2>2, <2>3, <2>4 DEF JoinedOutcome
<1>15. ~(SaveRoute(s) \/ SaveAcquire(s) \/ SaveBegin(s) \/ SavePoint(s) \/ SaveManagedEnd(s))
  BY DEF InSave, SaveRoute, SaveAcquire, SaveBegin, SavePoint, SaveManagedEnd
<1> QED BY <1>11, <1>12, <1>13, <1>14, <1>15 DEF SaveStep

SaveParts == SaveIsOpen /\ SaveIsMarked /\ SaveIsPending /\ AckIsMarked

LEMMA NoSaveParts ==
  ASSUME EarlierInv, osave = {}
  PROVE  SaveParts
<1>1. opc \notin InSave /\ opc \notin {"s_more", "s_end"}
  BY DEF EarlierInv, FrameInv, TypeOK, OwnerType, InSave
<1> QED BY <1>1 DEF SaveParts, SaveIsOpen, SaveIsMarked, SaveIsPending, AckIsMarked

LEMMA JoinedParts ==
  ASSUME SeqSafe, EarlierInv, ScopedIsJoined, SaveParts, NEW s \in osave, scoped, opc \in InSave,
         SaveStep(s), osave' # {}
  PROVE  SaveParts'
<1>0. /\ DbType /\ osave = {s} /\ s \in Work /\ opc' \in InSave /\ UNCHANGED <<osave, scoped, res, holder, durable, via>>
      /\ SaveIsMarked /\ via[s] \in Handles
  <2>1. SaveIsMarked /\ osave = {s} /\ s \in Work /\ DbType
    BY EarlierType DEF EarlierInv, PoolInv, OneSave, SaveParts
  <2>2. via[s] \in Handles BY <2>1, JoinedConn
  <2>3. UNCHANGED <<holder, durable, via>> /\ SaveContinues(s) BY <2>1, JoinedStep
  <2> QED BY <2>1, <2>2, <2>3 DEF SaveContinues
<1>1. PICK c \in Conns : /\ holder[c] = Slot(via[s]) /\ SameButFor(c) /\ JoinedOutcome(s, c)
                         /\ mark[c] # <<>> /\ mark[c][Len(mark[c])].name = s
  BY <1>0, JoinedStep
<1>2. UNCHANGED mark BY <1>0, <1>1 DEF JoinedOutcome
<1>3. \A d \in Conns : holder[d] = Slot(via[s]) => d = c
  BY <1>0, <1>1 DEF EarlierInv, FrameInv, OneConn, Held
<1>4. Acknowledged(via[s])' = Acknowledged(via[s]) BY <1>0 DEF Acknowledged
<1>5. SaveIsOpen' BY <1>0, <1>2 DEF SaveParts, SaveIsOpen
<1>6. SaveIsMarked' BY <1>0, <1>1, <1>2 DEF SaveIsMarked
<1>7. AckIsMarked' BY <1>0, <1>2, <1>4 DEF SaveParts, AckIsMarked
<1>8. SaveIsPending'
  <2>1. ASSUME opc' \in {"s_more", "s_end"} PROVE s \in pending'[c]
    BY <1>0, <1>1, <2>1 DEF JoinedOutcome, DbType
  <2>2. \A d \in Conns : SaveConn(s, d)' => d = c BY <1>0, <1>3, NamesAssumption DEF SaveConn
  <2> QED BY <1>0, <2>1, <2>2 DEF SaveIsPending
<1> QED BY <1>5, <1>6, <1>7, <1>8 DEF SaveParts

LEMMA ManagedParts ==
  ASSUME SeqSafe, EarlierInv, EarlierInv', ScopedIsJoined, SaveParts, NEW s \in osave, ~scoped, opc \in InSave,
         SaveStep(s), osave' # {}
  PROVE  SaveParts'
<1>0. DbType /\ osave = {s} /\ s \in Saves /\ s \in Work /\ txs \in [Conns -> {"none", "open", "aborted"}]
  BY EarlierType DEF EarlierInv, PoolInv, OneSave
<1>1. via[s] = NoHandle BY DEF ScopedIsJoined, InSave
<1>2. SaveDml(s)
  BY DEF InSave, SaveStep, SaveRoute, SaveAcquire, SaveBegin, SavePoint, SaveManagedEnd, SaveRollbackTo,
         SaveRelease, SaveEnds
<1>3. UNCHANGED <<osave, scoped, res, holder, via>> BY <1>2 DEF SaveDml
<1>4. PICK c \in Conns : /\ SaveConn(s, c)
                         /\ \/ RunOk(c, s) /\ opc' \in {"s_more", "s_end"}
                            \/ RunFails(c) /\ opc' = "s_undo"
  BY <1>1, <1>2 DEF SaveDml, SaveConsumed
<1>5. holder[c] = Owner /\ txs[c] # "none" BY <1>0, <1>1, <1>4 DEF SaveConn, SaveParts, SaveIsOpen
<1>6. UNCHANGED <<mark, durable>> /\ txs'[c] # "none" /\ (opc' \in {"s_more", "s_end"} => s \in pending'[c])
  <2>1. CASE RunOk(c, s) BY <1>0, <1>5, <2>1, RunAdds, EarlierType
  <2>2. CASE RunFails(c) /\ opc' = "s_undo"
    BY <1>0, <1>5, <2>2 DEF RunFails, SeqSafe, SlotsAreKept, AbortsOnError
  <2> QED BY <1>4, <2>1, <2>2
<1>7. \A d \in Conns : holder[d] = Owner => d = c BY <1>5 DEF EarlierInv, PoolInv, OwnerHasOne
<1>8. SaveIsOpen' BY <1>0, <1>3, <1>6, <1>7 DEF SaveParts, SaveIsOpen
<1>9. SaveIsPending' BY <1>0, <1>1, <1>3, <1>6, <1>7 DEF SaveIsPending, SaveConn
<1> QED BY <1>3, <1>8, <1>9 DEF SaveParts, SaveIsMarked, AckIsMarked

LEMMA StartParts ==
  ASSUME SeqSafe, EarlierInv, EarlierInv', ScopedIsJoined, StacksGrow, AckIsPending, NEW s \in osave, opc \notin InSave,
         SaveStep(s), osave' # {}
  PROVE  SaveParts'
<1>0. /\ DbType /\ osave = {s} /\ s \in Saves /\ s \in Work /\ txs \in [Conns -> {"none", "open", "aborted"}]
      /\ mark \in [Conns -> Seq(MarkEntry)] /\ pending \in [Conns -> SUBSET Work]
  BY EarlierType DEF EarlierInv, PoolInv, OneSave
<1>1. s \notin durable /\ \A d \in Conns : ~Holds(d, s)
  BY <1>0 DEF EarlierInv, GoneInv, SavesRunOnce, Written
<1>2. osave' = {s} /\ UNCHANGED <<scoped, res>>
  BY <1>0, SaveCases
<1>3. CASE SaveRoute(s) \/ SaveAcquire(s)
  <2>1. UNCHANGED db /\ opc' \in {"s_pool", "s_point", "s_begin"}
    BY <1>2, <1>3 DEF SaveRoute, SaveAcquire, SaveEnds
  <2> QED BY <1>1, <1>2, <2>1 DEF SaveParts, SaveIsOpen, SaveIsMarked, SaveIsPending, AckIsMarked, db, Holds, InSave
<1>4. CASE SaveBegin(s)
  <2> PICK c \in Conns : holder[c] = Owner /\ OpenTxn(c) /\ opc' = "s_dml" /\ UNCHANGED holder
    BY <1>2, <1>4 DEF SaveBegin, SaveEnds
  <2>1. ~scoped /\ pending[c] = {} BY <1>4 DEF SaveBegin, EarlierInv, PoolInv, BeginIsManaged, OwnerIsClean, IsClean
  <2>2. \A d \in Conns : ~Holds(d, s)' BY <1>0, <1>1, TxnAddsNothing DEF AddsNothing
  <2>3. s \notin durable' /\ txs'[c] # "none" BY <1>0, <1>1, <2>1 DEF OpenTxn
  <2>4. \A d \in Conns : holder[d] = Owner => d = c BY DEF EarlierInv, PoolInv, OwnerHasOne
  <2>5. SaveIsOpen' BY <1>2, <2>2, <2>3, <2>4 DEF SaveIsOpen, Holds
  <2> QED BY <1>2, <2>1, <2>5 DEF SaveParts, SaveIsMarked, SaveIsPending, AckIsMarked
<1>5. CASE SavePoint(s)
  <2>0. scoped /\ opc = "s_point" BY <1>0, <1>5 DEF SavePoint, ScopedIsJoined
  <2>1. via[s] \in Handles /\ NoHandle \notin Handles
    BY <1>0, <2>0, EarlierType, NamesAssumption DEF ScopedIsJoined
  <2> PICK c \in Conns : holder[c] = Slot(via[s]) /\ SetMark(c, s) /\ opc' = "s_dml" /\ UNCHANGED <<holder, via>>
    BY <1>2, <1>5, <2>1 DEF SavePoint, SaveEnds, SaveConn
  <2>2. txs[c] # "none" BY <2>1 DEF EarlierInv, GoneInv, SlotIsOpen
  <2>3. PICK q \in Seq(MarkEntry) :
              /\ mark' = [mark EXCEPT ![c] = Append(q, [name |-> s, work |-> pending[c]])]
              /\ \A i \in DOMAIN q : \E j \in DOMAIN mark[c] : q[i] = mark[c][j]
    <3>1. \E q \in Seq(MarkEntry) :
              /\ mark' = [mark EXCEPT ![c] = Append(q, [name |-> s, work |-> pending[c]])]
              /\ \A i \in DOMAIN q : \E j \in DOMAIN mark[c] : q[i] = mark[c][j]
              /\ \A p, A : Pairs(mark[c], p, A) => Pairs(q, p, A)
      BY <1>0, <2>2, SetMarkSlot
    <3> QED BY <3>1
  <2>4. UNCHANGED <<pending, durable>> BY <1>0, <2>2, SetMarkSlot
  <2> DEFINE e == [name |-> s, work |-> pending[c]]
  <2>5. e \in MarkEntry BY <1>0 DEF MarkEntry
  <2>6. /\ mark'[c] # <<>> /\ Len(mark'[c]) = Len(q) + 1 /\ Len(q) \in Nat
        /\ DOMAIN q = 1 .. Len(q) /\ DOMAIN mark'[c] = 1 .. Len(q) + 1
        /\ \A j \in DOMAIN q : mark'[c][j] = q[j]
        /\ mark'[c][Len(q) + 1] = e
    <3>1. mark'[c] = Append(q, e) BY <1>0, <2>3
    <3> HIDE DEF e
    <3> QED BY <2>5, <3>1, GrownStack
  <2>7. e.name = s /\ e.work = pending[c] OBVIOUS
  <2> HIDE DEF e
  <2>8. \A i \in DOMAIN mark'[c] : s \notin mark'[c][i].work
    <3> SUFFICES ASSUME NEW i \in DOMAIN mark'[c] PROVE s \notin mark'[c][i].work OBVIOUS
    <3>1. CASE i \in DOMAIN q BY <1>1, <2>3, <2>6, <3>1 DEF Holds
    <3>2. CASE i = Len(q) + 1 BY <1>1, <2>6, <2>7, <3>2 DEF Holds
    <3> QED BY <2>6, <3>1, <3>2
  <2>9. \A d \in Conns : d # c => mark'[d] = mark[d] BY <1>0, <2>3
  <2>10. SaveIsOpen'
    <3>1. \A d \in Conns : \A i \in DOMAIN mark'[d] : s \notin mark'[d][i].work BY <1>1, <2>8, <2>9 DEF Holds
    <3> QED BY <1>1, <1>2, <2>0, <2>4, <3>1 DEF SaveIsOpen
  <2>11. SaveIsMarked' BY <1>2, <2>6, <2>7 DEF SaveIsMarked
  <2>12. AckIsMarked'
    <3>1. \A d \in Conns : holder[d] = Slot(via[s]) => d = c
      BY <2>1 DEF EarlierInv, FrameInv, OneConn, Held
    <3>2. Acknowledged(via[s])' = Acknowledged(via[s]) BY <1>2 DEF Acknowledged
    <3>3. Acknowledged(via[s]) \subseteq pending[c] BY <2>1 DEF AckIsPending, Held
    <3> QED BY <1>2, <2>6, <2>7, <3>1, <3>2, <3>3 DEF AckIsMarked
  <2> QED BY <2>10, <2>11, <2>12 DEF SaveParts, SaveIsPending
<1>6. ~(SaveDml(s) \/ SaveManagedEnd(s) \/ SaveRollbackTo(s) \/ SaveRelease(s))
  BY DEF InSave, SaveDml, SaveManagedEnd, SaveRollbackTo, SaveRelease
<1> QED BY <1>3, <1>4, <1>5, <1>6 DEF SaveStep

LEMMA SavePartsNext ==
  ASSUME SeqSafe, EarlierInv, EarlierInv', ScopedIsJoined, StacksGrow, AckIsPending, SaveParts, [Next]_vars
  PROVE  SaveParts'
<1>1. CASE osave' = {}
  <2>1. EarlierInv' /\ osave' = {} => SaveParts' 
    <3>1. EarlierInv' /\ osave' = {} => opc' \notin InSave /\ opc' \notin {"s_more", "s_end"}
      BY DEF EarlierInv, FrameInv, TypeOK, OwnerType, InSave
    <3> QED BY <3>1 DEF SaveParts, SaveIsOpen, SaveIsMarked, SaveIsPending, AckIsMarked
  <2> QED BY <1>1, <2>1
<1>2. CASE UNCHANGED vars
  BY <1>2 DEF vars, db, owner, SaveParts, SaveIsOpen, SaveIsMarked, SaveIsPending, AckIsMarked, Acknowledged, SaveConn
<1>3. ASSUME NEW s \in Saves, SaveStart(s), osave = {} PROVE SaveParts'
  <2>1. ~Written(s) BY <1>3 DEF EarlierInv, GoneInv, SavesRunOnce, SaveStart
  <2>2. UNCHANGED db /\ osave' = {s} /\ opc' = "s_route" BY <1>3 DEF SaveStart
  <2> QED BY <2>1, <2>2 DEF SaveParts, SaveIsOpen, SaveIsMarked, SaveIsPending, AckIsMarked, Written, Holds, db, InSave
<1>4. ASSUME NEW s \in osave, SaveStep(s), osave' # {} PROVE SaveParts'
  BY <1>4, JoinedParts, ManagedParts, StartParts
<1>5. ASSUME NEW s \in osave, SaveCancel(s) PROVE osave' = {}
  BY <1>5 DEF SaveCancel, SaveEnds
<1>6. ASSUME NEW t \in Handles, SharedTxnDrop(t) PROVE SaveParts'
  <2>0. mark \in [Conns -> Seq(MarkEntry)] /\ holder \in [Conns -> Holders] BY EarlierType
  <2>1. UNCHANGED <<durable, opc, osave, scoped, via, res>> /\ \A s \in osave : via[s] # t
    BY <1>6, DropLast
  <2> PICK c \in Conns : /\ holder[c] = Slot(t) /\ holder' = [holder EXCEPT ![c] = Pool]
                         /\ SameButFor(c) /\ \A w \in Work : ~Holds(c, w)'
    BY <1>6, DropLast
  <2>2. \A d \in Conns : d # c => holder'[d] = holder[d] /\ mark'[d] = mark[d] /\ pending'[d] = pending[d] /\ txs'[d] = txs[d]
    BY <2>0 DEF SameButFor
  <2>3. holder'[c] = Pool BY <2>0
  <2>4. \A s \in osave : holder[c] # Slot(via[s]) /\ holder'[c] # Slot(via[s]) /\ holder'[c] # Owner
    BY <2>1, <2>3, SlotsDiffer, HoldersDiffer DEF Pool, Slot
  <2>5. \A s \in osave : s \in Work BY EarlierType
  <2>6. SaveIsOpen'
    <3>1. \A d \in Conns : holder'[d] = Owner => d # c /\ holder[d] = Owner BY <2>2, <2>3, HoldersDiffer
    <3>2. \A s \in osave : \A d \in Conns : \A i \in DOMAIN mark'[d] : s \notin mark'[d][i].work
      BY <2>2, <2>5 DEF SaveParts, SaveIsOpen, Holds
    <3> QED BY <2>1, <2>2, <3>1, <3>2 DEF SaveParts, SaveIsOpen
  <2>7. SaveIsMarked' BY <2>1, <2>2, <2>4 DEF SaveParts, SaveIsMarked
  <2>8. SaveIsPending' BY <2>1, <2>2, <2>4 DEF SaveParts, SaveIsPending, SaveConn
  <2>9. AckIsMarked' BY <2>1, <2>2, <2>4 DEF SaveParts, AckIsMarked, Acknowledged
  <2> QED BY <2>6, <2>7, <2>8, <2>9 DEF SaveParts
<1> QED BY <1>1, <1>2, <1>3, <1>4, <1>5, <1>6, NoSaveSteps, SavesAlone

-----------------------------------------------------------------------------
(* What the holder of a handle was told.                                    *)
AckParts == PointsAreSettled /\ AckIsPending /\ PointsMatch

(* What every step but BEGIN does to the holders: no transaction gets a     *)
(* connection.                                                              *)
HolderMoves ==
  \/ UNCHANGED holder
  \/ \E c \in Conns : \/ GiveBack(c)
                      \/ holder' = [holder EXCEPT ![c] = Owner]
                      \/ \E k \in Stmts : holder' = [holder EXCEPT ![c] = User(k)]
                      \/ \E t \in Handles : holder[c] = Slot(t) /\ holder' = [holder EXCEPT ![c] = Taker(t)]

LEMMA SlotsKeep ==
  ASSUME TypeOK, HolderMoves
  PROVE  Keeps /\ \A c \in Conns, t \in Handles : holder'[c] = Slot(t) => holder[c] = Slot(t)
<1>1. Keeps BY KeepsOne DEF HolderMoves
<1>2. ASSUME NEW c \in Conns, NEW h, holder' = [holder EXCEPT ![c] = h], \A t \in Handles : h # Slot(t)
      PROVE  \A d \in Conns, t \in Handles : holder'[d] = Slot(t) => holder[d] = Slot(t)
  BY <1>2 DEF TypeOK
<1> QED BY <1>1, <1>2, HoldersDiffer, SlotsDiffer DEF HolderMoves, GiveBack

(* A step after which the work in N is acknowledged and the transactions    *)
(* have no connection they did not have.                                    *)
LEMMA AckFrame ==
  ASSUME EarlierInv, AckParts, HolderMoves, NEW N,
         \A w \in Work : res[w] # "none" => res'[w] # "none",
         \A w \in Work : res'[w] = "ok" => (res[w] = "ok" /\ via'[w] = via[w]) \/ w \in N,
         \A w \in N : res[w] = "none" /\ \A d \in Conns : \A i \in DOMAIN mark[d] : w \notin mark[d][i].work,
         \A t \in Handles : points'[t] = points[t] \/ points'[t] = <<>>,
         \A t \in Handles : hpc'[t] = "live" => hpc[t] = "live" /\ points'[t] = points[t],
         \A d \in Conns, t \in Handles : Held(d, t) /\ Held(d, t)' =>
           /\ pending[d] \subseteq pending'[d] \/ Acknowledged(t) \subseteq pending'[d]
           /\ \A w \in N \cap Work : via'[w] = t /\ res'[w] = "ok" => w \in pending'[d]
           /\ \/ mark'[d] = mark[d]
              \/ /\ \A i \in DOMAIN mark'[d] : mark'[d][i].work \cap N = {}
                 /\ Pairs(mark[d], points[t], Acknowledged(t)) => Pairs(mark'[d], points[t], Acknowledged(t))
  PROVE  AckParts'
<1>0. Keeps /\ \A c \in Conns, t \in Handles : holder'[c] = Slot(t) => holder[c] = Slot(t)
  BY SlotsKeep, EarlierType
<1>1. \A t \in Handles : \A w \in Acknowledged(t)' : w \in Acknowledged(t) \/ (w \in N /\ via'[w] = t /\ res'[w] = "ok")
  BY DEF Acknowledged
<1>2. PointsAreSettled'
  <2> SUFFICES ASSUME NEW t \in Handles, NEW i \in DOMAIN points'[t], NEW w \in points'[t][i].done
               PROVE  res'[w] # "none"
    BY DEF PointsAreSettled
  <2>1. DOMAIN <<>> = {} OBVIOUS
  <2>2. points'[t] = points[t] BY <2>1
  <2>3. points[t] \in Seq(PointEntry) BY EarlierType
  <2>4. points[t][i] \in PointEntry BY <2>2, <2>3, LenProperties, ElementOfSeq
  <2>5. w \in Work BY <2>2, <2>4 DEF PointEntry
  <2> QED BY <2>2, <2>5 DEF AckParts, PointsAreSettled
<1>3. AckIsPending'
  <2> SUFFICES ASSUME NEW d \in Conns, NEW t \in Handles, Held(d, t)', NEW w \in Acknowledged(t)'
               PROVE  w \in pending'[d]
    BY DEF AckIsPending
  <2>1. Held(d, t) BY <1>0 DEF Keeps
  <2>2. w \in Work BY DEF Acknowledged
  <2>3. Acknowledged(t) \subseteq pending[d] BY <2>1 DEF AckParts, AckIsPending
  <2> QED BY <1>1, <2>1, <2>2, <2>3
<1>4. PointsMatch'
  <2> SUFFICES ASSUME NEW t \in Handles, NEW d \in Conns, hpc'[t] = "live", holder'[d] = Slot(t)
               PROVE  Pairs(mark'[d], points'[t], Acknowledged(t)')
    BY DEF PointsMatch
  <2>1. Held(d, t)' BY DEF Held
  <2>2. Held(d, t) BY <1>0, <2>1 DEF Keeps
  <2>3. hpc[t] = "live" /\ points'[t] = points[t] OBVIOUS
  <2>4. holder[d] = Slot(t) BY <1>0
  <2>5. Pairs(mark[d], points[t], Acknowledged(t)) BY <2>3, <2>4 DEF AckParts, PointsMatch
  <2>6. Pairs(mark'[d], points[t], Acknowledged(t)) /\ \A i \in DOMAIN mark'[d] : \A w \in N : w \notin mark'[d][i].work
    BY <2>1, <2>2, <2>5
  <2>7. \A w \in N : \A l \in DOMAIN points[t] : w \notin points[t][l].done
    BY DEF AckParts, PointsAreSettled
  <2>8. Acknowledged(t)' \ Acknowledged(t) \subseteq N BY <1>1
  <2> QED BY <2>3, <2>6, <2>7, <2>8, PairsWork
<1> QED BY <1>2, <1>3, <1>4 DEF AckParts

(* The step acknowledges at most n.                                         *)
LEMMA AckOne ==
  ASSUME EarlierInv, AckParts, HolderMoves, NEW n,
         \A w \in Work : res[w] # "none" => res'[w] # "none",
         \A w \in Work : res'[w] = "ok" => (res[w] = "ok" /\ via'[w] = via[w]) \/ w = n,
         n \in Work /\ res'[n] = "ok" =>
           res[n] = "none" /\ \A d \in Conns : \A i \in DOMAIN mark[d] : n \notin mark[d][i].work,
         UNCHANGED <<points, hpc>>,
         \A d \in Conns, t \in Handles : Held(d, t) =>
           /\ pending[d] \subseteq pending'[d] \/ Acknowledged(t) \subseteq pending'[d]
           /\ n \in Work /\ via'[n] = t /\ res'[n] = "ok" => n \in pending'[d]
           /\ \/ mark'[d] = mark[d]
              \/ /\ \A i \in DOMAIN mark'[d] : n \notin mark'[d][i].work
                 /\ Pairs(mark[d], points[t], Acknowledged(t)) => Pairs(mark'[d], points[t], Acknowledged(t))
  PROVE  AckParts'
<1> DEFINE N == {w \in Work : w = n /\ res'[n] = "ok"}
<1>1. \A w \in N : w \in Work /\ w = n /\ res'[n] = "ok" OBVIOUS
<1>2. n \in Work /\ res'[n] = "ok" => n \in N OBVIOUS
<1> HIDE DEF N
<1>3. \A w \in Work : res'[w] = "ok" => (res[w] = "ok" /\ via'[w] = via[w]) \/ w \in N BY <1>2
<1>4. \A w \in N : res[w] = "none" /\ \A d \in Conns : \A i \in DOMAIN mark[d] : w \notin mark[d][i].work BY <1>1
<1>5. \A t \in Handles : points'[t] = points[t] \/ points'[t] = <<>> OBVIOUS
<1>6. \A t \in Handles : hpc'[t] = "live" => hpc[t] = "live" /\ points'[t] = points[t] OBVIOUS
<1>7. \A d \in Conns, t \in Handles : Held(d, t) /\ Held(d, t)' =>
           /\ pending[d] \subseteq pending'[d] \/ Acknowledged(t) \subseteq pending'[d]
           /\ \A w \in N \cap Work : via'[w] = t /\ res'[w] = "ok" => w \in pending'[d]
           /\ \/ mark'[d] = mark[d]
              \/ /\ \A i \in DOMAIN mark'[d] : mark'[d][i].work \cap N = {}
                 /\ Pairs(mark[d], points[t], Acknowledged(t)) => Pairs(mark'[d], points[t], Acknowledged(t))
  BY <1>1
<1> QED BY <1>3, <1>4, <1>5, <1>6, <1>7, AckFrame

(* The step acknowledges nothing, and keeps the savepoints and the work of  *)
(* the connections that stay with their transactions.                       *)
LEMMA AckNone ==
  ASSUME EarlierInv, AckParts, HolderMoves, UNCHANGED <<via, res>>,
         \A t \in Handles : points'[t] = points[t] \/ points'[t] = <<>>,
         \A t \in Handles : hpc'[t] = "live" => hpc[t] = "live" /\ points'[t] = points[t],
         \A d \in Conns, t \in Handles : Held(d, t) /\ Held(d, t)' => pending[d] \subseteq pending'[d] /\ mark'[d] = mark[d]
  PROVE  AckParts'
<1> DEFINE N == {}
<1>1. \A w \in Work : res[w] # "none" => res'[w] # "none" OBVIOUS
<1>2. \A w \in Work : res'[w] = "ok" => (res[w] = "ok" /\ via'[w] = via[w]) \/ w \in N OBVIOUS
<1>3. \A w \in N : res[w] = "none" /\ \A d \in Conns : \A i \in DOMAIN mark[d] : w \notin mark[d][i].work OBVIOUS
<1>4. \A d \in Conns, t \in Handles : Held(d, t) /\ Held(d, t)' =>
           /\ pending[d] \subseteq pending'[d] \/ Acknowledged(t) \subseteq pending'[d]
           /\ \A w \in N \cap Work : via'[w] = t /\ res'[w] = "ok" => w \in pending'[d]
           /\ \/ mark'[d] = mark[d]
              \/ /\ \A i \in DOMAIN mark'[d] : mark'[d][i].work \cap N = {}
                 /\ Pairs(mark[d], points[t], Acknowledged(t)) => Pairs(mark'[d], points[t], Acknowledged(t))
  OBVIOUS
<1> HIDE DEF N
<1> QED BY <1>1, <1>2, <1>3, <1>4, AckFrame

LEMMA AckStmt ==
  ASSUME SeqSafe, EarlierInv, AckParts, NEW k \in Stmts, StmtStart(k) \/ StmtStep(k) \/ StmtCancel(k)
  PROVE  AckParts'
<1>0. /\ k \in Work /\ k \notin Saves /\ TypeOK /\ DbType
      /\ holder \in [Conns -> Holders] /\ pending \in [Conns -> SUBSET Work] /\ txs \in [Conns -> {"none", "open", "aborted"}]
      /\ via \in [Work -> Handles \cup {NoHandle}] /\ NoHandle \notin Handles
      /\ res \in [Work -> {"none", "ok", "err", "cancelled", "undone"}]
  BY EarlierType, NamesAssumption
<1>1. HolderMoves /\ UNCHANGED <<points, hpc>>
  BY DEF HolderMoves, StmtStart, StmtStep, StmtRoute, StmtAcquire, StmtLockSlot, StmtRun, StmtCancel, StmtEnds, handle
<1>2. tpc[k] # "done" => res[k] = "none" /\ \A d \in Conns : ~Holds(d, k)
  BY <1>0 DEF EarlierInv, FrameInv, StmtIsFresh, GoneInv, StmtsRunOnce, Written
<1>3. ASSUME UNCHANGED db, \A w \in Work : res'[w] = "ok" => res[w] = "ok" /\ via'[w] = via[w],
             \A w \in Work : res[w] # "none" => res'[w] # "none", res'[k] # "ok"
      PROVE  AckParts'
  BY <1>1, <1>3, AckOne DEF db
<1>4. CASE StmtStart(k) \/ StmtRoute(k) \/ StmtAcquire(k) \/ StmtLockSlot(k)
  <2>1. UNCHANGED db /\ \A w \in Work : res'[w] = res[w] \/ (w = k /\ res'[k] = "err")
    BY <1>0, <1>4 DEF StmtStart, StmtRoute, StmtAcquire, StmtLockSlot, StmtEnds
  <2>2. \A w \in Work : w # k => via'[w] = via[w]
    BY <1>0, <1>4 DEF StmtStart, StmtRoute, StmtAcquire, StmtLockSlot, StmtEnds
  <2>3. res[k] = "none"
    BY <1>2, <1>4 DEF StmtStart, StmtRoute, StmtAcquire, StmtLockSlot
  <2> QED BY <1>0, <1>3, <2>1, <2>2, <2>3
<1>5. ASSUME tpc[k] = "run", UNCHANGED via, NEW how \in {"ok", "err", "cancelled"}, res' = [res EXCEPT ![k] = how],
             NEW c \in Conns, StmtConn(k, c), RunOk(c, k) \/ (how # "ok" /\ UNCHANGED <<pending, mark>>), SameButFor(c)
      PROVE  AckParts'
  <2>1. /\ \A w \in Work : res'[w] = (IF w = k THEN how ELSE res[w])
        /\ res[k] = "none" /\ \A d \in Conns : \A i \in DOMAIN mark[d] : k \notin mark[d][i].work
    BY <1>0, <1>2, <1>5 DEF Holds
  <2>2. ASSUME NEW d \in Conns, NEW t \in Handles, Held(d, t)
        PROVE  /\ pending[d] \subseteq pending'[d] /\ mark'[d] = mark[d]
               /\ via[k] = t /\ how = "ok" => k \in pending'[d]
    <3>1. CASE d # c
      <4>1. via[k] # t
        <5> SUFFICES ASSUME via[k] = t PROVE FALSE OBVIOUS
        <5>1. holder[c] = Slot(t) BY <1>0, <1>5 DEF StmtConn
        <5> QED BY <2>2, <3>1, <5>1 DEF EarlierInv, FrameInv, OneConn, Held
      <4> QED BY <1>0, <1>5, <3>1, <4>1 DEF SameButFor
    <3>2. CASE d = c
      <4>1. holder[c] = Slot(t) BY <1>0, <1>5, <2>2, <3>2, HoldersDiffer, SlotsDiffer DEF StmtConn, Held
      <4>2. txs[c] # "none" BY <4>1 DEF EarlierInv, GoneInv, SlotIsOpen
      <4>3. CASE RunOk(c, k)
        <5>1. txs[c] # "aborted" /\ mark' = mark BY <4>3 DEF RunOk
        <5>2. txs[c] = "open" BY <1>0, <4>2, <5>1
        <5>3. pending' = [pending EXCEPT ![c] = @ \cup {k}] BY <4>3, <5>2 DEF RunOk
        <5> QED BY <1>0, <3>2, <5>1, <5>3
      <4> QED BY <1>5, <3>2, <4>3
    <3> QED BY <3>1, <3>2
  <2>3. /\ \A w \in Work : res[w] # "none" => res'[w] # "none"
        /\ \A w \in Work : res'[w] = "ok" => (res[w] = "ok" /\ via'[w] = via[w]) \/ w = k
        /\ res'[k] = how
    BY <1>0, <1>5, <2>1
  <2> QED BY <1>1, <1>5, <2>1, <2>2, <2>3, AckOne
<1>6. CASE StmtRun(k)
  <2> PICK c \in Conns : /\ StmtConn(k, c)
                         /\ \/ RunOk(c, k) /\ StmtEnds(k, "ok")
                            \/ RunFails(c) /\ StmtEnds(k, "err")
    BY <1>6 DEF StmtRun
  <2>1. SameButFor(c) BY <1>0, DbOne
  <2>2. RunFails(c) => UNCHANGED <<pending, mark>> BY DEF RunFails, SeqSafe, SlotsAreKept
  <2>3. UNCHANGED via /\ tpc[k] = "run" BY <1>6 DEF StmtRun
  <2> QED BY <1>5, <2>1, <2>2, <2>3 DEF StmtEnds
<1>7. CASE StmtCancel(k)
  <2> PICK c \in Conns : StmtConn(k, c) /\ (RunOk(c, k) \/ UNCHANGED db) BY <1>7 DEF StmtCancel
  <2>1. SameButFor(c) BY <1>0, DbOne
  <2>2. UNCHANGED db => UNCHANGED <<pending, mark>> BY DEF db
  <2>3. UNCHANGED via /\ tpc[k] = "run" /\ res' = [res EXCEPT ![k] = "cancelled"] BY <1>7 DEF StmtCancel, StmtEnds
  <2> QED BY <1>5, <2>1, <2>2, <2>3
<1> QED BY <1>4, <1>6, <1>7 DEF StmtStep

LEMMA AckBegin ==
  ASSUME SeqSafe, EarlierInv, AckParts, BeginLock \/ BeginStep \/ BeginCancel
  PROVE  AckParts'
<1>0. /\ TypeOK /\ DbType /\ holder \in [Conns -> Holders] /\ mark \in [Conns -> Seq(MarkEntry)]
      /\ hpc \in [Handles -> {"none", "live", "take", "exec", "clear", "drop", "try", "done"}]
      /\ NoHandle \notin Handles
  BY EarlierType, NamesAssumption
<1>1. UNCHANGED <<via, res, points>>
  BY DEF BeginLock, BeginCancel, BeginStep, BeginAcquire, BeginOk, BeginFails, handle
<1>2. ASSUME NEW c \in Conns, holder[c] = Owner, SameButFor(c)
      PROVE  \A d \in Conns, t \in Handles : Held(d, t) => pending'[d] = pending[d] /\ mark'[d] = mark[d]
  BY <1>2, HoldersDiffer DEF Held, SameButFor
<1>3. CASE BeginLock \/ BeginAcquire \/ BeginFails \/ BeginCancel
  <2>1. HolderMoves /\ UNCHANGED hpc
    BY <1>3 DEF HolderMoves, BeginLock, BeginAcquire, BeginFails, BeginCancel, handle
  <2>2. UNCHANGED db \/ \E c \in Conns : holder[c] = Owner /\ SameButFor(c)
    <3>1. ASSUME NEW c \in Conns,
                 \/ OpenTxn(c) \/ OpenFails(c) \/ EndTxn(c, FALSE) \/ UNCHANGED db
                 \/ txs' = [txs EXCEPT ![c] = "aborted"] /\ UNCHANGED <<pending, mark, durable>>
          PROVE  SameButFor(c)
      <4>1. CASE txs' = [txs EXCEPT ![c] = "aborted"] /\ UNCHANGED <<pending, mark, durable>>
        BY <1>0, <4>1 DEF SameButFor, DbType
      <4> QED BY <1>0, <3>1, <4>1, DbOne
    <3> QED BY <1>3, <3>1 DEF BeginLock, BeginAcquire, BeginFails, BeginCancel
  <2>3. \A d \in Conns, t \in Handles : Held(d, t) => pending'[d] = pending[d] /\ mark'[d] = mark[d]
    BY <1>2, <2>2 DEF db
  <2> QED BY <1>1, <2>1, <2>3, AckNone
<1>4. ASSUME NEW t \in Handles, BeginOk(t) PROVE AckParts'
  <2> PICK c \in Conns : holder[c] = Owner /\ OpenTxn(c) /\ holder' = [holder EXCEPT ![c] = Slot(t)]
    BY <1>4 DEF BeginOk
  <2>1. hpc[t] = "none" /\ opc = "b_exec" /\ hpc' = [hpc EXCEPT ![t] = "live"] BY <1>4 DEF BeginOk
  <2>2. mark[c] = <<>> BY <1>0, <2>1 DEF EarlierInv, PoolInv, OwnerIsClean, IsClean, DbType
  <2>3. mark'[c] = <<>> BY <1>0, <2>2 DEF OpenTxn
  <2>4. \A w \in Work : via[w] # t BY <1>0, <2>1 DEF EarlierInv, FrameInv, ViaIsBegun
  <2>5. \A u \in Handles : Acknowledged(u)' = Acknowledged(u) BY <1>1 DEF Acknowledged
  <2>6. Acknowledged(t) = {} BY <2>4 DEF Acknowledged
  <2>7. \A d \in Conns, u \in Handles : Held(d, u) => pending'[d] = pending[d] /\ mark'[d] = mark[d]
    BY <1>0, <1>2, DbOne
  <2>8. \A d \in Conns, u \in Handles : Held(d, u)' => (Held(d, u) /\ holder'[d] = holder[d] /\ d # c /\ u # t) \/ (d = c /\ u = t)
    <3>1. \A d \in Conns : ~Held(d, t) BY <2>1 DEF EarlierInv, FrameInv, HeldIsBegun
    <3>2. \A d \in Conns : d # c => holder'[d] = holder[d] BY <1>0
    <3>3. holder'[c] = Slot(t) BY <1>0
    <3> QED BY <3>1, <3>2, <3>3, SlotsDiffer DEF Held
  <2>9. PointsAreSettled' BY <1>1 DEF AckParts, PointsAreSettled
  <2>10. AckIsPending' BY <2>5, <2>6, <2>7, <2>8 DEF AckParts, AckIsPending
  <2>11. PointsMatch'
    <3> SUFFICES ASSUME NEW u \in Handles, NEW d \in Conns, hpc'[u] = "live", holder'[d] = Slot(u)
                 PROVE  Pairs(mark'[d], points'[u], Acknowledged(u)')
      BY DEF PointsMatch
    <3>1. Held(d, u)' BY DEF Held
    <3>2. CASE d = c /\ u = t BY <2>3, <3>2, PairsEmpty
    <3>3. CASE Held(d, u) /\ holder'[d] = holder[d] /\ u # t
      BY <1>0, <1>1, <2>1, <2>5, <2>7, <3>3 DEF AckParts, PointsMatch
    <3> QED BY <2>8, <3>1, <3>2, <3>3
  <2> QED BY <2>9, <2>10, <2>11 DEF AckParts
<1> QED BY <1>3, <1>4 DEF BeginStep

LEMMA AckHandle ==
  ASSUME SeqSafe, EarlierInv, AckParts, NEW t \in Handles, HandleCall(t) \/ HandleStep(t) \/ BackgroundStep(t)
  PROVE  AckParts'
<1>0. /\ TypeOK /\ DbType /\ holder \in [Conns -> Holders]
      /\ hpc \in [Handles -> {"none", "live", "take", "exec", "clear", "drop", "try", "done"}]
      /\ points \in [Handles -> Seq(PointEntry)]
  BY EarlierType
<1> USE DEF HandleCall, HandleCommit, HandleRollback, HandleDrop, HandleTake, HandleCancel,
     HandleStep, TakeConn, Finish, ClearSession, DropClearNow, DropTryTake,
     BackgroundStep, BackgroundRollback, BackgroundClear, SharedTxnDrop, Discard, handle
<1>1. UNCHANGED <<via, res>> OBVIOUS
<1>2. HolderMoves BY DEF HolderMoves
<1>3. \A u \in Handles : points'[u] = points[u] \/ points'[u] = <<>> BY <1>0
<1>4. \A u \in Handles : hpc'[u] = "live" => hpc[u] = "live" /\ points'[u] = points[u] BY <1>0
<1>5. UNCHANGED db \/ \E c \in Conns : GiveBack(c) /\ SameButFor(c)
  <2>1. UNCHANGED db \/ \E c \in Conns : /\ GiveBack(c)
                                         /\ (\E a : EndTxn(c, a)) \/ CommitOk(c) \/ CommitFails(c) \/ UNCHANGED db
    OBVIOUS
  <2> QED BY <1>0, <2>1, DbOne
<1>6. \A d \in Conns, u \in Handles : Held(d, u)' => pending'[d] = pending[d] /\ mark'[d] = mark[d]
  <2>1. CASE UNCHANGED db BY <2>1 DEF db
  <2>2. ASSUME NEW c \in Conns, GiveBack(c), SameButFor(c)
        PROVE  \A d \in Conns, u \in Handles : Held(d, u)' => pending'[d] = pending[d] /\ mark'[d] = mark[d]
    BY <1>0, <2>2, HoldersDiffer DEF GiveBack, SameButFor, Held
  <2> QED BY <1>5, <2>1, <2>2
<1> QED BY <1>1, <1>2, <1>3, <1>4, <1>6, AckNone

(* The savepoints the holder of t knows become r, those of its connection q.*)
LEMMA AckPoints ==
  ASSUME EarlierInv, AckParts, UNCHANGED <<holder, hpc, via>>,
         NEW t \in Handles, NEW c \in Conns, holder[c] = Slot(t), SameButFor(c),
         NEW r \in Seq(PointEntry), points' = [points EXCEPT ![t] = r],
         \A i \in DOMAIN r : \A w \in r[i].done : res[w] # "none",
         \A w \in Work : res[w] # "none" => res'[w] # "none",
         \A u \in Handles : u # t => Acknowledged(u)' = Acknowledged(u),
         Acknowledged(t)' \subseteq pending'[c],
         Pairs(mark'[c], r, Acknowledged(t)')
  PROVE  AckParts'
<1>0. points \in [Handles -> Seq(PointEntry)] BY EarlierType
<1>1. points'[t] = r /\ \A u \in Handles : u # t => points'[u] = points[u] BY <1>0
<1>2. PointsAreSettled'
  <2> SUFFICES ASSUME NEW u \in Handles, NEW i \in DOMAIN points'[u], NEW w \in points'[u][i].done
               PROVE  res'[w] # "none"
    BY DEF PointsAreSettled
  <2>1. points'[u] \in Seq(PointEntry) BY <1>0, <1>1
  <2>2. points'[u][i] \in PointEntry BY <2>1, LenProperties, ElementOfSeq
  <2>3. w \in Work BY <2>2 DEF PointEntry
  <2>4. res[w] # "none" BY <1>1 DEF AckParts, PointsAreSettled
  <2> QED BY <2>3, <2>4
<1>3. \A d \in Conns : holder[d] = Slot(t) => d = c BY DEF EarlierInv, FrameInv, OneConn, Held
<1>4. AckIsPending'
  <2> SUFFICES ASSUME NEW d \in Conns, NEW u \in Handles, Held(d, u) PROVE Acknowledged(u)' \subseteq pending'[d]
    BY DEF AckIsPending, Held
  <2>1. CASE u = t
    <3>1. d = c BY <2>1 DEF EarlierInv, FrameInv, OneConn, Held
    <3> QED BY <2>1, <3>1
  <2>2. CASE u # t
    <3>1. d # c BY <2>2, SlotsDiffer DEF Held
    <3> QED BY <2>2, <3>1 DEF SameButFor, AckParts, AckIsPending
  <2> QED BY <2>1, <2>2
<1>5. PointsMatch'
  <2> SUFFICES ASSUME NEW u \in Handles, NEW d \in Conns, hpc[u] = "live", holder[d] = Slot(u)
               PROVE  Pairs(mark'[d], points'[u], Acknowledged(u)')
    BY DEF PointsMatch
  <2>1. CASE u = t BY <1>1, <1>3, <2>1
  <2>2. CASE u # t
    <3>1. d # c BY <2>2, SlotsDiffer
    <3> QED BY <1>1, <2>2, <3>1 DEF SameButFor, AckParts, PointsMatch
  <2> QED BY <2>1, <2>2
<1> QED BY <1>2, <1>4, <1>5 DEF AckParts

(* What the holder knew of a part of its savepoints.                        *)
LEMMA PointsCut ==
  ASSUME EarlierInv, PointsAreSettled, NEW t \in Handles, NEW a \in 0 .. Len(points[t])
  PROVE  /\ SubSeq(points[t], 1, a) \in Seq(PointEntry)
         /\ \A i \in DOMAIN SubSeq(points[t], 1, a) : \A w \in SubSeq(points[t], 1, a)[i].done : res[w] # "none"
<1> DEFINE o == SubSeq(points[t], 1, a)
<1>1. points[t] \in Seq(PointEntry) BY EarlierType
<1>2. o \in Seq(PointEntry) /\ \A i \in DOMAIN o : i \in DOMAIN points[t] /\ o[i] = points[t][i] BY <1>1, CutStack
<1> HIDE DEF o
<1>3. \A i \in DOMAIN o : \A w \in o[i].done : res[w] # "none" BY <1>2 DEF PointsAreSettled
<1> QED BY <1>2, <1>3 DEF o

(* release_point and rollback_point, what they leave: o of the stack of the *)
(* connection, r of that of the holder.                                     *)
CutBoth(t, c, i, l, o, r) ==
  /\ mark' = [mark EXCEPT ![c] = o] /\ points' = [points EXCEPT ![t] = r]
  /\ \/ /\ o = SubSeq(mark[c], 1, i - 1) /\ r = SubSeq(points[t], 1, l - 1)
        /\ UNCHANGED <<pending, res>>
     \/ /\ o = SubSeq(mark[c], 1, i) /\ r = SubSeq(points[t], 1, l)
        /\ pending' = [pending EXCEPT ![c] = mark[c][i].work]
        /\ res' = [w \in Work |-> IF w \in Acknowledged(t) \ points[t][l].done THEN "undone" ELSE res[w]]

LEMMA AckPoint ==
  ASSUME SeqSafe, EarlierInv, StacksGrow, AckParts, NEW t \in Handles, PointStep(t)
  PROVE  AckParts'
<1>0. /\ TypeOK /\ DbType /\ holder \in [Conns -> Holders]
      /\ points \in [Handles -> Seq(PointEntry)] /\ points[t] \in Seq(PointEntry)
      /\ mark \in [Conns -> Seq(MarkEntry)] /\ pending \in [Conns -> SUBSET Work]
      /\ txs \in [Conns -> {"none", "open", "aborted"}]
      /\ \A d \in Conns : mark[d] \in Seq(MarkEntry)
      /\ res \in [Work -> {"none", "ok", "err", "cancelled", "undone"}]
  BY EarlierType
<1>1. UNCHANGED <<holder, hpc, via>> /\ hpc[t] = "live"
  BY DEF PointStep, PointCall, SetIsolation, CreatePoint, RollbackPoint, ReleasePoint, handle
<1>2. ASSUME UNCHANGED <<pending, mark, points, res>> PROVE AckParts'
  BY <1>1, <1>2, AckNone DEF HolderMoves
<1>3. CASE SetIsolation(t) BY <1>2, <1>3 DEF SetIsolation, handle
<1>4. ASSUME NEW c \in Conns, NEW n, NEW f, PointFails(c, n, f), UNCHANGED <<points, res>> PROVE AckParts'
  BY <1>2, <1>4 DEF PointFails
<1>5. ASSUME NEW c \in Conns, holder[c] = Slot(t)
      PROVE  /\ txs[c] # "none" /\ holder[c] # Owner /\ Acknowledged(t) \subseteq pending[c]
             /\ Pairs(mark[c], points[t], Acknowledged(t))
  BY <1>1, <1>5, HoldersDiffer DEF EarlierInv, GoneInv, SlotIsOpen, AckParts, AckIsPending, PointsMatch, Held
<1>6. ASSUME NEW n \in Points, CreatePoint(t, n) PROVE AckParts'
  <2> DEFINE A == Acknowledged(t)
             b == [name |-> n, done |-> A]
  <2>1. CASE \E c \in Conns : PointFails(c, n, "savepoint") /\ UNCHANGED points
    BY <1>4, <1>6, <2>1 DEF CreatePoint
  <2>2. ASSUME NEW c \in Conns, holder[c] = Slot(t), SetMark(c, n), points' = [points EXCEPT ![t] = Append(@, b)]
        PROVE  AckParts'
    <3> DEFINE e == [name |-> n, work |-> pending[c]]
    <3>1. UNCHANGED res BY <1>6 DEF CreatePoint
    <3>2. UNCHANGED <<pending, durable>> BY <1>0, <1>5, <2>2, SetMarkSlot
    <3>3. PICK q \in Seq(MarkEntry) :
            /\ mark' = [mark EXCEPT ![c] = Append(q, e)]
            /\ \A p, B : Pairs(mark[c], p, B) => Pairs(q, p, B)
      <4>1. txs[c] # "none" BY <1>5, <2>2
      <4>2. \E q \in Seq(MarkEntry) :
              /\ mark' = [mark EXCEPT ![c] = Append(q, [name |-> n, work |-> pending[c]])]
              /\ \A i \in DOMAIN q : \E j \in DOMAIN mark[c] : q[i] = mark[c][j]
              /\ \A p, B : Pairs(mark[c], p, B) => Pairs(q, p, B)
        BY <1>0, <2>2, <4>1, SetMarkSlot
      <4> QED BY <4>2
    <3>4. Pairs(q, points[t], A) BY <1>5, <2>2, <3>3
    <3>5. e \in MarkEntry /\ b \in PointEntry BY <1>0 DEF MarkEntry, PointEntry, Acknowledged
    <3>6. e.name = n /\ b.name = n /\ e.work = pending[c] /\ b.done = A OBVIOUS
    <3>7. A \subseteq pending[c] /\ \A w \in A : res[w] # "none" BY <1>5, <2>2 DEF Acknowledged
    <3>8. \A u \in Handles : Acknowledged(u)' = Acknowledged(u) BY <1>1, <3>1 DEF Acknowledged
    <3>9. SameButFor(c) BY <1>0, <2>2, DbOne
    <3>10. mark'[c] = Append(q, e) BY <1>0, <3>3
    <3>11. points' = [points EXCEPT ![t] = Append(points[t], b)] BY <2>2
    <3>12. A' = A BY <3>8
    <3> HIDE DEF e, b, A
    <3>13. Pairs(Append(q, e), Append(points[t], b), A) BY <1>0, <3>4, <3>5, <3>6, <3>7, PairsCreate
    <3> DEFINE r == Append(points[t], b)
    <3>14. r \in Seq(PointEntry) /\ \A i \in DOMAIN r : (i \in DOMAIN points[t] /\ r[i] = points[t][i]) \/ r[i] = b
      <4>1. /\ r \in Seq(PointEntry) /\ Len(points[t]) \in Nat /\ DOMAIN points[t] = 1 .. Len(points[t])
            /\ DOMAIN r = 1 .. Len(points[t]) + 1
            /\ \A j \in DOMAIN points[t] : r[j] = points[t][j]
            /\ r[Len(points[t]) + 1] = b
        BY <1>0, <3>5, GrownStack
      <4> HIDE DEF r
      <4> QED BY <4>1
    <3>15. Pairs(mark'[c], r, Acknowledged(t)') BY <3>8, <3>10, <3>13 DEF A
    <3>16. points' = [points EXCEPT ![t] = r] BY <3>11
    <3> HIDE DEF r
    <3>17. \A i \in DOMAIN r : \A w \in r[i].done : res[w] # "none"
      BY <3>6, <3>7, <3>14 DEF AckParts, PointsAreSettled
    <3>18. Acknowledged(t)' \subseteq pending'[c] BY <3>2, <3>7, <3>8 DEF A
    <3>19. \A w \in Work : res[w] # "none" => res'[w] # "none" BY <3>1
    <3> QED BY <1>1, <2>2, <3>8, <3>9, <3>14, <3>15, <3>16, <3>17, <3>18, <3>19, AckPoints
  <2> QED BY <1>6, <2>1, <2>2 DEF CreatePoint
<1>7. ASSUME NEW n \in Points, NEW c \in Conns, holder[c] = Slot(t), SameButFor(c),
             NEW i, Newest(mark[c], n, i), NEW l, Newest(points[t], n, l), NEW o, NEW r,
             CutBoth(t, c, i, l, o, r)
      PROVE  AckParts'
  <2> DEFINE A == Acknowledged(t)
  <2>1. Pairs(mark[c], points[t], A) BY <1>5, <1>7
  <2>3. /\ i \in DOMAIN mark[c] /\ l \in DOMAIN points[t]
        /\ mark[c][i].work \cap A = points[t][l].done \cap A
        /\ Pairs(SubSeq(mark[c], 1, i), SubSeq(points[t], 1, l), A)
        /\ Pairs(SubSeq(mark[c], 1, i - 1), SubSeq(points[t], 1, l - 1), A)
    <3> DEFINE q == mark[c]
               p == points[t]
    <3>1. q \in Seq(MarkEntry) /\ p \in Seq(PointEntry) BY <1>0
    <3>2. Newest(q, n, i) /\ Newest(p, n, l) BY <1>7
    <3>3. Pairs(q, p, A) BY <2>1
    <3> SUFFICES /\ i \in DOMAIN q /\ l \in DOMAIN p
                 /\ q[i].work \cap A = p[l].done \cap A
                 /\ Pairs(SubSeq(q, 1, i), SubSeq(p, 1, l), A)
                 /\ Pairs(SubSeq(q, 1, i - 1), SubSeq(p, 1, l - 1), A)
      OBVIOUS
    <3> HIDE DEF A, q, p
    <3> QED BY <3>1, <3>2, <3>3, PairsNewest
  <2>4. mark'[c] = o /\ points' = [points EXCEPT ![t] = r] BY <1>0, <1>7 DEF CutBoth
  <2>5. Pairs(o, r, A) BY <1>7, <2>3 DEF CutBoth
  <2>6. l \in 0 .. Len(points[t]) /\ l - 1 \in 0 .. Len(points[t]) BY <1>0, <2>3, LenProperties
  <2>7. r \in Seq(PointEntry) /\ \A j \in DOMAIN r : \A w \in r[j].done : res[w] # "none"
    <3>1. PointsAreSettled BY DEF AckParts
    <3>2. CASE r = SubSeq(points[t], 1, l) BY <2>6, <3>1, <3>2, PointsCut
    <3>3. CASE r = SubSeq(points[t], 1, l - 1) BY <2>6, <3>1, <3>3, PointsCut
    <3> QED BY <1>7, <3>2, <3>3 DEF CutBoth
  <2>8. \A u \in Handles : u # t => Acknowledged(u)' = Acknowledged(u)
    BY <1>0, <1>1, <1>7 DEF CutBoth, Acknowledged
  <2>9. \A w \in Work : res[w] # "none" => res'[w] # "none" BY <1>7 DEF CutBoth
  <2>10. Acknowledged(t)' \subseteq A BY <1>0, <1>1, <1>7 DEF CutBoth, Acknowledged
  <2>11. Acknowledged(t)' \subseteq pending'[c]
    <3>1. CASE UNCHANGED <<pending, res>>
      <4>1. A \subseteq pending[c] BY <1>5, <1>7
      <4> QED BY <2>10, <3>1, <4>1
    <3>2. CASE /\ pending' = [pending EXCEPT ![c] = mark[c][i].work]
               /\ res' = [w \in Work |-> IF w \in Acknowledged(t) \ points[t][l].done THEN "undone" ELSE res[w]]
      <4>1. pending'[c] = mark[c][i].work BY <1>0, <3>2
      <4>2. \A w \in Acknowledged(t)' : w \in points[t][l].done
        BY <1>0, <1>1, <3>2, <2>10 DEF Acknowledged
      <4> QED BY <2>3, <2>10, <4>1, <4>2
    <3> QED BY <1>7, <3>1, <3>2 DEF CutBoth
  <2>12. Pairs(mark'[c], r, Acknowledged(t)')
    <3> HIDE DEF A
    <3> DEFINE B == Acknowledged(t)'
    <3>1. B \subseteq A BY <2>10
    <3> HIDE DEF B
    <3>2. Pairs(o, r, B) BY <2>5, <3>1, PairsWork
    <3> QED BY <2>4, <3>2 DEF B
  <2> QED BY <1>1, <1>7, <2>4, <2>7, <2>8, <2>9, <2>11, <2>12, AckPoints
<1>8. ASSUME NEW n \in Points, RollbackPoint(t, n) PROVE AckParts'
  <2> PICK c \in Conns :
        /\ holder[c] = Slot(t)
        /\ \/ /\ RollbackToMark(c, n)
              /\ \E i \in DOMAIN points[t] :
                   /\ Newest(points[t], n, i)
                   /\ points' = [points EXCEPT ![t] = SubSeq(@, 1, i)]
                   /\ res' = [w \in Work |-> IF w \in Acknowledged(t) \ points[t][i].done
                                               THEN "undone" ELSE res[w]]
           \/ PointFails(c, n, "rollback_to") /\ UNCHANGED <<points, res>>
    BY <1>8 DEF RollbackPoint
  <2>1. ASSUME RollbackToMark(c, n), NEW l \in DOMAIN points[t], Newest(points[t], n, l),
               points' = [points EXCEPT ![t] = SubSeq(@, 1, l)],
               res' = [w \in Work |-> IF w \in Acknowledged(t) \ points[t][l].done THEN "undone" ELSE res[w]]
        PROVE  AckParts'
    <3> PICK i \in DOMAIN mark[c] : /\ Newest(mark[c], n, i)
                                    /\ pending' = [pending EXCEPT ![c] = mark[c][i].work]
                                    /\ mark' = [mark EXCEPT ![c] = SubSeq(@, 1, i)]
      BY <2>1 DEF RollbackToMark
    <3>1. SameButFor(c) BY <1>0, <2>1, DbOne
    <3> DEFINE o == SubSeq(mark[c], 1, i)
               r == SubSeq(points[t], 1, l)
    <3>2. mark' = [mark EXCEPT ![c] = o] /\ points' = [points EXCEPT ![t] = r] BY <2>1
    <3>3. o = SubSeq(mark[c], 1, i) /\ r = SubSeq(points[t], 1, l) OBVIOUS
    <3> HIDE DEF o, r
    <3>4. holder[c] = Slot(t) /\ Newest(points[t], n, l) /\ Newest(mark[c], n, i)
          /\ pending' = [pending EXCEPT ![c] = mark[c][i].work]
          /\ res' = [w \in Work |-> IF w \in Acknowledged(t) \ points[t][l].done THEN "undone" ELSE res[w]]
      BY <2>1
    <3>5. CutBoth(t, c, i, l, o, r) BY <3>2, <3>3, <3>4 DEF CutBoth
    <3> QED BY <1>7, <3>1, <3>4, <3>5
  <2> QED BY <1>4, <2>1
<1>9. ASSUME NEW n \in Points, ReleasePoint(t, n) PROVE AckParts'
  <2> PICK c \in Conns :
        /\ holder[c] = Slot(t)
        /\ \/ /\ ReleaseMark(c, n)
              /\ \E i \in DOMAIN points[t] :
                   /\ Newest(points[t], n, i)
                   /\ points' = [points EXCEPT ![t] = SubSeq(@, 1, i - 1)]
           \/ PointFails(c, n, "release") /\ UNCHANGED points
    BY <1>9 DEF ReleasePoint
  <2>0. UNCHANGED res BY <1>9 DEF ReleasePoint
  <2>1. ASSUME ReleaseMark(c, n), NEW l \in DOMAIN points[t], Newest(points[t], n, l),
               points' = [points EXCEPT ![t] = SubSeq(@, 1, l - 1)]
        PROVE  AckParts'
    <3> PICK i \in DOMAIN mark[c] : /\ Newest(mark[c], n, i)
                                    /\ mark' = [mark EXCEPT ![c] = SubSeq(@, 1, i - 1)]
                                    /\ UNCHANGED pending
      BY <1>5, <2>1 DEF ReleaseMark
    <3>1. SameButFor(c) BY <1>0, <2>1, DbOne
    <3> DEFINE o == SubSeq(mark[c], 1, i - 1)
               r == SubSeq(points[t], 1, l - 1)
    <3>2. mark' = [mark EXCEPT ![c] = o] /\ points' = [points EXCEPT ![t] = r] BY <2>1
    <3>3. o = SubSeq(mark[c], 1, i - 1) /\ r = SubSeq(points[t], 1, l - 1) OBVIOUS
    <3> HIDE DEF o, r
    <3>4. holder[c] = Slot(t) /\ Newest(points[t], n, l) /\ Newest(mark[c], n, i) /\ UNCHANGED <<pending, res>>
      BY <2>0, <2>1
    <3>5. CutBoth(t, c, i, l, o, r) BY <3>2, <3>3, <3>4 DEF CutBoth
    <3> QED BY <1>7, <3>1, <3>4, <3>5
  <2> QED BY <1>4, <2>0, <2>1
<1> QED BY <1>3, <1>6, <1>8, <1>9 DEF PointStep

(* Before a save has its savepoint, and in a transaction of its own, it is  *)
(* its own connection that it works on.                                     *)
LEMMA UnjoinedStep ==
  ASSUME SeqSafe, EarlierInv, ScopedIsJoined, NEW s \in osave, SaveStep(s) \/ SaveCancel(s), ~(scoped /\ opc \in InSave)
  PROVE  \/ UNCHANGED db
         \/ \E c \in Conns : holder[c] = Owner /\ SameButFor(c) /\ via[s] = NoHandle
         \/ /\ opc = "s_point" /\ UNCHANGED via /\ res'[s] # "ok" /\ via[s] \in Handles
            /\ \E c \in Conns : /\ holder[c] = Slot(via[s]) /\ SameButFor(c)
                                /\ SetMark(c, s) \/ UNCHANGED <<pending, mark>>
<1>0. /\ s \in Saves /\ s \in Work /\ TypeOK /\ DbType /\ NoHandle \notin Handles
      /\ active \in Handles \cup {NoHandle} /\ via \in [Work -> Handles \cup {NoHandle}]
      /\ res \in [Work -> {"none", "ok", "err", "cancelled", "undone"}] /\ res[s] = "none"
  BY EarlierType, NamesAssumption DEF EarlierInv, FrameInv, SaveIsFresh
<1>1. CASE SaveRoute(s) \/ SaveAcquire(s) BY <1>1 DEF SaveRoute, SaveAcquire
<1>2. ASSUME opc \notin {"s_route", "s_point"}
      PROVE  via[s] = NoHandle
  <2>1. CASE ~scoped BY <1>2, <2>1 DEF ScopedIsJoined
  <2>2. CASE scoped
    <3>1. opc = "s_pool" \/ opc = "s_begin"
      BY <1>2, <2>2 DEF EarlierInv, FrameInv, TypeOK, OwnerType, InSave
    <3>2. opc # "s_begin" BY <2>2 DEF EarlierInv, FrameInv, BeginIsManaged
    <3> QED BY <3>1, <3>2 DEF EarlierInv, PoolInv, UnjoinedUsesPool
  <2> QED BY <2>1, <2>2
<1>3. ASSUME opc = "s_point" PROVE via[s] \in Handles
  BY <1>0, <1>3 DEF ScopedIsJoined
<1>4. ASSUME NEW c \in Conns,
             \/ OpenTxn(c) \/ OpenFails(c) \/ (\E a : EndTxn(c, a)) \/ UNCHANGED db
             \/ CommitOk(c) \/ CommitFails(c) \/ (\E w : RunOk(c, w)) \/ RunFails(c)
             \/ \E n : SetMark(c, n) \/ \E f : PointFails(c, n, f)
      PROVE  SameButFor(c)
  BY <1>0, <1>4, DbOne
<1>5. CASE SaveBegin(s)
  <2> PICK c \in Conns : holder[c] = Owner /\ (OpenTxn(c) \/ OpenFails(c)) BY <1>5 DEF SaveBegin
  <2>1. opc \notin {"s_route", "s_point"} BY <1>5 DEF SaveBegin
  <2> QED BY <1>2, <1>4, <2>1
<1>6. CASE SaveManagedEnd(s)
  <2> PICK c \in Conns : holder[c] = Owner /\ (CommitOk(c) \/ CommitFails(c) \/ EndTxn(c, FALSE))
    BY <1>6 DEF SaveManagedEnd
  <2>1. opc \notin {"s_route", "s_point"} BY <1>6 DEF SaveManagedEnd
  <2> QED BY <1>2, <1>4, <2>1
<1>7. CASE SaveDml(s)
  <2>1. opc \notin {"s_route", "s_point"} BY <1>7 DEF SaveDml
  <2>2. via[s] = NoHandle BY <1>2, <2>1
  <2> PICK c \in Conns : SaveConn(s, c) /\ (RunOk(c, s) \/ RunFails(c)) BY <1>7, <2>2 DEF SaveDml, SaveConsumed
  <2> QED BY <1>4, <2>2 DEF SaveConn
<1>8. ~SaveRollbackTo(s) /\ ~SaveRelease(s) BY DEF SaveRollbackTo, SaveRelease, InSave
<1>9. CASE SavePoint(s)
  <2>1. opc = "s_point" /\ via[s] # NoHandle /\ UNCHANGED via BY <1>0, <1>3, <1>9 DEF SavePoint
  <2>2. res'[s] # "ok" BY <1>0, <1>9 DEF SavePoint, SaveEnds
  <2>3. UNCHANGED db \/ \E c \in Conns : SaveConn(s, c) /\ (SetMark(c, s) \/ PointFails(c, s, "savepoint"))
    BY <1>9 DEF SavePoint
  <2> QED BY <1>3, <1>4, <2>1, <2>2, <2>3 DEF SaveConn, PointFails
<1>10. CASE SaveCancel(s)
  <2>1. UNCHANGED via /\ res'[s] # "ok" BY <1>0, <1>10 DEF SaveCancel, SaveEnds
  <2>2. \/ UNCHANGED db
        \/ via[s] = NoHandle /\ \E c \in Conns : holder[c] = Owner /\ \E a \in BOOLEAN : EndTxn(c, a)
        \/ /\ via[s] # NoHandle /\ opc \notin {"s_route", "s_pool"} /\ scoped
           /\ \E c \in Conns : SaveConn(s, c) /\ InFlight(s, c)
    BY <1>0, <1>10, SaveCancels
  <2>3. ASSUME via[s] # NoHandle, opc \notin {"s_route", "s_pool"}, scoped,
               NEW c \in Conns, SaveConn(s, c), InFlight(s, c)
        PROVE  /\ opc = "s_point" /\ via[s] \in Handles
               /\ holder[c] = Slot(via[s]) /\ SameButFor(c) /\ (SetMark(c, s) \/ UNCHANGED <<pending, mark>>)
    <3>1. opc = "s_point" BY <1>2, <2>3
    <3>2. UNCHANGED db \/ SetMark(c, s) BY <2>3, <3>1 DEF InFlight
    <3> QED BY <1>3, <1>4, <2>3, <3>1, <3>2 DEF SaveConn, db
  <2> QED BY <1>4, <2>1, <2>2, <2>3
<1> QED BY <1>1, <1>5, <1>6, <1>7, <1>8, <1>9, <1>10 DEF SaveStep

LEMMA AckSave ==
  ASSUME SeqSafe, EarlierInv, ScopedIsJoined, SaveParts, StacksGrow, AckParts,
         NEW s \in Saves, SaveStart(s) \/ SaveStep(s) \/ SaveCancel(s)
  PROVE  AckParts'
<1>0. /\ s \in Work /\ TypeOK /\ DbType /\ NoHandle \notin Handles
      /\ mark \in [Conns -> Seq(MarkEntry)] /\ pending \in [Conns -> SUBSET Work]
      /\ via \in [Work -> Handles \cup {NoHandle}]
      /\ res \in [Work -> {"none", "ok", "err", "cancelled", "undone"}]
      /\ points \in [Handles -> Seq(PointEntry)]
      /\ s \notin Points
  BY EarlierType, NamesAssumption
<1>1. HolderMoves /\ UNCHANGED <<points, hpc>>
  BY DEF HolderMoves, SaveStart, SaveStep, SaveRoute, SaveAcquire, SaveBegin, SavePoint, SaveDml, SaveManagedEnd,
         SaveRollbackTo, SaveRelease, SaveCancel, handle
<1>2. CASE SaveStart(s)
  <2>1. UNCHANGED <<db, via, res>> BY <1>2 DEF SaveStart
  <2> QED BY <1>1, <2>1, AckNone DEF db
<1>3. ASSUME SaveStep(s) \/ SaveCancel(s) PROVE AckParts'
  <2>1. s \in osave /\ res[s] = "none" BY <1>3, SaveCases DEF EarlierInv, FrameInv, SaveIsFresh
  <2>2. /\ \A w \in Work : w # s => via'[w] = via[w] /\ res'[w] = res[w]
        /\ res'[s] # "none" => UNCHANGED via
    BY <1>0, <1>3, <2>1 DEF SaveStep, SaveRoute, SaveAcquire, SaveBegin, SavePoint, SaveDml, SaveManagedEnd,
       SaveRollbackTo, SaveRelease, SaveCancel, SaveEnds
  <2>3. /\ \A w \in Work : res[w] # "none" => res'[w] # "none"
        /\ \A w \in Work : res'[w] = "ok" => (res[w] = "ok" /\ via'[w] = via[w]) \/ w = s
    BY <2>1, <2>2
  <2>4. \A d \in Conns : \A i \in DOMAIN mark[d] : s \notin mark[d][i].work
    BY <2>1 DEF SaveParts, SaveIsOpen
  <2> DEFINE Kept3(d, t) ==
        /\ pending[d] \subseteq pending'[d] \/ Acknowledged(t) \subseteq pending'[d]
        /\ s \in Work /\ via'[s] = t /\ res'[s] = "ok" => s \in pending'[d]
        /\ \/ mark'[d] = mark[d]
           \/ /\ \A i \in DOMAIN mark'[d] : s \notin mark'[d][i].work
              /\ Pairs(mark[d], points[t], Acknowledged(t)) => Pairs(mark'[d], points[t], Acknowledged(t))
  <2>5. SUFFICES ASSUME NEW d \in Conns, NEW t \in Handles, Held(d, t) PROVE Kept3(d, t)
    BY <1>1, <2>1, <2>3, <2>4, AckOne
  <2>6. CASE ~(scoped /\ opc \in InSave)
    <3>1. via[s] = t => res'[s] # "ok"
      <4> SUFFICES ASSUME via[s] = t, res'[s] = "ok" PROVE FALSE OBVIOUS
      <4>1. SaveManagedEnd(s) \/ SaveRelease(s)
        BY <1>0, <1>3, <2>1 DEF SaveStep, SaveRoute, SaveAcquire, SaveBegin, SavePoint, SaveDml,
           SaveRollbackTo, SaveCancel, SaveEnds
      <4>2. ~scoped /\ opc \in InSave BY <2>6, <4>1 DEF SaveManagedEnd, SaveRelease, InSave
      <4>3. via[s] = NoHandle BY <2>1, <4>2 DEF ScopedIsJoined, InSave
      <4> QED BY <1>0, <4>3
    <3>2. via'[s] = t => res'[s] # "ok"
      BY <2>2, <3>1
    <3>3. CASE UNCHANGED db BY <3>2, <3>3 DEF db
    <3>4. ASSUME NEW c \in Conns, holder[c] = Owner, SameButFor(c) PROVE Kept3(d, t)
      <4>1. d # c BY <2>5, <3>4, HoldersDiffer DEF Held
      <4> QED BY <3>2, <3>4, <4>1 DEF SameButFor
    <3>5. ASSUME opc = "s_point", via[s] \in Handles, NEW c \in Conns, holder[c] = Slot(via[s]), SameButFor(c),
                 SetMark(c, s) \/ UNCHANGED <<pending, mark>>
          PROVE  Kept3(d, t)
      <4>1. CASE UNCHANGED <<pending, mark>> BY <3>2, <4>1
      <4>2. CASE d # c BY <3>2, <3>5, <4>2 DEF SameButFor
      <4>3. CASE d = c /\ SetMark(c, s)
        <5>1. txs[c] # "none" BY <3>5 DEF EarlierInv, GoneInv, SlotIsOpen
        <5>2. UNCHANGED pending BY <1>0, <4>3, <5>1, SetMarkSlot
        <5> DEFINE e == [name |-> s, work |-> pending[c]]
        <5>3. PICK q \in Seq(MarkEntry) :
                /\ mark' = [mark EXCEPT ![c] = Append(q, e)]
                /\ \A i \in DOMAIN q : \E j \in DOMAIN mark[c] : q[i] = mark[c][j]
                /\ \A p, B : Pairs(mark[c], p, B) => Pairs(q, p, B)
          <6>1. \E q \in Seq(MarkEntry) :
                /\ mark' = [mark EXCEPT ![c] = Append(q, [name |-> s, work |-> pending[c]])]
                /\ \A i \in DOMAIN q : \E j \in DOMAIN mark[c] : q[i] = mark[c][j]
                /\ \A p, B : Pairs(mark[c], p, B) => Pairs(q, p, B)
            BY <1>0, <4>3, <5>1, SetMarkSlot
          <6> QED BY <6>1
        <5>4. e \in MarkEntry /\ e.name = s /\ e.work = pending[c] BY <1>0 DEF MarkEntry
        <5>5. mark'[c] = Append(q, e) BY <1>0, <5>3
        <5> HIDE DEF e
        <5>6. s \notin pending[c]
          BY <2>1, <3>5 DEF EarlierInv, GoneInv, SavesRunOnce, Written, Holds, InSave
        <5>7. \A i \in DOMAIN mark'[c] : s \notin mark'[c][i].work
          <6>1. /\ DOMAIN Append(q, e) = 1 .. Len(q) + 1 /\ DOMAIN q = 1 .. Len(q) /\ Len(q) \in Nat
                /\ \A j \in DOMAIN q : Append(q, e)[j] = q[j]
                /\ Append(q, e)[Len(q) + 1] = e
            BY <5>4, GrownStack
          <6>2. \A j \in DOMAIN q : s \notin q[j].work BY <2>4, <5>3
          <6>3. \A i \in 1 .. Len(q) + 1 : i \in DOMAIN q \/ i = Len(q) + 1 BY <6>1
          <6> QED BY <5>4, <5>5, <5>6, <6>1, <6>2, <6>3
        <5>8. ASSUME Pairs(mark[d], points[t], Acknowledged(t)) PROVE Pairs(mark'[d], points[t], Acknowledged(t))
          <6> DEFINE A == Acknowledged(t)
          <6>1. Pairs(q, points[t], A) BY <4>3, <5>3, <5>8
          <6>2. e.name \notin Points BY <1>0, <5>4
          <6> HIDE DEF A
          <6>3. Pairs(Append(q, e), points[t], A) BY <5>4, <6>1, <6>2, PairsOther
          <6> QED BY <4>3, <5>5, <6>3 DEF A
        <5> QED BY <3>2, <4>3, <5>2, <5>7, <5>8
      <4> QED BY <3>5, <4>1, <4>2, <4>3
    <3> QED BY <1>3, <2>1, <2>6, <3>3, <3>4, <3>5, UnjoinedStep
  <2>7. CASE scoped /\ opc \in InSave
    <3>0. SaveIsMarked /\ SaveIsPending /\ AckIsMarked BY DEF SaveParts
    <3>1. PICK c \in Conns : /\ holder[c] = Slot(via[s]) /\ SameButFor(c) /\ JoinedOutcome(s, c)
                             /\ mark[c] # <<>> /\ mark[c][Len(mark[c])].name = s
      BY <1>3, <2>1, <2>7, <3>0, JoinedStep
    <3>2. UNCHANGED via /\ SaveContinues(s) BY <1>3, <2>1, <2>7, <3>0, JoinedStep
    <3>3. via[s] \in Handles BY <2>1, <2>7, <3>0, JoinedConn
    <3>4. res'[s] = "ok" => opc = "s_end" BY <1>0, <2>1, <3>2 DEF SaveContinues
    <3>5. CASE d # c
      <4>1. via[s] # t
        <5> SUFFICES ASSUME via[s] = t PROVE FALSE OBVIOUS
        <5>1. Held(c, t) BY <3>1 DEF Held
        <5> QED BY <2>5, <3>5, <5>1 DEF EarlierInv, FrameInv, OneConn
      <4> QED BY <3>1, <3>2, <3>5, <4>1 DEF SameButFor
    <3>6. CASE d = c
      <4>1. via[s] = t BY <2>5, <3>1, <3>6, SlotsDiffer DEF Held
      <4>2. SaveConn(s, c) BY <1>0, <3>1, <3>3 DEF SaveConn
      <4>3. opc = "s_end" => s \in pending[c] BY <2>1, <3>0, <4>2 DEF SaveIsPending
      <4>4. CASE UNCHANGED <<pending, mark>> BY <3>4, <3>6, <4>3, <4>4
      <4>5. CASE /\ opc \in {"s_dml", "s_more"}
                 /\ pending' = [pending EXCEPT ![c] = @ \cup {s}] /\ UNCHANGED mark
        BY <1>0, <3>4, <3>6, <4>5
      <4>6. CASE opc = "s_undo" /\ pending' = [pending EXCEPT ![c] = mark[c][Len(mark[c])].work] /\ UNCHANGED mark
        <5>1. Acknowledged(t) \subseteq mark[c][Len(mark[c])].work
          BY <2>1, <2>7, <3>0, <3>1, <4>1 DEF AckIsMarked
        <5> QED BY <1>0, <3>4, <3>6, <4>6, <5>1
      <4>7. CASE mark' = [mark EXCEPT ![c] = SubSeq(@, 1, Len(mark[c]) - 1)] /\ UNCHANGED pending
        <5> DEFINE q == mark[c]
                   o == SubSeq(q, 1, Len(q) - 1)
                   A == Acknowledged(t)
        <5>1. q \in Seq(MarkEntry) /\ q # <<>> /\ q[Len(q)].name \notin Points /\ mark'[c] = o
          BY <1>0, <3>1, <4>7
        <5>2. ASSUME Pairs(q, points[t], A) PROVE Pairs(o, points[t], A)
          <6>1. points[t] \in Seq(PointEntry) BY <1>0
          <6> HIDE DEF q, A
          <6> QED BY <5>1, <5>2, <6>1, PairsDropLast
        <5>3. \A i \in DOMAIN o : i \in DOMAIN q /\ o[i] = q[i]
          <6> HIDE DEF q
          <6>1. Len(q) - 1 \in 0 .. Len(q) BY <5>1, LastIsNewest
          <6> QED BY <5>1, <6>1, CutStack
        <5> HIDE DEF o
        <5>4. \A i \in DOMAIN mark'[c] : s \notin mark'[c][i].work BY <2>4, <5>1, <5>3
        <5> QED BY <3>4, <3>6, <4>3, <4>7, <5>1, <5>2, <5>4
      <4> QED BY <3>1, <4>4, <4>5, <4>6, <4>7 DEF JoinedOutcome
    <3> QED BY <3>5, <3>6
  <2> QED BY <2>6, <2>7
<1> QED BY <1>2, <1>3

LEMMA SeqInit == Init => SeqInv
<1> SUFFICES ASSUME Init PROVE SeqInv OBVIOUS
<1>1. EarlierInv BY EarlierInit
<1>2. \A c \in Conns : mark[c] = <<>> /\ \A w \in Work : ~Holds(c, w) BY DEF Init, Holds
<1>3. \A c \in Conns, t \in Handles : ~Held(c, t) BY HoldersDiffer DEF Init, Held
<1>4. StacksGrow BY <1>2 DEF StacksGrow, StackOk
<1>5. HeldIsOpen /\ AckIsPending BY <1>3 DEF HeldIsOpen, AckIsPending
<1>6. PooledIsManaged BY <1>2 DEF PooledIsManaged
<1>7. ScopedIsJoined BY DEF Init, ScopedIsJoined
<1>8. SaveParts BY <1>1, NoSaveParts DEF Init
<1>9. PointsAreSettled /\ PointsMatch BY DEF Init, PointsAreSettled, PointsMatch
<1> QED BY <1>1, <1>4, <1>5, <1>6, <1>7, <1>8, <1>9 DEF SeqInv, SaveParts

LEMMA SeqNext == SeqSafe /\ SeqInv /\ [Next]_vars => SeqInv'
<1> SUFFICES ASSUME SeqSafe, SeqInv, [Next]_vars PROVE SeqInv' OBVIOUS
<1>1. /\ EarlierInv /\ StacksGrow /\ HeldIsOpen /\ PooledIsManaged /\ ScopedIsJoined
      /\ SaveParts /\ AckParts /\ AckIsPending
  BY DEF SeqInv, SaveParts, AckParts
<1>2. EarlierInv' BY <1>1, EarlierNext
<1>3. StacksGrow' BY <1>1, StackNext, EarlierType
<1>4. HeldIsOpen' BY <1>1, <1>2, HeldNext
<1>5. PooledIsManaged' BY <1>1, PooledNext
<1>6. ScopedIsJoined' BY <1>1, ScopedNext
<1>7. SaveParts' BY <1>1, <1>2, SavePartsNext
<1>8. AckParts'
  <2>1. CASE UNCHANGED vars
    BY <1>1, <2>1 DEF vars, db, handle, AckParts, PointsAreSettled, AckIsPending, PointsMatch, Acknowledged, Held
  <2>2. ASSUME NEW k \in Stmts, StmtStart(k) \/ StmtStep(k) \/ StmtCancel(k) PROVE AckParts'
    BY <1>1, <2>2, AckStmt
  <2>3. CASE BeginLock \/ BeginStep \/ BeginCancel BY <1>1, <2>3, AckBegin
  <2>4. ASSUME NEW s \in Saves, SaveStart(s) \/ SaveStep(s) \/ SaveCancel(s) PROVE AckParts'
    BY <1>1, <2>4, AckSave
  <2>5. ASSUME NEW t \in Handles, HandleCall(t) \/ HandleStep(t) \/ BackgroundStep(t) PROVE AckParts'
    BY <1>1, <2>5, AckHandle
  <2>6. ASSUME NEW t \in Handles, PointStep(t) PROVE AckParts' BY <1>1, <2>6, AckPoint
  <2> QED BY <2>1, <2>2, <2>3, <2>4, <2>5, <2>6 DEF Next, CallerStep, HandleCall, PointStep
<1> QED BY <1>2, <1>3, <1>4, <1>5, <1>6, <1>7, <1>8 DEF SeqInv, SaveParts, AckParts

-----------------------------------------------------------------------------
(* Acknowledged work is durable.                                            *)

LEMMA NeverAbortedNext ==
  ASSUME KeepSafe, SeqInv, NeverAborted, [Next]_vars
  PROVE  NeverAborted'
<1>0. EarlierInv /\ txs \in [Conns -> {"none", "open", "aborted"}] BY EarlierType DEF SeqInv
<1>1. ASSUME UNCHANGED txs PROVE NeverAborted' BY <1>1 DEF NeverAborted
<1>2. ASSUME NEW c \in Conns, NEW h, txs' = [txs EXCEPT ![c] = h], h # "aborted" PROVE NeverAborted'
  BY <1>0, <1>2 DEF NeverAborted
<1>3. ASSUME NEW c \in Conns,
             \/ \E w : RunOk(c, w)
             \/ RunFails(c) \/ CommitOk(c) \/ CommitFails(c) \/ OpenTxn(c) \/ OpenFails(c)
             \/ \E a : EndTxn(c, a)
             \/ \E n : SetMark(c, n) \/ RollbackToMark(c, n) \/ ReleaseMark(c, n)
             \/ \E n : PointFails(c, n, "savepoint")
             \/ \E n : /\ PointFails(c, n, "rollback_to") \/ PointFails(c, n, "release")
                       /\ HasMark(c, n) \/ Provider # "postgres"
             \/ txs' = [txs EXCEPT ![c] = AbortsOnError(c)] /\ "isolation" \in Faults
      PROVE  NeverAborted'
  <2>1. txs[c] # "aborted" /\ (Provider # "postgres" => AbortsOnError(c) = txs[c])
    BY DEF AbortsOnError, NeverAborted
  <2>2. CASE \E a : EndTxn(c, a) BY <1>2, <2>2 DEF EndTxn
  <2>3. CASE CommitOk(c) \/ CommitFails(c) BY <1>2, <2>1, <2>3 DEF CommitOk, CommitFails, EndTxn
  <2>11. CASE RunFails(c)
    <3>1. CASE EndTxn(c, FALSE) BY <2>2, <3>1
    <3>2. CASE "stmt" \in Faults /\ txs' = [txs EXCEPT ![c] = AbortsOnError(c)] BY <1>2, <2>1, <3>2 DEF KeepSafe
    <3> QED BY <2>1, <2>11, <3>1, <3>2 DEF RunFails
  <2>4. CASE \E w : RunOk(c, w) BY <1>1, <2>4 DEF RunOk
  <2>5. CASE OpenFails(c) BY <1>1, <2>5 DEF OpenFails, db
  <2>6. CASE OpenTxn(c) BY <1>2, <2>1, <2>6 DEF OpenTxn
  <2>7. ASSUME NEW n, SetMark(c, n) PROVE NeverAborted' BY <1>1, <1>2, <2>7 DEF SetMark, db
  <2>8. ASSUME NEW n, RollbackToMark(c, n) PROVE NeverAborted' BY <1>2, <2>8 DEF RollbackToMark
  <2>9. ASSUME NEW n, ReleaseMark(c, n) PROVE NeverAborted' BY <1>1, <1>2, <2>9 DEF ReleaseMark, EndTxn
  <2>10. ASSUME txs' = [txs EXCEPT ![c] = AbortsOnError(c)], "isolation" \in Faults PROVE NeverAborted'
    BY <1>2, <2>1, <2>10 DEF KeepSafe
  <2>12. ASSUME NEW n, NEW f \in {"savepoint", "rollback_to", "release"}, PointFails(c, n, f),
                f = "savepoint" \/ HasMark(c, n) \/ Provider # "postgres"
         PROVE  NeverAborted'
    <3>1. f \in Faults \/ Provider # "postgres" BY <2>1, <2>12 DEF PointFails
    <3> QED BY <1>2, <2>1, <2>12, <3>1 DEF KeepSafe, PointFails
  <2> QED BY <1>3, <2>2, <2>3, <2>4, <2>5, <2>6, <2>7, <2>8, <2>9, <2>10, <2>11, <2>12
<1>11. ASSUME NEW c \in Conns, NEW n, PointFails(c, n, "rollback_to") \/ PointFails(c, n, "release"),
              HasMark(c, n) \/ Provider # "postgres"
       PROVE  NeverAborted'
  BY <1>3, <1>11
<1>4. ASSUME UNCHANGED db PROVE NeverAborted' BY <1>1, <1>4 DEF db
<1>5. CASE UNCHANGED vars BY <1>1, <1>5 DEF vars, db
<1>6. ASSUME NEW k \in Stmts, StmtStart(k) \/ StmtCancel(k) \/ StmtStep(k) PROVE NeverAborted'
  BY <1>3, <1>4, <1>6 DEF StmtStart, StmtCancel, StmtStep, StmtRoute, StmtAcquire, StmtLockSlot, StmtRun
<1>7. CASE BeginLock \/ BeginCancel \/ BeginStep
  <2>1. CASE BeginFails
    <3> PICK c \in Conns :
          \/ OpenFails(c) \/ EndTxn(c, FALSE) \/ UNCHANGED db
          \/ "isolation" \in Faults /\ Provider = "postgres"
      BY <2>1 DEF BeginFails
    <3>1. ~("isolation" \in Faults /\ Provider = "postgres") BY DEF KeepSafe
    <3> QED BY <1>3, <1>4, <3>1
  <2> QED BY <1>3, <1>4, <1>7, <2>1 DEF BeginLock, BeginCancel, BeginStep, BeginAcquire, BeginOk
<1>8. ASSUME NEW s \in Saves, SaveStart(s) \/ SaveCancel(s) \/ SaveStep(s) PROVE NeverAborted'
  <2>1. ASSUME NEW c \in Conns, InFlight(s, c) PROVE NeverAborted' BY <1>3, <1>4, <2>1 DEF InFlight
  <2>2. CASE SaveCancel(s) BY <1>3, <1>4, <2>1, <2>2 DEF SaveCancel
  <2>3. ASSUME s \in osave, scoped, opc \in InSave, NEW c \in Conns, SaveConn(s, c) PROVE HasMark(c, s)
    <3>1. PICK d \in Conns : /\ mark[d] # <<>> /\ mark[d][Len(mark[d])].name = s
                             /\ \A e \in Conns : SaveConn(s, e) <=> e = d
      BY <1>0, <2>3, JoinedConn DEF SeqInv
    <3>2. c = d /\ mark[c] \in Seq(MarkEntry) BY <1>0, <2>3, <3>1, EarlierType
    <3> QED BY <3>1, <3>2, LastIsNewest DEF HasMark
  <2>4. CASE SaveRollbackTo(s)
    <3>1. s \in osave /\ scoped /\ opc \in InSave BY <2>4 DEF SaveRollbackTo, InSave
    <3>2. CASE UNCHANGED db BY <1>4, <3>2
    <3>3. ASSUME NEW c \in Conns, SaveConn(s, c), RollbackToMark(c, s) \/ PointFails(c, s, "rollback_to")
          PROVE  NeverAborted'
      BY <1>3, <1>11, <2>3, <3>1, <3>3
    <3> QED BY <2>4, <3>2, <3>3 DEF SaveRollbackTo
  <2>5. CASE SaveRelease(s)
    <3>1. s \in osave /\ scoped /\ opc \in InSave BY <2>5 DEF SaveRelease, InSave
    <3>2. CASE UNCHANGED db BY <1>4, <3>2
    <3>3. ASSUME NEW c \in Conns, SaveConn(s, c), ReleaseMark(c, s) \/ PointFails(c, s, "release")
          PROVE  NeverAborted'
      BY <1>3, <1>11, <2>3, <3>1, <3>3
    <3> QED BY <2>5, <3>2, <3>3 DEF SaveRelease
  <2> QED BY <1>3, <1>4, <1>8, <2>2, <2>4, <2>5 DEF SaveStart, SaveStep, SaveRoute, SaveAcquire, SaveBegin, SavePoint,
           SaveDml, SaveManagedEnd
<1>9. ASSUME NEW t \in Handles, HandleCall(t) \/ HandleStep(t) \/ BackgroundStep(t) PROVE NeverAborted'
  BY <1>3, <1>4, <1>9 DEF HandleCall, HandleCommit, HandleRollback, HandleDrop, HandleTake, HandleCancel,
     HandleStep, TakeConn, Finish, ClearSession, DropClearNow, DropTryTake,
     BackgroundStep, BackgroundRollback, BackgroundClear, SharedTxnDrop, Discard
<1>10. ASSUME NEW t \in Handles, PointStep(t) PROVE NeverAborted'
  <2>1. ASSUME NEW n \in Points PROVE Provider # "postgres" BY <2>1 DEF KeepSafe
  <2>2. CASE SetIsolation(t) BY <1>3, <2>2 DEF SetIsolation
  <2>3. ASSUME NEW n \in Points, CreatePoint(t, n) PROVE NeverAborted' BY <1>3, <2>3 DEF CreatePoint
  <2>4. ASSUME NEW n \in Points, RollbackPoint(t, n) PROVE NeverAborted' BY <1>3, <1>11, <2>1, <2>4 DEF RollbackPoint
  <2>5. ASSUME NEW n \in Points, ReleasePoint(t, n) PROVE NeverAborted' BY <1>3, <1>11, <2>1, <2>5 DEF ReleasePoint
  <2> QED BY <1>10, <2>2, <2>3, <2>4, <2>5 DEF PointStep
<1> QED BY <1>5, <1>6, <1>7, <1>8, <1>9, <1>10 DEF Next, CallerStep, HandleCall, PointStep

(* Which steps tell the caller that something succeeded, or failed.         *)
LEMMA ResultOf ==
  ASSUME EarlierInv, [Next]_vars, NEW w \in Work
  PROVE  \/ res'[w] = res[w] /\ (res[w] # "none" => via'[w] = via[w])
         \/ /\ w \in Stmts /\ via' = via /\ res'[w] \in {"ok", "err", "cancelled"}
            /\ StmtAcquire(w) \/ StmtLockSlot(w) \/ StmtRun(w) \/ StmtCancel(w)
         \/ /\ w \in Saves /\ w \in osave /\ via' = via /\ res'[w] \in {"ok", "err", "cancelled"}
            /\ SaveStep(w) \/ SaveCancel(w)
         \/ \E t \in Handles, n \in Points :
              /\ RollbackPoint(t, n) /\ via' = via /\ w \in Acknowledged(t) /\ res'[w] = "undone"
<1>0. /\ via \in [Work -> Handles \cup {NoHandle}]
      /\ res \in [Work -> {"none", "ok", "err", "cancelled", "undone"}]
      /\ Stmts \cap Saves = {} /\ Stmts \subseteq Work /\ Saves \subseteq Work
  BY EarlierType, NamesAssumption
<1> DEFINE Same == res'[w] = res[w] /\ (res[w] # "none" => via'[w] = via[w])
<1>1. ASSUME UNCHANGED <<via, res>> PROVE Same BY <1>1
<1>2. CASE UNCHANGED vars BY <1>1, <1>2 DEF vars
<1>3. ASSUME NEW k \in Stmts, StmtStart(k) \/ StmtStep(k) \/ StmtCancel(k)
      PROVE  Same \/ /\ w = k /\ via' = via /\ res'[w] \in {"ok", "err", "cancelled"}
                     /\ StmtAcquire(k) \/ StmtLockSlot(k) \/ StmtRun(k) \/ StmtCancel(k)
  <2>1. CASE StmtStart(k) BY <1>1, <2>1 DEF StmtStart
  <2>2. CASE StmtRoute(k)
    <3>1. res[k] = "none" BY <2>2 DEF StmtRoute, EarlierInv, FrameInv, StmtIsFresh
    <3> QED BY <1>0, <2>2, <3>1 DEF StmtRoute
  <2>3. CASE StmtAcquire(k) \/ StmtLockSlot(k) \/ StmtRun(k) \/ StmtCancel(k)
    BY <1>0, <2>3 DEF StmtAcquire, StmtLockSlot, StmtRun, StmtCancel, StmtEnds
  <2> QED BY <1>3, <2>1, <2>2, <2>3 DEF StmtStep
<1>4. CASE BeginLock \/ BeginStep \/ BeginCancel
  BY <1>1, <1>4 DEF BeginLock, BeginStep, BeginAcquire, BeginOk, BeginFails, BeginCancel
<1>5. ASSUME NEW s \in Saves, SaveStart(s) PROVE Same BY <1>1, <1>5 DEF SaveStart
<1>6. ASSUME NEW s \in Saves, SaveStep(s) \/ SaveCancel(s)
      PROVE  Same \/ (w = s /\ s \in osave /\ via' = via /\ res'[w] \in {"ok", "err", "cancelled"})
  <2>1. s \in osave /\ res[s] = "none" BY <1>6, SaveCases DEF EarlierInv, FrameInv, SaveIsFresh
  <2>2. \/ UNCHANGED <<via, res>>
        \/ UNCHANGED res /\ via' = [via EXCEPT ![s] = active]
        \/ UNCHANGED via /\ \E how \in {"ok", "err", "cancelled"} : res' = [res EXCEPT ![s] = how]
    BY <1>6 DEF SaveStep, SaveRoute, SaveAcquire, SaveBegin, SavePoint, SaveDml, SaveManagedEnd,
       SaveRollbackTo, SaveRelease, SaveCancel, SaveEnds
  <2> QED BY <1>0, <2>1, <2>2
<1>7. ASSUME NEW t \in Handles, HandleCall(t) \/ HandleStep(t) \/ BackgroundStep(t) PROVE Same
  BY <1>1, <1>7 DEF HandleCall, HandleCommit, HandleRollback, HandleDrop, HandleTake, HandleCancel,
     HandleStep, TakeConn, Finish, ClearSession, DropClearNow, DropTryTake,
     BackgroundStep, BackgroundRollback, BackgroundClear, SharedTxnDrop
<1>8. ASSUME NEW t \in Handles, PointStep(t)
      PROVE  Same \/ \E n \in Points : /\ RollbackPoint(t, n) /\ via' = via /\ w \in Acknowledged(t) /\ res'[w] = "undone"
  <2>1. ASSUME NEW n \in Points, RollbackPoint(t, n)
        PROVE  Same \/ (via' = via /\ w \in Acknowledged(t) /\ res'[w] = "undone")
    BY <1>1, <2>1 DEF RollbackPoint
  <2>2. CASE ~\E n \in Points : RollbackPoint(t, n)
    BY <1>1, <1>8, <2>2 DEF PointStep, SetIsolation, CreatePoint, ReleasePoint
  <2> QED BY <1>8, <2>1, <2>2
<1> HIDE DEF Same
<1>9. Same => res'[w] = res[w] /\ (res[w] # "none" => via'[w] = via[w]) BY DEF Same
<1> QED BY <1>2, <1>3, <1>4, <1>5, <1>6, <1>7, <1>8, <1>9 DEF Next, CallerStep, HandleCall, PointStep

(* Which step commits a transaction.                                        *)
LEMMA CommitOf ==
  ASSUME EarlierInv, [Next]_vars, NEW t \in Handles, hop'[t] = "commit", hres'[t] = "ok"
  PROVE  \/ hop[t] = "commit" /\ hres[t] = "ok"
         \/ /\ UNCHANGED <<via, res>>
            /\ \E c \in Conns : holder[c] = Taker(t) /\ CommitOk(c)
<1> DEFINE Goal == \/ hop[t] = "commit" /\ hres[t] = "ok"
                   \/ /\ UNCHANGED <<via, res>>
                      /\ \E c \in Conns : holder[c] = Taker(t) /\ CommitOk(c)
<1>0. /\ hpc \in [Handles -> {"none", "live", "take", "exec", "clear", "drop", "try", "done"}]
      /\ hop \in [Handles -> {"none", "commit", "rollback", "drop"}]
      /\ hres \in [Handles -> {"none", "ok", "err", "cancelled"}]
  BY DEF EarlierInv, FrameInv, TypeOK, HandleType
<1>1. ASSUME UNCHANGED <<hop, hres>> PROVE Goal BY <1>1
<1> SUFFICES Goal OBVIOUS
<1>2. ASSUME NEW u \in Handles, HandleCall(u) \/ HandleStep(u) \/ BackgroundStep(u) PROVE Goal
  <2>1. ASSUME NEW op, HandleTake(u, op) PROVE Goal
    <3>1. CASE u = t
      <4>1. hres'[t] = "none" BY <1>0, <2>1, <3>1 DEF HandleTake, EarlierInv, FrameInv, Undecided
      <4> QED BY <4>1
    <3>2. CASE u # t BY <1>0, <2>1, <3>2 DEF HandleTake
    <3> QED BY <3>1, <3>2
  <2>2. CASE HandleCancel(u) BY <1>0, <2>2 DEF HandleCancel
  <2>3. CASE TakeConn(u) BY <1>0, <2>3 DEF TakeConn
  <2>4. CASE Finish(u)
    <3> PICK c \in Conns :
          /\ holder[c] = Taker(u)
          /\ \/ CommitOk(c)
             \/ hres' = [hres EXCEPT ![u] = "err"]
             \/ hop[u] = "rollback" /\ hres' = [hres EXCEPT ![u] = "ok"]
      BY <2>4 DEF Finish
    <3>1. UNCHANGED <<hop, via, res>> BY <2>4 DEF Finish
    <3>2. \A v \in Handles : v # u => hres'[v] = hres[v] BY <1>0, <2>4 DEF Finish
    <3>3. CASE u = t BY <1>0, <3>1, <3>3
    <3> QED BY <3>1, <3>2, <3>3
  <2>5. CASE ClearSession(u) \/ DropClearNow(u) \/ DropTryTake(u) \/ BackgroundStep(u)
    BY <1>1, <2>5 DEF ClearSession, DropClearNow, DropTryTake, BackgroundStep, BackgroundRollback,
       BackgroundClear, SharedTxnDrop, handle
  <2> QED BY <1>2, <2>1, <2>2, <2>3, <2>4, <2>5
      DEF HandleCall, HandleCommit, HandleRollback, HandleDrop, HandleStep
<1> HIDE DEF Goal
<1>3. CASE UNCHANGED vars BY <1>1, <1>3 DEF vars, handle
<1>4. ASSUME NEW k \in Stmts, StmtStart(k) \/ StmtStep(k) \/ StmtCancel(k) PROVE Goal
  BY <1>1, <1>4 DEF StmtStart, StmtStep, StmtRoute, StmtAcquire, StmtLockSlot, StmtRun, StmtCancel, handle
<1>5. CASE BeginLock \/ BeginStep \/ BeginCancel
  BY <1>1, <1>5 DEF BeginLock, BeginStep, BeginAcquire, BeginOk, BeginFails, BeginCancel, handle
<1>6. ASSUME NEW s \in Saves, SaveStart(s) PROVE Goal BY <1>1, <1>6 DEF SaveStart, handle
<1>7. ASSUME NEW s \in Saves, SaveStep(s) \/ SaveCancel(s) PROVE Goal BY <1>1, <1>7, SaveCases
<1>8. ASSUME NEW u \in Handles, PointStep(u) PROVE Goal
  BY <1>1, <1>8 DEF PointStep, SetIsolation, CreatePoint, RollbackPoint, ReleasePoint, handle
<1> QED BY <1>2, <1>3, <1>4, <1>5, <1>6, <1>7, <1>8 DEF Next, CallerStep, HandleCall, PointStep

(* Where a piece of work succeeds: in the transaction it was routed to,     *)
(* which has not ended; otherwise it is durable.                            *)
LEMMA SuccessIsDurable ==
  ASSUME SeqSafe, SeqInv, NeverAborted, [Next]_vars, NEW w \in Work, res[w] # "ok", res'[w] = "ok"
  PROVE  IF via[w] = NoHandle THEN w \in durable' ELSE \E c \in Conns : Held(c, via[w])
<1>0. /\ EarlierInv /\ DbType /\ txs \in [Conns -> {"none", "open", "aborted"}] /\ pending \in [Conns -> SUBSET Work]
      /\ osave \subseteq Saves /\ NoHandle \notin Handles /\ active \in Handles \cup {NoHandle}
      /\ res \in [Work -> {"none", "ok", "err", "cancelled", "undone"}]
  BY EarlierType, NamesAssumption DEF SeqInv
<1>1. ASSUME w \in Stmts, StmtAcquire(w) \/ StmtLockSlot(w) \/ StmtRun(w) \/ StmtCancel(w)
      PROVE  IF via[w] = NoHandle THEN w \in durable' ELSE \E c \in Conns : Held(c, via[w])
  <2>1. StmtRun(w) BY <1>0, <1>1 DEF StmtAcquire, StmtLockSlot, StmtCancel, StmtEnds
  <2> PICK c \in Conns : StmtConn(w, c) /\ (RunOk(c, w) \/ StmtEnds(w, "err")) BY <2>1 DEF StmtRun
  <2>2. RunOk(c, w) BY <1>0 DEF StmtEnds
  <2>3. CASE via[w] = NoHandle
    <3>1. txs[c] = "none" BY <1>0, <1>1, <2>3 DEF StmtConn, EarlierInv, PoolInv, StmtIsClean, IsClean
    <3> QED BY <2>2, <2>3, <3>1 DEF RunOk
  <2> QED BY <2>3 DEF StmtConn, Held
<1>2. ASSUME w \in Saves, w \in osave, SaveStep(w) \/ SaveCancel(w)
      PROVE  IF via[w] = NoHandle THEN w \in durable' ELSE \E c \in Conns : Held(c, via[w])
  <2>1. SaveManagedEnd(w) \/ SaveRelease(w)
    BY <1>0, <1>2 DEF SaveStep, SaveRoute, SaveAcquire, SaveBegin, SavePoint, SaveDml,
       SaveRollbackTo, SaveCancel, SaveEnds
  <2>2. opc \in InSave BY <2>1 DEF SaveManagedEnd, SaveRelease, InSave
  <2>3. via[w] = active /\ (scoped <=> active # NoHandle)
    BY <1>2, <2>2 DEF SeqInv, ScopedIsJoined, InSave
  <2>4. CASE SaveManagedEnd(w)
    <3>1. ~scoped /\ via[w] = NoHandle BY <2>3, <2>4 DEF SaveManagedEnd
    <3> PICK c \in Conns : /\ holder[c] = Owner
                           /\ (opc = "s_end" /\ CommitOk(c)) \/ SaveEnds(w, "err")
      BY <2>4 DEF SaveManagedEnd
    <3>2. opc = "s_end" /\ CommitOk(c) BY <1>0 DEF SaveEnds
    <3>3. txs[c] = "open" BY <1>0, <1>2, <2>2, <3>1 DEF SeqInv, SaveIsOpen, NeverAborted
    <3>4. w \in pending[c] BY <1>2, <3>1, <3>2 DEF SeqInv, SaveIsPending, SaveConn
    <3> QED BY <3>1, <3>2, <3>3, <3>4 DEF CommitOk, EndTxn
  <2>5. CASE SaveRelease(w)
    <3>1. scoped BY <2>5 DEF SaveRelease
    <3>2. via[w] \in Handles /\ \E c \in Conns : holder[c] = Slot(via[w])
      BY <1>0, <1>2, <2>2, <3>1, JoinedConn DEF SeqInv
    <3> QED BY <1>0, <3>2 DEF Held
  <2> QED BY <2>1, <2>4, <2>5
<1> QED BY <1>0, <1>1, <1>2, ResultOf

LEMMA AckInit == Init => AckInv
  BY DEF Init, AckInv, NeverAborted, AcknowledgedIsDurable

LEMMA AckNext == SeqSafe /\ KeepSafe /\ SeqInv /\ AckInv /\ [Next]_vars => AckInv'
<1> SUFFICES ASSUME SeqSafe, KeepSafe, SeqInv, AckInv, [Next]_vars PROVE AckInv' OBVIOUS
<1>0. /\ EarlierInv /\ EarlierInv' /\ TypeOK /\ NoHandle \notin Handles
      /\ txs \in [Conns -> {"none", "open", "aborted"}]
      /\ NeverAborted /\ AcknowledgedIsDurable
  BY EarlierNext, EarlierType, NamesAssumption DEF SeqInv, AckInv
<1>1. NeverAborted' BY <1>0, NeverAbortedNext
<1>2. durable \subseteq durable' BY <1>0, NextTouches DEF db
<1>3. ASSUME NEW w \in Work, res'[w] = "ok",
             via'[w] = NoHandle \/ \E t \in Handles : via'[w] = t /\ hop'[t] = "commit" /\ hres'[t] = "ok"
      PROVE  w \in durable'
  <2>1. CASE res[w] = "ok"
    <3>1. via'[w] = via[w] BY <1>0, <1>3, <2>1, ResultOf
    <3>2. CASE via[w] = NoHandle BY <1>0, <1>2, <2>1, <3>2 DEF AcknowledgedIsDurable
    <3>3. ASSUME NEW t \in Handles, via[w] = t, hop'[t] = "commit", hres'[t] = "ok" PROVE w \in durable'
      <4>1. CASE hop[t] = "commit" /\ hres[t] = "ok" BY <1>0, <1>2, <2>1, <3>3, <4>1 DEF AcknowledgedIsDurable
      <4>2. ASSUME NEW c \in Conns, holder[c] = Taker(t), CommitOk(c) PROVE w \in durable'
        <5>1. w \in pending[c] BY <2>1, <3>3, <4>2 DEF SeqInv, AckIsPending, Held, Acknowledged
        <5>2. txs[c] = "open" BY <1>0, <4>2 DEF SeqInv, HeldIsOpen, Held, NeverAborted
        <5> QED BY <4>2, <5>1, <5>2 DEF CommitOk, EndTxn
      <4> QED BY <1>0, <3>3, <4>1, <4>2, CommitOf
    <3> QED BY <1>3, <3>1, <3>2, <3>3
  <2>2. CASE res[w] # "ok"
    <3>1. via'[w] = via[w]  BY <1>0, <1>3, <2>2, ResultOf
    <3>2. IF via[w] = NoHandle THEN w \in durable' ELSE \E c \in Conns : Held(c, via[w])
      BY <1>0, <1>3, <2>2, SuccessIsDurable
    <3>3. ASSUME NEW t \in Handles, via[w] = t, hop'[t] = "commit", hres'[t] = "ok" PROVE FALSE
      <4>1. ~UNCHANGED <<via, res>> BY <1>3, <2>2
      <4>2. hop[t] = "commit" /\ hres[t] = "ok" BY <1>0, <3>3, <4>1, CommitOf
      <4> QED BY <1>0, <3>2, <3>3, <4>2 DEF EarlierInv, FrameInv, EndedHasNone
    <3> QED BY <1>3, <3>1, <3>2, <3>3
  <2> QED BY <2>1, <2>2
<1> QED BY <1>1, <1>3 DEF AckInv, AcknowledgedIsDurable

(* What the caller was told has succeeded survives, in a context whose calls*)
(* are awaited one after the other: savepoints of the holder of the handle, *)
(* saves that fail and are rolled back to their own savepoint, statements   *)
(* that fail, and futures that are dropped at the end of a call do not take *)
(* away what succeeded before them (session.rs, transaction.rs and          *)
(* save_changes).  In PostgreSQL this is where no error aborts the          *)
(* transaction: the COMMIT of an aborted one is reported as success.        *)
THEOREM AcknowledgedStays == SeqSafe /\ KeepSafe => (Spec => []AcknowledgedIsDurable)
<1> SUFFICES ASSUME SeqSafe, KeepSafe PROVE Spec => []AcknowledgedIsDurable OBVIOUS
<1>1. Init => SeqInv /\ AckInv BY SeqInit, AckInit
<1>2. (SeqInv /\ AckInv) /\ [Next]_vars => (SeqInv /\ AckInv)' BY SeqNext, AckNext
<1>3. SeqInv /\ AckInv => AcknowledgedIsDurable BY DEF AckInv
<1> QED BY <1>1, <1>2, <1>3, PTL DEF Spec

-----------------------------------------------------------------------------
(* What was undone is nowhere.                                              *)
Runs(w) == \/ w \in Stmts /\ (StmtRun(w) \/ StmtCancel(w))
           \/ w \in Saves /\ w \in osave /\ (SaveDml(w) \/ SaveCancel(w))

(* Work comes to the database only by its own statements.                   *)
LEMMA NextWrites ==
  ASSUME DbType, [Next]_vars, NEW w \in Work, Written(w)'
  PROVE  Written(w) \/ Runs(w)
<1> DEFINE Goal == Written(w) \/ Runs(w)
<1>0. Stmts \subseteq Work /\ Saves \subseteq Work BY DEF Work
<1>1. ASSUME NEW d \in Conns, AddsNothing(d) PROVE Goal BY <1>1 DEF AddsNothing, Written, Holds
<1>2. ASSUME UNCHANGED <<pending, mark, durable>> PROVE Goal BY <1>2 DEF Written, Holds
<1>3. ASSUME NEW d \in Conns, NEW v \in Work, RunOk(d, v), Runs(v) PROVE Goal
  <2>1. \A e \in Conns : Holds(e, w)' => Holds(e, w) \/ w = v BY <1>3, RunAdds
  <2>2. durable' \subseteq durable \cup {v} BY <1>3 DEF RunOk
  <2> QED BY <1>3, <2>1, <2>2 DEF Written
<1>4. ASSUME NEW d \in Conns, \/ RunFails(d) \/ OpenTxn(d) \/ OpenFails(d)
                              \/ \E a : EndTxn(d, a)
                              \/ CommitOk(d) \/ CommitFails(d)
                              \/ \E n : \/ SetMark(d, n) \/ RollbackToMark(d, n) \/ ReleaseMark(d, n)
                                        \/ \E f : PointFails(d, n, f)
      PROVE  Goal
  BY <1>1, <1>4, TxnAddsNothing, EndAddsNothing, MarkAddsNothing DEF CommitOk, CommitFails
<1> SUFFICES Goal OBVIOUS
<1>5. ASSUME UNCHANGED db PROVE Goal BY <1>2, <1>5 DEF db
<1>6. ASSUME NEW k \in Stmts, StmtStart(k) \/ StmtStep(k) \/ StmtCancel(k) PROVE Goal
  <2>1. CASE StmtRun(k) \/ StmtCancel(k)
    <3>1. k \in Work /\ Runs(k) BY <1>0, <2>1 DEF Runs
    <3> HIDE DEF Goal
    <3> QED BY <1>3, <1>4, <1>5, <2>1, <3>1 DEF StmtRun, StmtCancel
  <2> HIDE DEF Goal
  <2> QED BY <1>5, <1>6, <2>1 DEF StmtStart, StmtStep, StmtRoute, StmtAcquire, StmtLockSlot
<1>7. ASSUME NEW s \in Saves, SaveStart(s) \/ SaveStep(s) \/ SaveCancel(s) PROVE Goal
  <2>0. s \in Work BY <1>0
  <2>1. ASSUME SaveDml(s) \/ SaveCancel(s) PROVE Runs(s) BY <2>1 DEF Runs, SaveDml, SaveCancel
  <2> HIDE DEF Goal
  <2>2. CASE SaveCancel(s)
    <3>1. ASSUME NEW d \in Conns, InFlight(s, d) PROVE Goal
      BY <1>3, <1>4, <1>5, <2>0, <2>1, <2>2, <3>1 DEF InFlight
    <3> QED BY <1>4, <1>5, <2>2, <3>1 DEF SaveCancel
  <2>3. CASE SaveDml(s) BY <1>3, <1>4, <1>5, <2>0, <2>1, <2>3 DEF SaveDml
  <2> QED BY <1>4, <1>5, <1>7, <2>2, <2>3 DEF SaveStart, SaveStep, SaveRoute, SaveAcquire, SaveBegin, SavePoint,
          SaveManagedEnd, SaveRollbackTo, SaveRelease
<1> HIDE DEF Goal
<1>8. CASE BeginLock \/ BeginStep \/ BeginCancel
  BY <1>2, <1>4, <1>5, <1>8 DEF BeginLock, BeginStep, BeginAcquire, BeginOk, BeginFails, BeginCancel
<1>9. ASSUME NEW t \in Handles, HandleCall(t) \/ HandleStep(t) \/ BackgroundStep(t) PROVE Goal
  BY <1>4, <1>5, <1>9 DEF HandleCall, HandleCommit, HandleRollback, HandleDrop, HandleTake, HandleCancel,
     HandleStep, TakeConn, Finish, ClearSession, DropClearNow, DropTryTake,
     BackgroundStep, BackgroundRollback, BackgroundClear, SharedTxnDrop, Discard
<1>10. ASSUME NEW t \in Handles, PointStep(t) PROVE Goal
  BY <1>2, <1>4, <1>10 DEF PointStep, SetIsolation, CreatePoint, RollbackPoint, ReleasePoint
<1>11. CASE UNCHANGED vars BY <1>5, <1>11 DEF vars
<1> QED BY <1>6, <1>7, <1>8, <1>9, <1>10, <1>11 DEF Next, CallerStep, HandleCall, PointStep

(* A save that joined a transaction and failed is rolled back to its own    *)
(* savepoint, which has none of its work.                                   *)
LEMMA UndoJoined ==
  ASSUME UndoSafe, SeqInv, NEW s \in Saves, SaveRollbackTo(s)
  PROVE  ~Written(s)'
<1>0. /\ EarlierInv /\ ScopedIsJoined /\ SaveIsMarked /\ SaveIsOpen /\ HeldByItsOwn /\ OneConn
      /\ s \in osave /\ s \in Work /\ scoped /\ opc \in InSave /\ NoHandle \notin Handles
      /\ pending \in [Conns -> SUBSET Work] /\ mark \in [Conns -> Seq(MarkEntry)]
  BY EarlierType, NamesAssumption DEF SeqInv, SaveRollbackTo, InSave, EarlierInv, GoneInv, FrameInv
<1>1. via[s] \in Handles BY <1>0, JoinedConn
<1> PICK c \in Conns : /\ holder[c] = Slot(via[s]) /\ \A d \in Conns : SaveConn(s, d) <=> d = c
                       /\ mark[c] # <<>> /\ mark[c][Len(mark[c])].name = s
  BY <1>0, JoinedConn
<1>2. /\ Len(mark[c]) \in DOMAIN mark[c] /\ \A i : Newest(mark[c], s, i) => i = Len(mark[c])
      /\ SubSeq(mark[c], 1, Len(mark[c])) = mark[c]
  BY <1>0, LastIsNewest
<1>3. RollbackToMark(c, s)
  <2>1. ~SaveConsumed(s) BY DEF SaveConsumed
  <2>2. ~PointFails(c, s, "rollback_to") BY <1>2 DEF UndoSafe, PointFails, HasMark
  <2> QED BY <2>1, <2>2 DEF SaveRollbackTo
<1>4. pending' = [pending EXCEPT ![c] = mark[c][Len(mark[c])].work] /\ mark' = [mark EXCEPT ![c] = mark[c]] /\ durable' = durable
  BY <1>2, <1>3 DEF RollbackToMark
<1>5. \A d \in Conns : \A i \in DOMAIN mark[d] : s \notin mark[d][i].work BY <1>0 DEF SaveIsOpen
<1>6. \A d \in Conns : d # c => s \notin pending[d] BY <1>0, <1>1 DEF HeldByItsOwn, OneConn, Held, Holds
<1>7. s \notin durable BY <1>0 DEF SaveIsOpen
<1> QED BY <1>0, <1>2, <1>4, <1>5, <1>6, <1>7 DEF Written, Holds

(* A save that fails any earlier has written nothing, and the ROLLBACK of a *)
(* transaction of its own leaves nothing.                                   *)
LEMMA FailLeavesNothing ==
  ASSUME UndoSafe, SeqInv, NEW s \in osave, SaveStep(s), res'[s] = "err", opc # "s_undone"
  PROVE  ~Written(s)'
<1>0. /\ EarlierInv /\ DbType /\ s \in Saves /\ s \in Work /\ res \in [Work -> {"none", "ok", "err", "cancelled", "undone"}]
      /\ res[s] = "none"
  BY EarlierType DEF SeqInv, EarlierInv, FrameInv, SaveIsFresh
<1>1. ASSUME opc \notin InSave, UNCHANGED <<pending, mark, durable>> PROVE ~Written(s)'
  <2>1. ~Written(s) BY <1>0, <1>1 DEF EarlierInv, GoneInv, SavesRunOnce
  <2> QED BY <1>1, <2>1 DEF Written, Holds
<1>2. CASE SaveAcquire(s) BY <1>1, <1>2 DEF SaveAcquire, InSave, db
<1>3. CASE SaveBegin(s)
  <2>1. UNCHANGED db BY <1>0, <1>3 DEF SaveBegin, OpenFails
  <2> QED BY <1>1, <1>3, <2>1 DEF SaveBegin, InSave, db
<1>4. CASE SavePoint(s)
  <2>1. UNCHANGED <<pending, mark, durable>> BY <1>0, <1>4 DEF SavePoint, PointFails, db
  <2> QED BY <1>1, <1>4, <2>1 DEF SavePoint, InSave
<1>5. CASE SaveManagedEnd(s)
  <2>1. ~scoped /\ opc \in InSave BY <1>5 DEF SaveManagedEnd, InSave
  <2>2. via[s] = NoHandle BY <2>1 DEF SeqInv, ScopedIsJoined, EarlierInv, FrameInv, ManagedIsAlone, InSave
  <2> PICK c \in Conns : /\ holder[c] = Owner
                         /\ CommitFails(c) \/ EndTxn(c, FALSE) \/ SaveEnds(s, "ok")
    BY <1>5 DEF SaveManagedEnd
  <2>3. EndTxn(c, FALSE) BY <1>0 DEF CommitFails, UndoSafe, SaveEnds
  <2>4. /\ \A d \in Conns : Holds(d, s)' => Holds(d, s)
        /\ ~Holds(c, s)' /\ durable' = durable
    BY <1>0, <2>3, EndAddsNothing DEF AddsNothing
  <2>5. \A d \in Conns : Holds(d, s) => d = c
    BY <1>0, <2>2 DEF SeqInv, PooledIsManaged, EarlierInv, PoolInv, OwnerHasOne
  <2>6. s \notin durable BY DEF SeqInv, SaveIsOpen
  <2> QED BY <2>4, <2>5, <2>6 DEF Written
<1>6. CASE SaveRelease(s) BY <1>0, <1>6 DEF SaveRelease, SaveEnds
<1>7. ~SaveRoute(s) /\ ~SaveDml(s) /\ ~SaveRollbackTo(s) BY <1>0 DEF SaveRoute, SaveDml, SaveRollbackTo
<1> QED BY <1>2, <1>3, <1>4, <1>5, <1>6, <1>7 DEF SaveStep

(* What the holder of the handle takes for undone after rollback_point is   *)
(* what the database took back.                                             *)
LEMMA UndonePoint ==
  ASSUME UndoSafe, SeqInv, NEW t \in Handles, NEW n \in Points, RollbackPoint(t, n),
         NEW w \in Work, w \in Acknowledged(t), res'[w] = "undone"
  PROVE  ~Written(w)'
<1>0. /\ EarlierInv /\ HeldByItsOwn /\ OneConn /\ NoHandle \notin Handles /\ hpc[t] = "live"
      /\ pending \in [Conns -> SUBSET Work] /\ mark \in [Conns -> Seq(MarkEntry)]
      /\ points[t] \in Seq(PointEntry) /\ via[w] = t /\ res[w] = "ok"
  BY EarlierType, NamesAssumption
     DEF SeqInv, EarlierInv, GoneInv, FrameInv, RollbackPoint, PointCall, Acknowledged
<1> DEFINE A == Acknowledged(t)
<1>1. PICK c \in Conns, l \in DOMAIN points[t] :
        /\ holder[c] = Slot(t) /\ RollbackToMark(c, n) /\ Newest(points[t], n, l)
        /\ w \notin points[t][l].done
  BY <1>0 DEF RollbackPoint
<1>2. PICK i \in DOMAIN mark[c] : /\ Newest(mark[c], n, i)
                                  /\ pending' = [pending EXCEPT ![c] = mark[c][i].work]
                                  /\ mark' = [mark EXCEPT ![c] = SubSeq(mark[c], 1, i)]
                                  /\ durable' = durable
  BY <1>0, <1>1 DEF RollbackToMark
<1> DEFINE q == mark[c]
           p == points[t]
<1>3. q \in Seq(MarkEntry) /\ p \in Seq(PointEntry) BY <1>0
<1>4. w \notin q[i].work
  <2>1. Pairs(q, p, A) BY <1>0, <1>1 DEF SeqInv, PointsMatch
  <2>2. w \in A /\ w \notin p[l].done BY <1>1
  <2>3. Newest(q, n, i) /\ Newest(p, n, l) BY <1>1, <1>2
  <2> HIDE DEF q, p, A
  <2>4. /\ i \in DOMAIN q /\ l \in DOMAIN p
        /\ q[i].work \cap A = p[l].done \cap A
        /\ Pairs(SubSeq(q, 1, i), SubSeq(p, 1, l), A)
        /\ Pairs(SubSeq(q, 1, i - 1), SubSeq(p, 1, l - 1), A)
    BY <1>3, <2>1, <2>3, PairsNewest
  <2> QED BY <2>2, <2>4
<1>5. StackOk(q, pending[c]) BY DEF SeqInv, StacksGrow
<1>6. ~Holds(c, w)'
  <2>1. pending'[c] = q[i].work /\ mark'[c] = SubSeq(q, 1, i) BY <1>0, <1>2
  <2>2. i \in DOMAIN q OBVIOUS
  <2> HIDE DEF q
  <2>3. Len(q) \in Nat /\ DOMAIN q = 1 .. Len(q) /\ i \in 0 .. Len(q) BY <1>3, <2>2, LenProperties
  <2>4. /\ DOMAIN SubSeq(q, 1, i) = 1 .. i /\ 1 .. i \subseteq DOMAIN q
        /\ \A j \in 1 .. i : SubSeq(q, 1, i)[j] = q[j]
    BY <1>3, <2>3, CutStack
  <2>5. \A j \in 1 .. i : q[j].work \subseteq q[i].work
    <3> TAKE j \in 1 .. i
    <3>1. j \in DOMAIN q /\ (j < i \/ j = i) BY <2>3, <2>4
    <3> QED BY <1>5, <2>2, <3>1 DEF StackOk
  <2> QED BY <1>4, <2>1, <2>4, <2>5 DEF Holds
<1>7. \A d \in Conns : d # c => ~Holds(d, w)'
  <2>1. \A d \in Conns : d # c => ~Holds(d, w) BY <1>0, <1>1 DEF HeldByItsOwn, OneConn, Held
  <2> QED BY <1>0, <1>2, <2>1 DEF Holds
<1>8. w \notin durable'
  <2>1. hop[t] = "none" BY <1>0 DEF EarlierInv, GoneInv, LiveIsUndecided
  <2> QED BY <1>0, <1>2, <2>1 DEF EarlierInv, GoneInv, DurableIsCommitted
<1> QED BY <1>6, <1>7, <1>8 DEF Written

LEMMA UndoneInit == Init => UndoneIsNowhere
  BY DEF Init, UndoneIsNowhere

LEMMA UndoneNext == SeqSafe /\ UndoSafe /\ SeqInv /\ UndoneIsNowhere /\ [Next]_vars => UndoneIsNowhere'
<1> SUFFICES ASSUME SeqSafe, UndoSafe, SeqInv, UndoneIsNowhere, [Next]_vars, NEW w \in Work,
                    (res[w] = "undone" \/ (w \in Saves /\ res[w] = "err") \/ (w \in osave /\ opc = "s_undone"))'
             PROVE  ~Written(w)'
  BY DEF UndoneIsNowhere
<1>0. /\ EarlierInv /\ DbType /\ Stmts \cap Saves = {} /\ osave \subseteq Saves
      /\ res \in [Work -> {"none", "ok", "err", "cancelled", "undone"}]
  BY EarlierType, NamesAssumption DEF SeqInv
<1>1. CASE res[w] = "undone" \/ (w \in Saves /\ res[w] = "err") \/ (w \in osave /\ opc = "s_undone")
  <2>1. ~Written(w) BY <1>1 DEF UndoneIsNowhere
  <2>2. ~Runs(w)
    <3>1. ASSUME w \in Stmts PROVE ~StmtRun(w) /\ ~StmtCancel(w)
      <4>1. res[w] # "none" BY <1>0, <1>1, <3>1
      <4>2. tpc[w] = "done" BY <1>0, <3>1, <4>1 DEF EarlierInv, FrameInv, StmtIsFresh
      <4> QED BY <4>2 DEF StmtRun, StmtCancel
    <3>2. ASSUME w \in osave PROVE ~SaveDml(w) /\ ~SaveCancel(w)
      <4>1. res[w] = "none" BY <1>0, <3>2 DEF EarlierInv, FrameInv, SaveIsFresh
      <4>2. opc = "s_undone" BY <1>1, <4>1
      <4>3. ~SaveDml(w) BY <4>2 DEF SaveDml
      <4>4. SaveCancel(w) => osave' = {} /\ res'[w] = "cancelled" BY <1>0 DEF SaveCancel, SaveEnds
      <4> QED BY <4>3, <4>4
    <3> QED BY <3>1, <3>2 DEF Runs
  <2> QED BY <1>0, <2>1, <2>2, NextWrites
<1>2. CASE res[w] # "undone" /\ ~(w \in Saves /\ res[w] = "err") /\ ~(w \in osave /\ opc = "s_undone")
  <2>1. ASSUME res'[w] = res[w] PROVE ~Written(w)'
    <3>1. w \in osave' /\ opc' = "s_undone" BY <1>2, <2>1
    <3>2. \E s \in osave : SaveRollbackTo(s)
      <4>1. CASE UNCHANGED vars BY <1>2, <3>1, <4>1 DEF vars, owner
      <4>2. CASE osave = {}
        <5>1. ASSUME NEW s \in Saves, SaveStart(s) PROVE FALSE BY <3>1, <5>1 DEF SaveStart
        <5> QED BY <1>0, <3>1, <4>2, <5>1, NoSaveSteps
      <4>3. ASSUME NEW s \in osave, SaveStep(s) \/ SaveCancel(s) PROVE SaveRollbackTo(s)
        BY <3>1, <4>3 DEF SaveStep, SaveRoute, SaveAcquire, SaveBegin, SavePoint, SaveDml, SaveManagedEnd,
           SaveRelease, SaveCancel, SaveEnds
      <4>4. ASSUME NEW t \in Handles, SharedTxnDrop(t) PROVE FALSE BY <1>2, <3>1, <4>4 DEF SharedTxnDrop, owner
      <4> QED BY <1>0, <4>1, <4>2, <4>3, <4>4, SavesAlone
    <3> PICK s \in osave : SaveRollbackTo(s) BY <3>2
    <3>3. w = s
      <4>1. osave' = osave BY DEF SaveRollbackTo
      <4> QED BY <1>0, <3>1, <4>1 DEF EarlierInv, PoolInv, OneSave
    <3> QED BY <1>0, <3>3, UndoJoined
  <2>2. ASSUME w \in Saves, w \in osave, res'[w] \in {"ok", "err", "cancelled"}, SaveStep(w) \/ SaveCancel(w), res'[w] # res[w]
        PROVE  ~Written(w)'
    <3>1. osave' = {}
      BY <1>0, <2>2, SaveCases
    <3>2. res'[w] = "err" BY <2>2, <3>1
    <3>3. SaveStep(w) BY <1>0, <2>2, <3>2 DEF SaveCancel, SaveEnds
    <3> QED BY <1>2, <2>2, <3>2, <3>3, FailLeavesNothing
  <2>3. ASSUME w \in Stmts, res'[w] \in {"ok", "err", "cancelled"}, StmtAcquire(w) \/ StmtLockSlot(w) \/ StmtRun(w) \/ StmtCancel(w)
        PROVE  FALSE
    <3>1. UNCHANGED osave BY <2>3 DEF StmtAcquire, StmtLockSlot, StmtRun, StmtCancel, owner
    <3> QED BY <1>0, <2>3, <3>1
  <2> QED BY <1>0, <2>1, <2>2, <2>3, ResultOf, UndonePoint
<1> QED BY <1>1, <1>2

(* A save that returned Err and work that rollback_point took back are      *)
(* nowhere: not in the database, and not in what a later commit would make  *)
(* durable (fail_save, rollback_point), also where savepoints of the holder *)
(* and those of the saves are nested.  Left out are a ROLLBACK TO that      *)
(* fails, whose error fail_save ignores, and a COMMIT that fails after the  *)
(* server has applied it.                                                   *)
THEOREM UndoneStaysGone == SeqSafe /\ UndoSafe => (Spec => []UndoneIsGone)
<1> SUFFICES ASSUME SeqSafe, UndoSafe PROVE Spec => []UndoneIsGone OBVIOUS
<1>1. Init => SeqInv /\ UndoneIsNowhere BY SeqInit, UndoneInit
<1>2. (SeqInv /\ UndoneIsNowhere) /\ [Next]_vars => (SeqInv /\ UndoneIsNowhere)' BY SeqNext, UndoneNext
<1>3. UndoneIsNowhere => UndoneIsGone BY DEF UndoneIsNowhere, UndoneIsGone, Written, Holds
<1> QED BY <1>1, <1>2, <1>3, PTL DEF Spec
=============================================================================
