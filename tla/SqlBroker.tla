------------------------------- MODULE SqlBroker -------------------------------
(***************************************************************************)
(* internal/sqlbroker: the broker shared by PostgreSQL and MySQL.  Several *)
(* processes run transactions on one table.  Every write path locks a row  *)
(* (SELECT ... FOR UPDATE) before it reads and changes it, and a dependency*)
(* cascade locks children one by one, so transactions wait for each other, *)
(* deadlock, are rolled back and run again.                                *)
(*                                                                         *)
(* A transaction that touches one row is one action; those that touch      *)
(* several (Enqueue, Replay, the ends of a task with their cascade,        *)
(* ReapExpired) go statement by statement.  Writes are kept in the         *)
(* transaction until it commits.  withTx's retry is the same transaction   *)
(* begun again, which Begin always allows.                                 *)
(*                                                                         *)
(* Abstracted: time (a lease is overdue or it is not; any queued task may  *)
(* be due), the attempt counters (a failure may or may not be the last),   *)
(* AllowCompleted (any final execution may be replayed), and the done      *)
(* column of task_deps, which nothing reads.                               *)
(***************************************************************************)
EXTENDS TaskGate, Functions

CONSTANTS
  Tasks,         \* ids, ordered like ULIDs
  Clients,       \* connections with a transaction in flight
  Keys, NoKey,   \* business keys
  LeaseLostMax,
  Submissions,   \* isolation level ("RC": PostgreSQL's default, "RR": MySQL's)
                 \* -> what submitters ask for: DependsOn lists, policies, keys
  MaxClaims      \* bound: lease tokens handed out

ASSUME SqlAssumption ==
  /\ Tasks \subseteq Nat \ {0} /\ IsFiniteSet(Tasks) /\ IsFiniteSet(Clients)
  /\ NoKey \notin Keys
  /\ LeaseLostMax \in Nat \ {0} /\ MaxClaims \in Nat
  /\ DOMAIN Submissions \subseteq {"RC", "RR"}
  /\ \A level \in DOMAIN Submissions :
       Submissions[level] \subseteq [deps : Seq(Tasks), policy : Policies, key : Keys \cup {NoKey}]

VARIABLES
  isolation,  \* the database's level
  rows,       \* the committed rows: id -> row
  late,       \* the tasks whose lease_until is past
  lastToken,  \* lease tokens are 1, 2, 3, ...
  tx          \* client -> its transaction

sqlVars == <<isolation, rows, late, lastToken, tx>>

NoID    == 0
NoToken == 0

Row == [status : Statuses, dependsOn : Seq(Tasks), policy : Policies,
        key : Keys \cup {NoKey}, replayOf : Tasks \cup {NoID},
        pendingParents : Nat, leaseToken : Nat, cancelRequested : BOOLEAN, leaseLost : Nat]

\* No transaction, or one that has not begun.
NoTx == [op |-> "none", phase |-> "none",
         id |-> NoID, policy |-> "fail_fast", deps |-> <<>>,  \* the row Enqueue inserts
         key |-> NoKey,
         target |-> NoID,     \* Replay: the execution to replay
         due |-> {},          \* ReapExpired: the leases overdue at its `now'
         list |-> {},         \* ReapExpired: ids of this pass not yet handled
         read |-> <<>>,       \* Enqueue: the states of the parents locked so far
         work |-> <<>>,       \* ids that became final, or parents still to lock
         par |-> NoID,        \* the final task whose children are being settled
         todo |-> {},         \* its children not yet visited
         writes |-> <<>>,     \* rows written and not committed
         locked |-> {},       \* rows locked
         seen |-> FALSE, snap |-> <<>>]  \* RR: the snapshot plain reads use

SqlInit ==
  /\ isolation \in DOMAIN Submissions
  /\ rows = <<>> /\ late = {} /\ lastToken = NoToken
  /\ tx = [c \in Clients |-> NoTx]

-------------------------------------------------------------------------------
(* Rows, locks and reads.                                                  *)

Parents(r) == Range(r.dependsOn)

\* rs with the rows of w on top.
Over(w, rs) == [t \in DOMAIN w \cup DOMAIN rs |-> IF t \in DOMAIN w THEN w[t] ELSE rs[t]]

With(rs, t, r) == [u \in DOMAIN rs \cup {t} |-> IF u = t THEN r ELSE rs[u]]

Least(S) == CHOOSE t \in S : \A u \in S : t <= u

Free(c, t) == \A d \in Clients \ {c} : t \notin tx[d].locked

\* A row no transaction has locked: what a one-row transaction waits for.
Unlocked(t) == \A d \in Clients : t \notin tx[d].locked

\* What a locking read sees: the latest committed row, or the client's own.
Current(c) == Over(tx[c].writes, rows)

\* What a plain SELECT sees.  Under RR the first one fixes the snapshot.
ReadView(c) == IF tx[c].seen THEN Over(tx[c].writes, tx[c].snap)
               ELSE Current(c)

\* The transaction after a plain SELECT.
AfterRead(x) == IF x.seen \/ isolation = "RC" THEN x ELSE [x EXCEPT !.seen = TRUE, !.snap = rows]

Locking(x, t) == [x EXCEPT !.locked = @ \cup {t}]

Writing(x, t, r) == [Locking(x, t) EXCEPT !.writes = With(@, t, r)]

ClearLease(r) == [r EXCEPT !.leaseToken = NoToken]

Finished(r, s) == [ClearLease(r) EXCEPT !.status = s, !.cancelRequested = FALSE]

HoldsLease(id, token) ==
  id \in DOMAIN rows /\ rows[id].status = "running" /\ rows[id].leaseToken = token

-------------------------------------------------------------------------------
(* Transactions that lock one row.                                         *)

Set(t, r) == rows' = [rows EXCEPT ![t] = r]

\* A new lease_until: also a reaper that took its `now' earlier finds it later.
Renewed(t) ==
  /\ late' = late \ {t}
  /\ tx' = [c \in Clients |-> [tx[c] EXCEPT !.due = @ \ {t}]]

\* tryClaim: FOR UPDATE SKIP LOCKED, then the row becomes running.
Claim(t) ==
  /\ t \in DOMAIN rows /\ Unlocked(t)
  /\ Queued(rows[t].status)
  /\ lastToken < MaxClaims
  /\ Set(t, [rows[t] EXCEPT !.status = "running", !.leaseToken = lastToken + 1])
  /\ lastToken' = lastToken + 1
  /\ Renewed(t)

Heartbeat(t, token) ==
  /\ HoldsLease(t, token) /\ Unlocked(t)
  /\ Renewed(t)
  /\ UNCHANGED <<rows, lastToken>>

Requeue(t, token) ==
  /\ HoldsLease(t, token) /\ Unlocked(t)
  /\ Set(t, Finished(rows[t], "pending"))
  /\ UNCHANGED <<late, lastToken, tx>>

\* Fail, with attempts left: the cancellation flag is kept.
FailRetry(t, token) ==
  /\ HoldsLease(t, token) /\ Unlocked(t)
  /\ Set(t, [ClearLease(rows[t]) EXCEPT !.status = "retrying"])
  /\ UNCHANGED <<late, lastToken, tx>>

\* Cancel of a running task only flags it.
CancelRunning(t) ==
  /\ t \in DOMAIN rows /\ Unlocked(t)
  /\ rows[t].status = "running"
  /\ Set(t, [rows[t] EXCEPT !.cancelRequested = TRUE])
  /\ UNCHANGED <<late, lastToken, tx>>

\* The clock passes the deadline of a lease.
Expire(t) ==
  /\ t \in DOMAIN rows \ late /\ rows[t].status = "running"
  /\ late' = late \cup {t}
  /\ UNCHANGED <<rows, lastToken, tx>>

-------------------------------------------------------------------------------
(* Enqueue: the parents are locked one by one, in the order of DependsOn,  *)
(* then the row is inserted and the transaction commits.                   *)

InFlight == {tx[c].id : c \in Clients}

IsFreshID(id) ==
  /\ id \notin DOMAIN rows \cup InFlight
  /\ \A t \in Tasks : t < id => t \in DOMAIN rows \cup InFlight

\* taskExistsErr, a plain SELECT, and the row to insert.
BeginEnqueue(c, id, sub) ==
  LET x == IF sub.key = NoKey THEN NoTx ELSE AfterRead(NoTx)
  IN  /\ tx[c] = NoTx
      /\ IsFreshID(id)
      /\ Range(sub.deps) \subseteq DOMAIN rows
      /\ sub.key # NoKey => \A t \in DOMAIN rows : rows[t].key # sub.key
      /\ tx' = [tx EXCEPT ![c] = [x EXCEPT !.op = "Enqueue", !.phase = "parents", !.id = id,
                                    !.deps = sub.deps, !.policy = sub.policy, !.key = sub.key,
                                    !.work = sub.deps]]
      /\ UNCHANGED <<rows, late, lastToken>>

ParentState(c) == [id |-> Head(tx[c].work), status |-> rows[Head(tx[c].work)].status]

\* Wrong variant of LockParent: the parent's status is read without a lock.
ReadParentUnlocked(c) ==
  /\ tx[c].phase = "parents" /\ tx[c].work # <<>>
  /\ tx' = [tx EXCEPT ![c] = [@ EXCEPT !.work = Tail(@), !.read = Append(@, ParentState(c))]]
  /\ UNCHANGED <<rows, late, lastToken>>

LockParent(c) ==
  /\ tx[c].phase = "parents" /\ tx[c].work # <<>>
  /\ Free(c, Head(tx[c].work))
  /\ tx' = [tx EXCEPT ![c] = [Locking(tx[c], Head(tx[c].work)) EXCEPT
                               !.work = Tail(@), !.read = Append(@, ParentState(c))]]
  /\ UNCHANGED <<rows, late, lastToken>>

NewRow(dec, x) ==
  [status |-> dec.status, dependsOn |-> x.deps, policy |-> x.policy,
   key |-> x.key, replayOf |-> x.target,
   pendingParents |-> dec.pendingParents, leaseToken |-> NoToken,
   cancelRequested |-> FALSE, leaseLost |-> 0]

\* The unique indexes: one execution of a key that replays nothing, and one
\* replay of an execution.  An INSERT against one fails and is rolled back.
uq_chain_head(key) ==
  key = NoKey \/ \A t \in DOMAIN rows : rows[t].key = key => rows[t].replayOf # NoID

\* Wrong variant of uq_replay_of: there is no such index.
uq_replay_of_missing(target) == TRUE

uq_replay_of(target) == \A t \in DOMAIN rows : rows[t].replayOf # target

InsertRow(c, dec) ==
  /\ rows' = With(rows, tx[c].id, NewRow(dec, tx[c]))
  /\ tx' = [tx EXCEPT ![c] = NoTx]
  /\ UNCHANGED <<late, lastToken>>

Insert(c) ==
  /\ tx[c].phase = "parents" /\ tx[c].work = <<>>
  /\ uq_chain_head(tx[c].key)
  /\ InsertRow(c, DecideOnSubmit(tx[c].read, tx[c].policy))

-------------------------------------------------------------------------------
(* Replay: the target is found and locked, checked, and the new execution  *)
(* inserted.  A check that fails ends in Rollback.                         *)

Replaying(x, id, target) ==
  [x EXCEPT !.op = "Replay", !.phase = "lock", !.id = id, !.target = target,
            !.policy = rows[target].policy, !.key = rows[target].key]

\* By id: one locking read.
BeginReplayID(c, id, target) ==
  /\ tx[c] = NoTx /\ IsFreshID(id)
  /\ target \in DOMAIN rows
  /\ tx' = [tx EXCEPT ![c] = Replaying(NoTx, id, target)]
  /\ UNCHANGED <<rows, late, lastToken>>

TailsOf(rs, key) ==
  {t \in DOMAIN rs : rs[t].key = key /\ \A u \in DOMAIN rs : rs[u].replayOf # t}

\* By key: the statement looks for the tail before it waits for the lock, and
\* its subquery is a plain read.
BeginReplayKey(c, id, key) ==
  /\ tx[c] = NoTx /\ IsFreshID(id)
  /\ \E target \in TailsOf(rows, key) :
       tx' = [tx EXCEPT ![c] = Replaying(AfterRead(NoTx), id, target)]
  /\ UNCHANGED <<rows, late, lastToken>>

LockTarget(c) ==
  /\ tx[c].phase = "lock" /\ Free(c, tx[c].target)
  /\ IsFinal(rows[tx[c].target].status)
  /\ tx' = [tx EXCEPT ![c] = [Locking(@, @.target) EXCEPT !.phase = "check"]]
  /\ UNCHANGED <<rows, late, lastToken>>

\* SELECT 1 ... WHERE replay_of = the target, a plain SELECT.
CheckReplayed(c) ==
  LET rs == ReadView(c)
  IN  /\ tx[c].phase = "check"
      /\ \A t \in DOMAIN rs : rs[t].replayOf # tx[c].target
      /\ tx' = [tx EXCEPT ![c] = [AfterRead(@) EXCEPT !.phase = "insert"]]
      /\ UNCHANGED <<rows, late, lastToken>>

InsertReplay(c) ==
  /\ tx[c].phase = "insert"
  /\ uq_replay_of(tx[c].target)
  /\ InsertRow(c, [status |-> "pending", pendingParents |-> 0])

-------------------------------------------------------------------------------
(* A task ends: its row is locked and written, then propagateTx settles    *)
(* the children, in the same transaction.                                  *)

BeginFinal(c, t, r) ==
  /\ tx[c] = NoTx /\ Unlocked(t)
  /\ tx' = [tx EXCEPT ![c] = [Writing(NoTx, t, r) EXCEPT !.op = "Final", !.phase = "propagate",
                                                         !.work = <<t>>]]
  /\ UNCHANGED <<rows, late, lastToken>>

\* Ack, Fail without attempts left, FinishCanceled.
Finish(c, t, token, s) ==
  /\ HoldsLease(t, token)
  /\ BeginFinal(c, t, Finished(rows[t], s))

\* Cancel of a task that waits or is queued.
CancelQueued(c, t) ==
  /\ t \in DOMAIN rows
  /\ rows[t].status \in {"blocked", "pending", "retrying"}
  /\ BeginFinal(c, t, [ClearLease(rows[t]) EXCEPT !.status = "canceled"])

\* childrenOf.  Also under RR every edge is seen: the UPDATE of task_deps just
\* before makes the latest version of each the transaction's own.
NextParent(c) ==
  LET x == tx[c]
      p == Head(x.work)
  IN  /\ x.phase \notin {"parents", "lock", "check", "insert"}
      /\ x.todo = {} /\ x.work # <<>>
      /\ tx' = [tx EXCEPT ![c] = [AfterRead(x) EXCEPT
                  !.work = Tail(@), !.par = p,
                  !.todo = {t \in DOMAIN rows : p \in Parents(rows[t])}]]
      /\ UNCHANGED <<rows, late, lastToken>>

\* Wrong variant of Settled: how the parent ended is not looked at.
SettledAnyEnd(s, r) ==
  IF r.status # "blocked" THEN r
  ELSE [r EXCEPT !.pendingParents = @ - 1, !.status = IF r.pendingParents = 1 THEN "pending" ELSE @]

\* What a parent that ended with status s does to its child's row.
Settled(s, r) ==
  LET d == DecideOnParentFinal(s, r.status, r.policy, r.pendingParents)
      u == [r EXCEPT !.pendingParents = d.pendingParents]
  IN  CASE d.action = "wake"   -> [u EXCEPT !.status = "pending"]
        [] d.action = "cancel" -> IF r.status = "running" THEN [r EXCEPT !.cancelRequested = TRUE]
                                  ELSE [ClearLease(u) EXCEPT !.status = "canceled"]
        [] OTHER -> u

\* The child is locked, read and settled; a child canceled here has its own
\* children settled next.
VisitChild(c) ==
  LET x == tx[c]
      t == Least(x.todo)
      r == Current(c)[t]
      u == Settled(Current(c)[x.par].status, r)
  IN  /\ x.todo # {}
      /\ Free(c, t)
      /\ tx' = [tx EXCEPT ![c] =
                  [Writing(x, t, u) EXCEPT
                     !.todo = @ \ {t},
                     !.work = IF IsFinal(u.status) /\ ~IsFinal(r.status) THEN Append(@, t) ELSE @]]
      /\ UNCHANGED <<rows, late, lastToken>>

Propagated(x) == x.work = <<>> /\ x.todo = {}

Commit(c) ==
  /\ \/ tx[c].phase = "propagate" /\ Propagated(tx[c])
     \/ tx[c].phase = "repair" /\ tx[c].list = {} /\ Propagated(tx[c])
  /\ rows' = Over(tx[c].writes, rows)
  /\ tx' = [tx EXCEPT ![c] = NoTx]
  /\ UNCHANGED <<late, lastToken>>

-------------------------------------------------------------------------------
(* ReapExpired: three passes in one transaction.                           *)

\* Wrong variant of Expired: the rows other transactions hold are not skipped.
ExpiredUnlocked(c, due) ==
  {t \in due : t \in DOMAIN rows /\ Current(c)[t].status = "running"}

\* The leases overdue at this reaper's `now' that it can lock (SKIP LOCKED).
Expired(c, due) ==
  {t \in due : t \in DOMAIN rows /\ Current(c)[t].status = "running" /\ Free(c, t)}

\* First scan: the overdue tasks with a cancellation flag.  Under RR the index
\* scan locks every overdue row it reads, flagged or not.
BeginReap(c) ==
  LET E == Expired(c, late)
      F == {t \in E : rows[t].cancelRequested}
  IN  /\ tx[c] = NoTx
      /\ tx' = [tx EXCEPT ![c] = [NoTx EXCEPT !.op = "Reap", !.phase = "reap0", !.due = late,
                                    !.list = F, !.locked = IF isolation = "RR" THEN E ELSE F]]
      /\ UNCHANGED <<rows, late, lastToken>>

\* The next task of the pass, once the children of the one before are settled.
Handling(c, phase) ==
  /\ tx[c].phase = phase /\ Propagated(tx[c]) /\ tx[c].list # {}

PassDone(c, phase) ==
  /\ tx[c].phase = phase /\ Propagated(tx[c]) /\ tx[c].list = {}

\* The transaction writes r to row t, the next of its pass.
Handled(x, t, r) ==
  [Writing(x, t, r) EXCEPT !.list = @ \ {t}, !.work = IF IsFinal(r.status) THEN <<t>> ELSE <<>>]

\* Pass 0: a cancellation asked for is carried out.
ReapFlagged(c) ==
  LET t == Least(tx[c].list)
  IN  /\ Handling(c, "reap0")
      /\ tx' = [tx EXCEPT ![c] = Handled(@, t, Finished(Current(c)[t], "canceled"))]
      /\ UNCHANGED <<rows, late, lastToken>>

\* Second scan: every task that is overdue now, its flag is not looked at.
ScanExpired(c) ==
  LET E == Expired(c, tx[c].due)
  IN  /\ PassDone(c, "reap0")
      /\ tx' = [tx EXCEPT ![c] = [tx[c] EXCEPT !.phase = "reap1", !.list = E, !.locked = @ \cup E]]
      /\ UNCHANGED <<rows, late, lastToken>>

\* Pass 1: the loss is counted, the task is queued again or has failed.
Lost(r) ==
  [Finished(r, IF r.leaseLost + 1 >= LeaseLostMax THEN "failed" ELSE "pending")
     EXCEPT !.leaseLost = @ + 1]

ReapLost(c) ==
  LET t == Least(tx[c].list)
  IN  /\ Handling(c, "reap1")
      /\ tx' = [tx EXCEPT ![c] = Handled(@, t, Lost(Current(c)[t]))]
      /\ UNCHANGED <<rows, late, lastToken>>

\* listBlockedIDs, a plain SELECT.
ScanBlocked(c) ==
  LET rs == ReadView(c)
  IN  /\ PassDone(c, "reap1")
      /\ tx' = [tx EXCEPT ![c] = [AfterRead(@) EXCEPT
                  !.phase = "repair", !.list = {t \in DOMAIN rs : rs[t].status = "blocked"}]]
      /\ UNCHANGED <<rows, late, lastToken>>

ParentStates(rs, deps) == [i \in DOMAIN deps |-> [id |-> deps[i], status |-> rs[deps[i]].status]]

\* Pass 2: a blocked task is decided again.  Its own row is locked, those of
\* its parents are read with plain SELECTs.
Repaired(c, r) ==
  LET dec == DecideOnSubmit(ParentStates(ReadView(c), r.dependsOn), r.policy)
  IN  CASE r.status # "blocked"      -> r
        [] dec.status = "canceled"   -> [ClearLease(r) EXCEPT !.status = "canceled"]
        [] OTHER -> [r EXCEPT !.status = dec.status, !.pendingParents = dec.pendingParents]

RepairBlocked(c) ==
  LET x == tx[c]
      t == Least(x.list)
      r == Current(c)[t]
      u == Repaired(c, r)
  IN  /\ Handling(c, "repair")
      /\ Free(c, t)
      /\ tx' = [tx EXCEPT ![c] =
                  IF r.status = "blocked" THEN Handled(x, t, u)
                  ELSE [Locking(x, t) EXCEPT !.list = @ \ {t}]]
      /\ UNCHANGED <<rows, late, lastToken>>

-------------------------------------------------------------------------------
(* Rolling back.                                                           *)

\* The database picks a victim, a lock wait times out, the connection or the
\* process is lost: nothing of the transaction remains.
Rollback(c) ==
  /\ tx[c] # NoTx
  /\ tx' = [tx EXCEPT ![c] = NoTx]
  /\ UNCHANGED <<rows, late, lastToken>>

-------------------------------------------------------------------------------
OneRow ==
  \/ \E t \in Tasks : Claim(t) \/ CancelRunning(t) \/ Expire(t)
  \/ \E t \in Tasks, token \in 1..lastToken :
        Heartbeat(t, token) \/ Requeue(t, token) \/ FailRetry(t, token)

Begin(c) ==
  \/ \E id \in Tasks, sub \in Submissions[isolation] : BeginEnqueue(c, id, sub)
  \/ \E id, target \in Tasks : BeginReplayID(c, id, target)
  \/ \E id \in Tasks, key \in Keys : BeginReplayKey(c, id, key)
  \/ \E t \in Tasks, token \in 1..lastToken, s \in {"completed", "failed", "canceled"} :
        Finish(c, t, token, s)
  \/ \E t \in Tasks : CancelQueued(c, t)
  \/ BeginReap(c)

\* The statements of a transaction under way.
Step(c) ==
  \/ LockParent(c) \/ Insert(c)
  \/ LockTarget(c) \/ CheckReplayed(c) \/ InsertReplay(c)
  \/ NextParent(c) \/ VisitChild(c)
  \/ ReapFlagged(c) \/ ScanExpired(c) \/ ReapLost(c) \/ ScanBlocked(c) \/ RepairBlocked(c)
  \/ Commit(c)

SqlNext ==
  /\ OneRow \/ \E c \in Clients : Begin(c) \/ Step(c) \/ Rollback(c)
  /\ UNCHANGED isolation

SqlSpec == SqlInit /\ [][SqlNext]_sqlVars

-------------------------------------------------------------------------------
(* Properties.                                                             *)

\* Two transactions never lock the same row, whoever writes a row holds its
\* lock, and the committed rows are well formed.
SqlTypeOK ==
  /\ DOMAIN rows \subseteq Tasks /\ \A t \in DOMAIN rows : rows[t] \in Row
  /\ late \subseteq Tasks /\ lastToken \in 0..MaxClaims
  /\ \A c \in Clients : DOMAIN tx[c].writes \subseteq tx[c].locked
  /\ \A c, d \in Clients : c # d => tx[c].locked \cap tx[d].locked = {}

OpenParents(t) == {p \in Parents(rows[t]) : ~IsFinal(rows[p].status)}

\* No lost wake-up across transactions: in the committed table a blocked task
\* has exactly as many open parents as its counter says, at least one, however
\* enqueues, ends, cascades, reaps and rollbacks interleaved.
SqlPendingExact ==
  \A t \in DOMAIN rows :
     rows[t].status = "blocked" =>
       /\ rows[t].pendingParents = Cardinality(OpenParents(t))
       /\ OpenParents(t) # {}

\* Replays of one execution by id and by key, and enqueues of one key, race:
\* the executions of a key form one line, nothing is replayed twice, only its
\* end may be open, and every replay keeps the key (the row lock, the checks and
\* the unique indexes of Replay and Enqueue together, under both levels).
SqlChainsLinear ==
  \A t, u \in DOMAIN rows :
    /\ t # u /\ rows[t].replayOf = rows[u].replayOf =>
         rows[t].replayOf = NoID /\ (rows[t].key = NoKey \/ rows[t].key # rows[u].key)
    /\ rows[t].replayOf = u => IsFinal(rows[u].status) /\ rows[t].key = rows[u].key

\* In particular no task is left blocked when all its parents have ended.
NoLostWakeup ==
  \A t \in DOMAIN rows : rows[t].status = "blocked" => OpenParents(t) # {}

\* A cancellation asked for is not forgotten because the worker died: a
\* flagged task only loses its flag by ending or by a Requeue of its holder.
SqlCancelSurvives ==
  [][\A t \in DOMAIN rows :
       rows[t].cancelRequested /\ ~rows'[t].cancelRequested =>
         IsFinal(rows'[t].status) \/ rows'[t].leaseLost = rows[t].leaseLost]_rows

\* The commits of the interleaved transactions are steps of the lifecycle that
\* the in-memory broker implements: each settles all that depends on it.
Lifecycle ==
  INSTANCE TaskLifecycle
    WITH status  <- [t \in DOMAIN rows |-> rows[t].status],
         parents <- [t \in DOMAIN rows |-> Parents(rows[t])],
         policy  <- [t \in DOMAIN rows |-> rows[t].policy]

SqlImplementsLifecycle == Lifecycle!Spec
===============================================================================
