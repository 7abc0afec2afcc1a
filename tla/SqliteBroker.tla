----------------------------- MODULE SqliteBroker -----------------------------
(***************************************************************************)
(* sqlitebroker: the broker on one SQLite file, shared by the goroutines   *)
(* of a process (one connection) and by several processes.  Every method   *)
(* is a transaction; BEGIN IMMEDIATE takes the file's only write lock, so  *)
(* transactions run one after the other, and a transaction that is not     *)
(* committed when its process dies has never happened.                     *)
(*                                                                         *)
(* A transaction that writes one task is one action.  The others (the end  *)
(* of a task with its cascade, ReapExpired) run statement by statement in  *)
(* `tx', and may be cut off anywhere.  Rows have the fields of             *)
(* MemoryBroker's records, and the decisions on a single row that the two  *)
(* brokers spell out alike are taken from there; what differs is modelled  *)
(* here: the edges of task_deps, the walk over them, the reaper's set-wise *)
(* UPDATEs, and chains that exist only as replay_of pointers.              *)
(*                                                                         *)
(* A transaction reads the clock after BEGIN and nobody else writes before *)
(* its commit, so the time it takes may be thought to pass after it.  Only *)
(* tryClaim reads the clock before BEGIN, which may have to wait.          *)
(***************************************************************************)
EXTENDS TaskGate, Functions

CONSTANTS
  Tasks, Keys, NoKey, Queues, LeaseTTL, LeaseLostMax, ThrottledMax,
  MaxRetries, Delays, MaxTime, MaxClaims,   \* as in MemoryBroker
  Submissions,   \* what submitters ask for: DependsOn lists, policies and keys
  MaxLag         \* bound: how long BEGIN IMMEDIATE makes a claim wait

ASSUME SqliteAssumption ==
  /\ Tasks \subseteq Nat \ {0} /\ IsFiniteSet(Tasks)
  /\ NoKey \notin Keys
  /\ LeaseTTL \in [Queues -> Nat \ {0}]
  /\ LeaseLostMax \in Nat \ {0} /\ ThrottledMax \in Nat \ {0}
  /\ MaxRetries \subseteq Nat /\ Delays \subseteq Nat
  /\ MaxTime \in Nat /\ MaxClaims \in Nat
  /\ Submissions \subseteq [deps : Seq(Tasks), policy : Policies, key : Keys \cup {NoKey}]
  /\ MaxLag \in Nat

VARIABLES
  rows,       \* the committed table tasks: id -> row
  edges,      \* the committed table task_deps: <<child, parent>> -> done
  now,
  lastToken,  \* lease tokens are 1, 2, 3, ...
  tx          \* the transaction that holds the write lock

sqliteVars == <<rows, edges, now, lastToken, tx>>

\* The members of a set of ids in ascending order.
Ascending(S) ==
  [i \in 1..Cardinality(S) |-> CHOOSE t \in S : Cardinality({u \in S : u <= t}) = i]

\* The executions of a key, oldest first, and those some replay_of points to.
ChainOf(k) == Ascending({t \in DOMAIN rows : rows[t].key = k})
Replayed   == {rows[t].replayOf : t \in DOMAIN rows} \ {0}

Mem == INSTANCE MemoryBroker
         WITH recs <- rows, chains <- [k \in Keys |-> ChainOf(k)], replayed <- Replayed,
              closed <- FALSE

NoID == 0

\* The write lock is free; otherwise what the open transaction has written,
\* what its walk has left to do, and the snapshots it will notify.
NoTx == [phase |-> "none", rows |-> <<>>, edges |-> <<>>,
         list |-> {},         \* tasks of this pass of the reaper still to handle
         work |-> <<>>,       \* final tasks whose children are still to settle
         notifs |-> {}]       \* <<task, status>>

SqliteInit ==
  /\ rows = <<>> /\ edges = <<>>
  /\ now = 0 /\ lastToken = 0
  /\ tx = NoTx

-------------------------------------------------------------------------------
(* Transactions that write one task.                                       *)

Idle == tx = NoTx

Parents(r) == Range(r.dependsOn)

SetRow(t, r) == rows' = [rows EXCEPT ![t] = r]

\* The new row, and one edge for each distinct parent: done if it has ended.
Insert(id, r) ==
  LET new == {<<id, p>> : p \in Parents(r)}
  IN  /\ rows'  = [t \in DOMAIN rows \cup {id} |-> IF t = id THEN r ELSE rows[t]]
      /\ edges' = [e \in DOMAIN edges \cup new |->
                     IF e \in new THEN IsFinal(rows[e[2]].status) ELSE edges[e]]

KeyIsFree(key) == key # NoKey => \A t \in DOMAIN rows : rows[t].key # key

Enqueue(id, deps, policy, key, queue, maxRetry, delay) ==
  /\ Idle
  /\ KeyIsFree(key)
  /\ Mem!IsFreshID(id)
  /\ Range(deps) \subseteq DOMAIN rows
  /\ Insert(id, Mem!NewRecord(DecideOnSubmit(Mem!ParentStates(rows, deps), policy),
                              deps, policy, key, NoID, queue, maxRetry, now + delay))
  /\ UNCHANGED <<now, lastToken, tx>>

\* The executions of a key that no replay_of points to.
TailsOf(key) ==
  {t \in DOMAIN rows : rows[t].key = key /\ \A u \in DOMAIN rows : rows[u].replayOf # t}

\* final, then not replayed, then completed only if the caller allows it.
Replayable(target, allowCompleted) ==
  /\ IsFinal(rows[target].status)
  /\ \A u \in DOMAIN rows : rows[u].replayOf # target
  /\ rows[target].status = "completed" => allowCompleted

ReplayTarget(id, target, allowCompleted) ==
  /\ Idle
  /\ Mem!IsFreshID(id)
  /\ Replayable(target, allowCompleted)
  /\ Insert(id, Mem!NewRecord([status |-> "pending", pendingParents |-> 0], <<>>,
                              rows[target].policy, rows[target].key, target,
                              rows[target].queue, rows[target].maxRetry, now))
  /\ UNCHANGED <<now, lastToken, tx>>

\* By id, or by key: LIMIT 1 takes any tail.
Replay(id, allowCompleted) ==
  \/ \E target \in DOMAIN rows : ReplayTarget(id, target, allowCompleted)
  \/ \E key \in Keys : \E target \in TailsOf(key) : ReplayTarget(id, target, allowCompleted)

DueAt(at) == {t \in DOMAIN rows : Queued(rows[t].status) /\ rows[t].runAt <= at}

\* tryClaim: at is its clock, read before BEGIN.  The earliest task due then.
Claim(at, Q) ==
  LET due == {t \in DueAt(at) : rows[t].queue \in Q}
  IN  /\ Idle
      /\ lastToken < MaxClaims
      /\ \E t \in due :
           /\ \A u \in due \ {t} : Mem!Earlier(t, u)
           /\ SetRow(t, [rows[t] EXCEPT !.status = "running", !.leaseToken = lastToken + 1,
                                        !.leaseUntil = at + LeaseTTL[rows[t].queue]])
      /\ lastToken' = lastToken + 1
      /\ UNCHANGED <<edges, now, tx>>

Heartbeat(id, token) ==
  /\ Idle /\ Mem!HoldsLease(id, token)
  /\ SetRow(id, [rows[id] EXCEPT !.leaseUntil = now + LeaseTTL[rows[id].queue]])
  /\ UNCHANGED <<edges, now, lastToken, tx>>

Requeue(id, token) ==
  /\ Idle /\ Mem!HoldsLease(id, token)
  /\ SetRow(id, Mem!Returned(rows[id]))
  /\ UNCHANGED <<edges, now, lastToken, tx>>

FailRetry(id, token, kind, delay) ==
  LET r == Mem!Counted(rows[id], kind)
  IN  /\ Idle /\ Mem!HoldsLease(id, token)
      /\ ~Mem!Exhausted(r, kind)
      /\ SetRow(id, [Mem!ClearLease(r) EXCEPT !.status = "retrying", !.runAt = now + delay])
      /\ UNCHANGED <<edges, now, lastToken, tx>>

CancelRunning(id) ==
  /\ Idle /\ id \in DOMAIN rows
  /\ rows[id].status = "running"
  /\ SetRow(id, [rows[id] EXCEPT !.cancelRequested = TRUE])
  /\ UNCHANGED <<edges, now, lastToken, tx>>

-------------------------------------------------------------------------------
(* The end of a task: its row is written, then propagateTx walks the edges.*)

Notice(rs, S) == {<<t, rs[t].status>> : t \in S}

BeginFinal(id, r) ==
  /\ Idle
  /\ tx' = [NoTx EXCEPT !.phase = "final", !.rows = [rows EXCEPT ![id] = r], !.edges = edges,
                        !.work = <<id>>, !.notifs = {<<id, r.status>>}]
  /\ UNCHANGED <<rows, edges, now, lastToken>>

Ack(id, token) ==
  /\ Mem!HoldsLease(id, token)
  /\ BeginFinal(id, Mem!Finished(rows[id], "completed"))

FailFinal(id, token, kind) ==
  LET r == Mem!Counted(rows[id], kind)
  IN  /\ Mem!HoldsLease(id, token)
      /\ Mem!Exhausted(r, kind)
      /\ BeginFinal(id, Mem!Finished(r, "failed"))

FinishCanceled(id, token) ==
  /\ Mem!HoldsLease(id, token)
  /\ BeginFinal(id, Mem!Finished(rows[id], "canceled"))

CancelQueued(id) ==
  /\ id \in DOMAIN rows
  /\ rows[id].status \in {"blocked", "pending", "retrying"}
  /\ BeginFinal(id, [Mem!ClearLease(rows[id]) EXCEPT !.status = "canceled"])

childrenOf(es, p) == {e[1] : e \in {d \in DOMAIN es : d[2] = p}}

\* What a parent that ended with status s does to the row r of a child.
Settled(s, r) ==
  LET d == DecideOnParentFinal(s, r.status, r.policy, r.pendingParents)
      u == [r EXCEPT !.pendingParents = d.pendingParents]
  IN  CASE d.action = "wake"   -> [u EXCEPT !.status = "pending"]
        [] d.action = "cancel" -> IF r.status = "running" THEN [r EXCEPT !.cancelRequested = TRUE]
                                  ELSE [Mem!ClearLease(u) EXCEPT !.status = "canceled"]
        [] OTHER -> u

\* Wrong variant of Noted: a child that is woken is not notified.
NotedEnds(r, u, c) == IF IsFinal(u.status) /\ ~IsFinal(r.status) THEN {<<c, u.status>>} ELSE {}

\* The snapshot of a task whose row r the walk changed into u.
Noted(r, u, c) == IF u.status # r.status THEN {<<c, u.status>>} ELSE {}

\* Wrong variant of MarkDone: only where a child still waits.
MarkDoneBlocked(x, p) ==
  [e \in DOMAIN x.edges |-> x.edges[e] \/ (e[2] = p /\ x.rows[e[1]].status = "blocked")]

MarkDone(x, p) == [e \in DOMAIN x.edges |-> x.edges[e] \/ e[2] = p]

\* The next task of the queue: its edges are done and its children settled, each
\* by statements on its own row; the children canceled here join the queue.
propagateTx ==
  LET p     == Head(tx.work)
      kids  == childrenOf(tx.edges, p)
      new   == [c \in kids |-> Settled(tx.rows[p].status, tx.rows[c])]
      ended == {c \in kids : IsFinal(new[c].status) /\ ~IsFinal(tx.rows[c].status)}
  IN  /\ tx.work # <<>>
      /\ tx' = [tx EXCEPT !.rows = [t \in DOMAIN @ |-> IF t \in kids THEN new[t] ELSE @[t]],
                          !.edges = MarkDone(tx, p),
                          !.work = Tail(@) \o Ascending(ended),
                          !.notifs = @ \cup UNION {Noted(tx.rows[c], new[c], c) : c \in kids}]
      /\ UNCHANGED <<rows, edges, now, lastToken>>

-------------------------------------------------------------------------------
(* ReapExpired: three passes in one transaction.                           *)

ExpiredIn(rs) == {t \in DOMAIN rs : Mem!IsExpired(rs[t])}

\* One UPDATE ... RETURNING: the rows of `set' get their new values, and are
\* handled one by one in any order.
UpdateReturning(x, phase, set) ==
  [x EXCEPT !.phase = phase,
            !.rows = [t \in DOMAIN @ |-> IF t \in DOMAIN set THEN set[t] ELSE @[t]],
            !.list = DOMAIN set,
            !.notifs = @ \cup Notice(set, DOMAIN set)]

Canceled(r) == Mem!Finished(r, "canceled")

\* Wrong variant of Lost: the limit is compared with the count before this loss.
LostLate(r) ==
  [Mem!Finished(r, IF r.leaseLost >= LeaseLostMax THEN "failed" ELSE "pending")
     EXCEPT !.leaseLost = @ + 1]

Lost(r) ==
  [Mem!Finished(r, IF r.leaseLost + 1 >= LeaseLostMax THEN "failed" ELSE "pending")
     EXCEPT !.leaseLost = @ + 1]

\* Pass 0: expired tasks with a cancellation flag.  A reap that finds no task
\* expired or blocked writes nothing and is left to stuttering.
BeginReap ==
  LET F == {t \in ExpiredIn(rows) : rows[t].cancelRequested}
  IN  /\ Idle
      /\ \E t \in DOMAIN rows : rows[t].status = "blocked" \/ Mem!IsExpired(rows[t])
      /\ tx' = UpdateReturning([NoTx EXCEPT !.rows = rows, !.edges = edges],
                               "reap0", [t \in F |-> Canceled(rows[t])])
      /\ UNCHANGED <<rows, edges, now, lastToken>>

Settling == tx.work # <<>>

\* The children of the next returned row that is final.
ReapNext(t) ==
  /\ tx.phase \in {"reap0", "reap1"} /\ ~Settling
  /\ t \in tx.list
  /\ tx' = [tx EXCEPT !.list = @ \ {t},
                      !.work = IF IsFinal(tx.rows[t].status) THEN <<t>> ELSE <<>>]
  /\ UNCHANGED <<rows, edges, now, lastToken>>

\* Pass 1: every task that is still running and expired.
ReapLost ==
  /\ tx.phase = "reap0" /\ ~Settling /\ tx.list = {}
  /\ tx' = UpdateReturning(tx, "reap1", [t \in ExpiredIn(tx.rows) |-> Lost(tx.rows[t])])
  /\ UNCHANGED <<rows, edges, now, lastToken>>

\* Pass 2: listBlockedIDs, then each is decided again from its parents.
ScanBlocked ==
  /\ tx.phase = "reap1" /\ ~Settling /\ tx.list = {}
  /\ tx' = [tx EXCEPT !.phase = "repair",
                      !.list = {t \in DOMAIN tx.rows : tx.rows[t].status = "blocked"}]
  /\ UNCHANGED <<rows, edges, now, lastToken>>

Repaired(r) ==
  LET dec == DecideOnSubmit(Mem!ParentStates(tx.rows, r.dependsOn), r.policy)
  IN  CASE r.status # "blocked"    -> r
        [] dec.status = "canceled" -> [Mem!ClearLease(r) EXCEPT !.status = "canceled"]
        [] OTHER -> [r EXCEPT !.status = dec.status, !.pendingParents = dec.pendingParents]

RepairBlocked ==
  /\ tx.phase = "repair" /\ ~Settling /\ tx.list # {}
  /\ LET t == Head(Ascending(tx.list))
         u == Repaired(tx.rows[t])
     IN  tx' = [tx EXCEPT !.rows[t] = u, !.list = @ \ {t},
                          !.notifs = @ \cup Noted(tx.rows[t], u, t),
                          !.work = IF u.status = "canceled" /\ tx.rows[t].status = "blocked"
                                   THEN <<t>> ELSE <<>>]
  /\ UNCHANGED <<rows, edges, now, lastToken>>

-------------------------------------------------------------------------------
(* The end of a transaction.                                               *)

TxDone == tx.phase \in {"final", "repair"} /\ tx.list = {} /\ ~Settling

Commit ==
  /\ TxDone
  /\ rows' = tx.rows /\ edges' = tx.edges
  /\ tx' = NoTx
  /\ UNCHANGED <<now, lastToken>>

\* The process dies, its context is canceled or a statement fails: the file
\* stays as it was, and the next transaction finds it so.
Crash ==
  /\ ~Idle
  /\ tx' = NoTx
  /\ UNCHANGED <<rows, edges, now, lastToken>>

Tick ==
  /\ Idle
  /\ now < MaxTime
  /\ now' = now + 1
  /\ UNCHANGED <<rows, edges, lastToken, tx>>

-------------------------------------------------------------------------------
Submit ==
  \E id \in Tasks, s \in Submissions, queue \in Queues, maxRetry \in MaxRetries, delay \in Delays :
     Enqueue(id, s.deps, s.policy, s.key, queue, maxRetry, delay)

\* Any token ever handed out may come back, however late.
Report ==
  \E id \in Tasks, token \in 1..lastToken :
     \/ Ack(id, token) \/ FinishCanceled(id, token)
     \/ Requeue(id, token) \/ Heartbeat(id, token)
     \/ \E kind \in Mem!FailKinds, delay \in Delays :
          FailFinal(id, token, kind) \/ FailRetry(id, token, kind, delay)

\* The statements of the transaction under way.
Step ==
  \/ propagateTx
  \/ (\E t \in Tasks : ReapNext(t)) \/ ReapLost \/ ScanBlocked \/ RepairBlocked
  \/ Commit

SqliteNext ==
  \/ Submit
  \/ \E id \in Tasks, allowCompleted \in BOOLEAN : Replay(id, allowCompleted)
  \/ \E lag \in 0..MaxLag, Q \in SUBSET Queues \ {{}} : lag <= now /\ Claim(now - lag, Q)
  \/ Report
  \/ \E id \in Tasks : CancelRunning(id) \/ CancelQueued(id)
  \/ BeginReap \/ Step \/ Crash
  \/ Tick

SqliteSpec == SqliteInit /\ [][SqliteNext]_sqliteVars

-------------------------------------------------------------------------------
(* Properties.                                                             *)

\* task_deps agrees with tasks after every commit and every crash: there is one
\* edge for each distinct parent, done exactly when that parent has ended, and
\* a blocked task waits for exactly its open edges (Enqueue's marks against
\* propagateTx's, on the direct and on the cascaded ends).
EdgesExact ==
  /\ DOMAIN edges = UNION {{<<t, p>> : p \in Parents(rows[t])} : t \in DOMAIN rows}
  /\ \A e \in DOMAIN edges : edges[e] = IsFinal(rows[e[2]].status)
  /\ \A t \in DOMAIN rows :
       rows[t].status = "blocked" =>
         rows[t].pendingParents = Cardinality({e \in DOMAIN edges : e[1] = t /\ ~edges[e]})

\* Every transition has its notification and no notification is a phantom: the
\* snapshots collected when a transaction commits are those of exactly the
\* tasks whose status it changes, with the status they get (the notifs of Ack,
\* Fail, Cancel, FinishCanceled, propagateTx and ReapExpired).
NotifyExact ==
  TxDone =>
    tx.notifs = Notice(tx.rows, {t \in DOMAIN rows : rows[t].status # tx.rows[t].status})

\* A claim whose BEGIN had to wait: the lease counts from before the wait.
ShortLease ==
  \E lag \in 1..MaxLag, Q \in SUBSET Queues \ {{}} : lag <= now /\ Claim(now - lag, Q)

\* The file behaves like the in-memory broker: each commit is one step of it,
\* with the same record in every field, whatever crash came before, with the
\* chains read off replay_of; but for leases granted by a claim that waited.
SqliteImplementsMemory ==
  /\ Mem!Init
  /\ [][UNCHANGED <<rows, now, lastToken>> \/ Mem!Next \/ ShortLease]_(Mem!vars)
===============================================================================
